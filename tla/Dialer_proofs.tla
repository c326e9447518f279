--------------------------- MODULE Dialer_proofs ---------------------------
(***************************************************************************)
(* Proofs about the Dialer, for any guards, relays, messages, retries and  *)
(* breaks: that it is the channel the other components count on, that no   *)
(* callback runs twice for a message, why a message may be lost or may     *)
(* overtake another, and that a lost relay is looked after.  All but the   *)
(* last rest on there being one copy of a message for a guard.             *)
(***************************************************************************)
EXTENDS Dialer, FunctionTheorems, FiniteSetTheorems, SequenceTheorems, TLAPS

-----------------------------------------------------------------------------
(* Sequences, element by element.                                          *)

LEMMA Appended ==
  ASSUME NEW S, NEW q \in Seq(S), NEW e \in S
  PROVE  /\ Append(q, e) \in Seq(S)
         /\ Len(Append(q, e)) = Len(q) + 1
         /\ \A i \in 1..Len(q) : Append(q, e)[i] = q[i]
         /\ Append(q, e)[Len(q) + 1] = e
OBVIOUS

LEMMA Popped ==
  ASSUME NEW S, NEW q \in Seq(S), q # <<>>
  PROVE  /\ Len(q) \in Nat \ {0}
         /\ Head(q) = q[1] /\ Head(q) \in S
         /\ Tail(q) \in Seq(S) /\ Len(Tail(q)) = Len(q) - 1
         /\ \A i \in 1..(Len(q) - 1) : Tail(q)[i] = q[i + 1]
<1>1. Len(q) \in Nat \ {0}
  BY EmptySeq
<1> QED
  BY <1>1, HeadTailProperties

\* What is done to the positions: all that is asked about it below.
Extends(r, q, e) ==
  /\ \A i \in 1..Len(q) : i \in 1..Len(r) /\ r[i] = q[i] /\ i < Len(q) + 1
  /\ Len(q) + 1 \in 1..Len(r) /\ r[Len(q) + 1] = e
  /\ \A i \in 1..Len(r) : \/ i \in 1..Len(q) /\ r[i] = q[i]
                          \/ i = Len(q) + 1 /\ r[i] = e

Joined(r, q) == \A i \in 1..Len(q) :
  i \in 1..Len(r) /\ r[i] = q[i] /\ \A j \in 1..Len(r) : j \notin 1..Len(q) => i < j

Shortens(r, q) ==
  /\ 1 \in 1..Len(q)
  /\ \A i \in 1..Len(r) : i + 1 \in 1..Len(q) /\ r[i] = q[i + 1] /\ i + 1 # 1
  /\ \A i \in 1..Len(q) : i # 1 => i - 1 \in 1..Len(r) /\ r[i - 1] = q[i] /\ (i - 1) + 1 = i
  /\ \A i, j \in 1..Len(r) : i + 1 = j + 1 => i = j

LEMMA AppendExtends ==
  ASSUME NEW S, NEW q \in Seq(S), NEW e \in S
  PROVE  Extends(Append(q, e), q, e)
<1>1. Len(q) \in Nat
  OBVIOUS
<1> QED
  BY <1>1, Appended DEF Extends

LEMMA ExtendsJoins ==
  ASSUME NEW r, NEW q, NEW e, Extends(r, q, e)
  PROVE  Joined(r, q) /\ \A i \in 1..Len(r) : i \notin 1..Len(q) => r[i] = e
BY DEF Extends, Joined

LEMMA TailShortens ==
  ASSUME NEW S, NEW q \in Seq(S), q # <<>>
  PROVE  Shortens(Tail(q), q)
<1>1. /\ Len(q) \in Nat \ {0} /\ Len(Tail(q)) = Len(q) - 1
      /\ \A i \in 1..(Len(q) - 1) : Tail(q)[i] = q[i + 1]
  BY Popped
<1> QED
  BY <1>1 DEF Shortens

LEMMA FunctionSeq ==
  ASSUME NEW S, NEW n \in Nat, NEW f \in [1..n -> S]
  PROVE  f \in Seq(S) /\ Len(f) = n
OBVIOUS

-----------------------------------------------------------------------------
(* Types.  A stream is opened when there is none, and every one that is    *)
(* gone was broken, so that Stream has enough of them.                     *)

StreamsInv == \A p \in Listener :
  /\ open[p] \in {0, opened[p]}
  /\ opened[p] <= breaks + 1
  /\ open[p] = 0 => opened[p] <= breaks
  /\ \A s \in Stream : s > opened[p] => wire[p][s] = <<>>

\* only a message to one guard is prepared
PreparedInv == \A m \in preparing : Receiver[m] \in Listener

\* A source is made for a stream once, for those in the order they were opened,
\* and the loop finds the newest.
RouteInv ==
  /\ \A p \in Listener : route[p] <= opened[p] /\ \A s \in piped[p] : s <= route[p]
  /\ found # 0 => current # NoEntry /\ found = opened[current.to]

TypeInv == TypeOK /\ StreamsInv /\ RouteInv /\ PreparedInv

LEMMA Bounds == /\ MaxBreaks \in Nat /\ MaxRetries \in Nat /\ NoEntry \notin Entry
                /\ Relay \cap Listener = {} /\ Everyone \notin Listener
                /\ IsFiniteSet(Listener) /\ Receiver \in [Msg -> Listener \cup {Everyone}]
                /\ Stream \subseteq Nat \ {0} /\ 0 \notin Stream
BY DialerAssumption DEF DialerAssumption, Entry, Stream

LEMMA StreamNumbers ==
  ASSUME TypeOK
  PROVE  /\ breaks \in Nat /\ MaxBreaks \in Nat
         /\ \A p \in Listener : opened[p] \in Nat /\ open[p] \in Nat /\ route[p] \in Nat
<1>1. breaks \in Nat /\ MaxBreaks \in Nat
  BY Bounds DEF TypeOK
<1>2. {0} \cup Stream \subseteq Nat
  BY Bounds
<1>3. /\ open \in [Listener -> {0} \cup Stream] /\ opened \in [Listener -> {0} \cup Stream]
      /\ route \in [Listener -> {0} \cup Stream]
  BY DEF TypeOK
<1> QED
  BY <1>1, <1>2, <1>3

LEMMA InitTypes == Init => TypeInv
<1> SUFFICES ASSUME Init PROVE TypeInv
  OBVIOUS
<1>1. TypeOK
  BY Bounds DEF Init, TypeOK, Peer
<1>2. StreamsInv
  BY Bounds DEF Init, StreamsInv
<1>3. RouteInv
  BY DEF Init, RouteInv
<1> QED
  BY <1>1, <1>2, <1>3 DEF TypeInv, PreparedInv, Init

\* The connections change in steps of their own.
LEMMA ConnectionTypes ==
  ASSUME TypeInv,
         \/ NodeStarts \/ StartFails \/ DialPeer
         \/ \E p \in Peer : Connect(p) \/ Disconnect(p) \/ RemovePeer(p)
         \/ \E p \in Listener : Discover(p) \/ CloseStream(p)
         \/ \E r \in Relay : ReaddRelay(r)
  PROVE  TypeInv'
<1> USE DEF TypeInv
<1>p. PreparedInv'
  BY DEF PreparedInv, NodeStarts, StartFails, DialPeer, Connect, Disconnect, RemovePeer,
     Discover, CloseStream, ReaddRelay, outgoing
<1>r. RouteInv'
  <2>1. UNCHANGED <<current, opened, route, piped, found>>
    BY DEF NodeStarts, StartFails, DialPeer, Connect, Disconnect, RemovePeer,
       Discover, CloseStream, ReaddRelay, outgoing, streams
  <2> QED
    BY <2>1 DEF RouteInv
<1> HIDE DEF PreparedInv, RouteInv
<1>c. \A p \in Listener : cut \cup (Carried(p) \X {p}) \in SUBSET (Msg \X Listener)
  BY DEF Carried, TypeOK
<1>b. breaks \in Nat /\ MaxBreaks \in Nat /\ \A p \in Listener : opened[p] \in Nat
  BY StreamNumbers
<1>1. CASE NodeStarts \/ StartFails \/ (\E p \in Peer : RemovePeer(p))
           \/ (\E p \in Listener : Discover(p)) \/ (\E r \in Relay : ReaddRelay(r))
  <2>1. TypeOK'
    BY <1>1 DEF NodeStarts, StartFails, RemovePeer, Discover, ReaddRelay, TypeOK, Peer,
       outgoing, streams, incoming
  <2>2. StreamsInv'
    BY <1>1 DEF NodeStarts, StartFails, RemovePeer, Discover, ReaddRelay, StreamsInv, streams
  <2> QED
    BY <1>p, <1>r, <2>1, <2>2
<1>2. ASSUME NEW p \in Peer, PeerConnected(p),
             UNCHANGED <<node, book, removing, deaf, outgoing, streams, wire, incoming, breaks, cut>>
      PROVE  TypeInv'
  <2>1. TypeOK'
    BY <1>2 DEF PeerConnected, TypeOK, outgoing, streams, incoming
  <2>2. StreamsInv'
    BY <1>2 DEF StreamsInv, streams
  <2> QED
    BY <1>p, <1>r, <2>1, <2>2
<1>3. CASE DialPeer \/ \E p \in Peer : Connect(p)
  <2>1. DialPeer => current.to \in Peer
    BY DEF DialPeer, TypeOK, Entry, Peer
  <2> QED
    BY <1>2, <1>3, <2>1 DEF DialPeer, Connect
<1>4. ASSUME NEW p \in Peer, Disconnect(p) PROVE TypeInv'
  <2>0. removing' \in SUBSET Peer /\ connected' \in SUBSET Peer
    BY <1>4 DEF Disconnect, TypeOK
  <2>1. watch' \in [Relay -> Nat] /\ deaf' \in [Relay -> Nat]
    <3>1. watch \in [Relay -> Nat] /\ deaf \in [Relay -> Nat]
      BY DEF TypeOK
    <3>2. UNCHANGED <<watch, deaf>> \/ TryReconnecting(p)
      BY <1>4 DEF Disconnect
    <3> QED
      BY <3>1, <3>2 DEF TryReconnecting
  <2>2. /\ \A q \in Listener : open'[q] \in {0, open[q]}
        /\ open' \in [Listener -> {0} \cup Stream]
    BY <1>4 DEF Disconnect, TypeOK, Peer
  <2>3. breaks' = breaks + 1 /\ breaks' \in 0..MaxBreaks
    BY <1>4, <1>b DEF Disconnect, TypeOK
  <2>4. /\ UNCHANGED <<node, book, route, opened, piped, found, outgoing, wire, incoming>>
        /\ cut' \in SUBSET (Msg \X Listener)
    <3>1. cut' \in {cut, cut \cup (Carried(p) \X {p})} /\ (p \notin Listener => cut' = cut)
      BY <1>4 DEF Disconnect, Peer
    <3> QED
      BY <1>4, <1>c, <3>1 DEF Disconnect, TypeOK
  <2>5. TypeOK'
    BY <2>0, <2>1, <2>2, <2>3, <2>4 DEF TypeOK, outgoing, incoming
  <2>6. StreamsInv'
    BY <1>b, <2>2, <2>3, <2>4 DEF StreamsInv
  <2> QED
    BY <1>p, <1>r, <2>5, <2>6
<1>5. ASSUME NEW p \in Listener, CloseStream(p) PROVE TypeInv'
  <2>1. /\ \A q \in Listener : open'[q] \in {0, open[q]}
        /\ open' \in [Listener -> {0} \cup Stream]
    BY <1>5 DEF CloseStream, TypeOK
  <2>2. breaks' = breaks + 1 /\ breaks' \in 0..MaxBreaks
    BY <1>5, <1>b DEF CloseStream, TypeOK
  <2>3. /\ UNCHANGED <<connections, outgoing, route, opened, piped, found, wire, incoming>>
        /\ cut' \in SUBSET (Msg \X Listener)
    BY <1>5, <1>c DEF CloseStream
  <2>4. TypeOK'
    BY <2>1, <2>2, <2>3 DEF TypeOK, connections, outgoing, incoming
  <2>5. StreamsInv'
    BY <1>b, <2>1, <2>2, <2>3 DEF StreamsInv
  <2> QED
    BY <1>p, <1>r, <2>4, <2>5
<1> QED
  BY <1>1, <1>3, <1>4, <1>5

LEMMA FreshType == ASSUME NEW m \in Msg, NEW p \in Listener PROVE Fresh(m, p) \in Entry
BY Bounds DEF Fresh, Entry

\* What a broadcast appends: a copy for each connected guard, in some order.
LEMMA BroadcastEntries ==
  ASSUME TypeInv, NEW m \in Msg, Broadcast(m)
  PROVE  LET P == connected \cap Listener
             n == Cardinality(P) IN
         /\ n \in Nat /\ IsFiniteSet(P)
         /\ \E f \in Orders(P) :
              LET added == [i \in 1..n |-> Fresh(m, f[i])] IN
              /\ queue' = queue \o added
              /\ added \in Seq(Entry) /\ Len(added) = n
              /\ \A i \in 1..n : f[i] \in P /\ added[i] = Fresh(m, f[i])
              /\ \A i, j \in 1..n : f[i] = f[j] => i = j
<1> DEFINE P == connected \cap Listener
           n == Cardinality(P)
<1>1. n \in Nat /\ IsFiniteSet(P)
  BY Bounds, FS_Subset, FS_CardinalityType
<1>2. PICK f \in Orders(P) : queue' = queue \o [i \in 1..n |-> Fresh(m, f[i])]
  BY DEF Broadcast
<1>3. f \in [1..n -> P] /\ \A i, j \in 1..n : f[i] = f[j] => i = j
  BY DEF Orders
<1> DEFINE added == [i \in 1..n |-> Fresh(m, f[i])]
<1>4. added \in [1..n -> Entry]
  BY <1>3, FreshType
<1>5. added \in Seq(Entry) /\ Len(added) = n
  <2> HIDE DEF added
  <2> QED
    BY <1>1, <1>4, FunctionSeq
<1> QED
  BY <1>1, <1>2, <1>3, <1>5

\* What is sent, and waits, and is tried again
LEMMA SendingTypes ==
  ASSUME TypeInv,
         \/ \E m \in Msg : SendTo(m) \/ PushMessage(m) \/ Broadcast(m)
         \/ TakeMessage \/ RetryOrDrop
         \/ \E e \in timers : TimerFires(e)
  PROVE  TypeInv'
<1> DEFINE Typed == /\ preparing' \in SUBSET Msg /\ queue' \in Seq(Entry)
                    /\ current' \in Entry \cup {NoEntry} /\ timers' \in SUBSET Entry
                    /\ posted' \in [Listener -> Seq(Msg)]
                    /\ \A m \in preparing' : Receiver[m] \in Listener
<1>t. /\ preparing \in SUBSET Msg /\ queue \in Seq(Entry)
      /\ current \in Entry \cup {NoEntry} /\ timers \in SUBSET Entry
      /\ posted \in [Listener -> Seq(Msg)]
      /\ \A m \in preparing : Receiver[m] \in Listener
  BY DEF TypeInv, TypeOK, PreparedInv
<1>1. UNCHANGED <<connections, streams, wire, incoming, breaks, cut>>
  BY DEF SendTo, PushMessage, Broadcast, TakeMessage, RetryOrDrop, TimerFires
<1>r. RouteInv'
  <2>1. found = 0 \/ current' = current
    BY DEF TypeInv, RouteInv, SendTo, PushMessage, Broadcast, TakeMessage, RetryOrDrop, TimerFires
  <2> QED
    BY <1>1, <2>1 DEF TypeInv, RouteInv, streams
<1>2. Typed => TypeInv'
  BY <1>1, <1>r DEF TypeInv, TypeOK, StreamsInv, PreparedInv, connections, streams, incoming
<1>3. ASSUME NEW m \in Msg, SendTo(m) PROVE Typed
  BY <1>t, <1>3 DEF SendTo
<1>4. ASSUME NEW m \in Msg, PushMessage(m) PROVE Typed
  <2>1. Fresh(m, Receiver[m]) \in Entry /\ Receiver[m] \in Listener
    BY <1>t, <1>4, FreshType DEF PushMessage
  <2>2. queue' \in Seq(Entry)
    BY <1>t, <1>4, <2>1, Appended DEF PushMessage
  <2>3. Append(posted[Receiver[m]], m) \in Seq(Msg)
    BY <1>t, <2>1, Appended
  <2> QED
    BY <1>t, <1>4, <2>2, <2>3 DEF PushMessage
<1>5. ASSUME NEW m \in Msg, Broadcast(m) PROVE Typed
  <2>1. queue' \in Seq(Entry)
    <3>1. PICK added \in Seq(Entry) : queue' = queue \o added
      BY <1>5, BroadcastEntries
    <3> QED
      BY <1>t, <3>1, ConcatProperties
  <2>2. \A p \in Listener : Append(posted[p], m) \in Seq(Msg)
    BY <1>t, Appended
  <2> QED
    BY <1>t, <1>5, <2>1, <2>2 DEF Broadcast
<1>6. ASSUME TakeMessage PROVE Typed
  BY <1>t, <1>6, Popped DEF TakeMessage
<1>7. ASSUME RetryOrDrop PROVE Typed
  <2>1. current \in Entry
    BY <1>t, <1>7 DEF RetryOrDrop
  <2>2. current.retries + 1 <= MaxRetries => [current EXCEPT !.retries = current.retries + 1] \in Entry
    BY <2>1, Bounds DEF Entry
  <2> QED
    BY <1>t, <1>7, <2>2 DEF RetryOrDrop
<1>8. ASSUME NEW e \in timers, TimerFires(e) PROVE Typed
  BY <1>t, <1>8, Appended DEF TimerFires
<1> QED
  BY <1>2, <1>3, <1>4, <1>5, <1>6, <1>7, <1>8

\* A stream is found, or opened: nothing is pushed yet.
LEMMA Finding ==
  ASSUME TypeInv, ReuseStream \/ OpenStream
  PROVE  LET p == current.to
             s == open'[p] IN
         /\ current \in Entry /\ p \in Listener /\ s \in Stream /\ found = 0
         /\ found' = s /\ s = opened'[p] /\ s >= opened[p]
         /\ \A q \in Listener : q # p => open'[q] = open[q] /\ opened'[q] = opened[q]
         /\ open[p] # 0 => s = open[p] /\ opened' = opened
         /\ open[p] = 0 => s = opened[p] + 1
         /\ open' \in [Listener -> {0} \cup Stream]
         /\ opened' \in [Listener -> {0} \cup Stream]
         /\ UNCHANGED <<connections, outgoing, route, piped, wire, incoming, breaks, cut>>
<1> DEFINE p == current.to
<1>1. current \in Entry /\ p \in Listener
  BY DEF ReuseStream, OpenStream, TypeInv, TypeOK, Entry
<1>2. /\ opened[p] \in Nat /\ open[p] \in {0, opened[p]}
      /\ open \in [Listener -> {0} \cup Stream]
      /\ opened \in [Listener -> {0} \cup Stream]
      /\ opened[p] <= breaks + 1 /\ (open[p] = 0 => opened[p] <= breaks)
      /\ breaks \in 0..MaxBreaks /\ MaxBreaks \in Nat
  BY <1>1, StreamNumbers DEF TypeInv, TypeOK, StreamsInv
<1>3. CASE ReuseStream
  <2>1. open[p] \in Stream /\ open[p] = opened[p]
    BY <1>1, <1>2, <1>3 DEF ReuseStream
  <2>2. UNCHANGED <<connections, outgoing, open, opened, route, piped, wire, incoming, breaks, cut>>
    BY <1>3 DEF ReuseStream
  <2>3. found = 0 /\ found' = open[p] /\ open[p] # 0
    BY <1>3 DEF ReuseStream
  <2> QED
    BY <1>1, <1>2, <2>1, <2>2, <2>3
<1>4. CASE OpenStream
  <2> DEFINE s == opened[p] + 1
  <2>1. /\ open[p] = 0 /\ found = 0 /\ found' = s
        /\ opened' = [opened EXCEPT ![p] = s] /\ open' = [open EXCEPT ![p] = s]
        /\ UNCHANGED <<connections, outgoing, route, piped, wire, incoming, breaks, cut>>
    BY <1>4 DEF OpenStream
  <2>2. s \in Stream
    BY <1>2, <2>1 DEF Stream
  <2>3. /\ open'[p] = s /\ opened'[p] = s
        /\ \A q \in Listener : q # p => open'[q] = open[q] /\ opened'[q] = opened[q]
        /\ open' \in [Listener -> {0} \cup Stream]
        /\ opened' \in [Listener -> {0} \cup Stream]
    BY <1>1, <1>2, <2>1, <2>2
  <2> QED
    BY <1>1, <1>2, <2>1, <2>2, <2>3
<1> QED
  BY <1>3, <1>4

\* The entry at work becomes a packet of the newest stream: a new source is piped
\* to a stream only when none was.
LEMMA Pushing ==
  ASSUME TypeInv, PushFound
  PROVE  LET p == current.to IN
         /\ current \in Entry /\ p \in Listener /\ found \in Stream
         /\ found = opened[p]
         /\ PushInto(p, found)
         /\ route[p] = found \/ found \notin piped[p]
         /\ current' = NoEntry /\ found' = 0
         /\ UNCHANGED <<connections, preparing, queue, timers, posted, open, opened,
                        incoming, breaks, cut>>
<1> DEFINE p == current.to
<1>1. current \in Entry /\ p \in Listener /\ found \in Stream
  BY DEF PushFound, TypeInv, TypeOK, Entry
<1>2. found = opened[p]
  BY DEF PushFound, TypeInv, RouteInv
<1>3. found \in piped[p] => route[p] = found
  <2>1. route[p] <= found /\ (found \in piped[p] => found <= route[p])
    BY <1>1, <1>2 DEF TypeInv, RouteInv
  <2>2. route[p] \in Nat /\ found \in Nat
    BY <1>1, <1>2, StreamNumbers DEF TypeInv
  <2> QED
    BY <2>1, <2>2
<1> QED
  BY <1>1, <1>2, <1>3 DEF PushFound

\* The packet that is pushed, and what is on the wires then
LEMMA Pushed ==
  ASSUME TypeInv, NEW p \in Listener, NEW s \in Stream, PushInto(p, s), current \in Entry,
         route[p] = s \/ s \notin piped[p]
  PROVE  LET packet == [msg |-> current.msg, retries |-> current.retries] IN
         /\ packet \in Packet
         /\ wire' \in [Listener -> [Stream -> Seq(Packet)]]
         /\ wire'[p][s] = Append(wire[p][s], packet)
         /\ \A q \in Listener, t \in Stream : q # p \/ t # s => wire'[q][t] = wire[q][t]
         /\ route' = [route EXCEPT ![p] = s] /\ route' \in [Listener -> {0} \cup Stream]
         /\ piped' = [piped EXCEPT ![p] = @ \cup {s}] /\ piped' \in [Listener -> SUBSET Stream]
<1> DEFINE packet == [msg |-> current.msg, retries |-> current.retries]
<1>1. packet \in Packet
  BY DEF Entry, Packet
<1>2. /\ wire \in [Listener -> [Stream -> Seq(Packet)]]
      /\ route \in [Listener -> {0} \cup Stream] /\ piped \in [Listener -> SUBSET Stream]
  BY DEF TypeInv, TypeOK
<1>3. Append(wire[p][s], packet) \in Seq(Packet)
  BY <1>1, <1>2, Appended
<1>4. /\ wire' = [wire EXCEPT ![p][s] = Append(@, packet)]
      /\ route' = [route EXCEPT ![p] = s]
      /\ piped' = [piped EXCEPT ![p] = @ \cup {s}]
  BY DEF PushInto
<1> HIDE DEF packet
<1>5. /\ wire' \in [Listener -> [Stream -> Seq(Packet)]]
      /\ wire'[p][s] = Append(wire[p][s], packet)
      /\ \A q \in Listener, t \in Stream : q # p \/ t # s => wire'[q][t] = wire[q][t]
  BY <1>2, <1>3, <1>4
<1>6. route' \in [Listener -> {0} \cup Stream]
  BY <1>2, <1>4
<1>7. piped' \in [Listener -> SUBSET Stream]
  BY <1>2, <1>4
<1> QED
  BY <1>1, <1>4, <1>5, <1>6, <1>7 DEF packet

\* The packet that is read: what is on the wires then, and what has arrived
LEMMA Reading ==
  ASSUME TypeInv, NEW p \in Listener, NEW s \in Stream, ReadMessage(p, s)
  PROVE  /\ wire[p][s] \in Seq(Packet) /\ wire[p][s] # <<>>
         /\ wire[p][s][1] \in Packet
         /\ wire'[p][s] = Tail(wire[p][s])
         /\ Shortens(wire'[p][s], wire[p][s])
         /\ \A q \in Listener, t \in Stream : q # p \/ t # s => wire'[q][t] = wire[q][t]
<1>1. wire \in [Listener -> [Stream -> Seq(Packet)]]
  BY DEF TypeInv, TypeOK
<1>2. wire[p][s] \in Seq(Packet) /\ wire[p][s] # <<>>
  BY <1>1 DEF ReadMessage
<1>3. wire[p][s][1] \in Packet /\ Shortens(Tail(wire[p][s]), wire[p][s])
  BY <1>2, Popped, TailShortens
<1>4. wire' = [wire EXCEPT ![p][s] = Tail(@)]
  BY DEF ReadMessage
<1> QED
  BY <1>1, <1>2, <1>3, <1>4

LEMMA Arriving ==
  ASSUME TypeInv, NEW p \in Listener, NEW s \in Stream, ReadMessage(p, s)
  PROVE  /\ \E item \in [msg : Msg, retries : 0..MaxRetries, via : Stream] :
              /\ item.msg = wire[p][s][1].msg /\ item.retries = wire[p][s][1].retries
              /\ item.via = s
              /\ Extends(inbox'[p], inbox[p], item)
         /\ \A q \in Listener : q # p => inbox'[q] = inbox[q]
<1> DEFINE packet == wire[p][s][1]
           item == [msg |-> packet.msg, retries |-> packet.retries, via |-> s]
<1>1. inbox \in [Listener -> Seq([msg : Msg, retries : 0..MaxRetries, via : Stream])]
  BY DEF TypeInv, TypeOK
<1>2. packet = Head(wire[p][s]) /\ packet \in Packet
  BY Reading, Popped
<1>3. /\ item \in [msg : Msg, retries : 0..MaxRetries, via : Stream]
      /\ item.msg = packet.msg /\ item.retries = packet.retries /\ item.via = s
  BY <1>2 DEF Packet
<1>4. inbox' = [inbox EXCEPT ![p] = Append(@, item)]
  BY <1>2 DEF ReadMessage
<1> HIDE DEF item, packet
<1>5. inbox'[p] = Append(inbox[p], item) /\ \A q \in Listener : q # p => inbox'[q] = inbox[q]
  BY <1>1, <1>4
<1>6. Extends(inbox'[p], inbox[p], item)
  BY <1>1, <1>3, <1>5, AppendExtends
<1> QED
  BY <1>3, <1>5, <1>6 DEF packet

LEMMA Losing ==
  ASSUME TypeInv, NEW p \in Listener, NEW s \in Stream, LoseMessages(p, s)
  PROVE  /\ wire'[p][s] = <<>>
         /\ \A q \in Listener, t \in Stream : q # p \/ t # s => wire'[q][t] = wire[q][t]
         /\ UNCHANGED <<connections, outgoing, streams, incoming, breaks, cut>>
<1>1. wire \in [Listener -> [Stream -> Seq(Packet)]]
  BY DEF TypeInv, TypeOK
<1>2. wire' = [wire EXCEPT ![p][s] = <<>>]
  BY DEF LoseMessages
<1> QED
  BY <1>1, <1>2 DEF LoseMessages

LEMMA FindingTypes ==
  ASSUME TypeInv, ReuseStream \/ OpenStream
  PROVE  TypeInv'
<1> DEFINE p == current.to
           s == open'[p]
<1>1. /\ p \in Listener /\ s \in Stream /\ current \in Entry /\ found' = s
      /\ s = opened'[p] /\ s >= opened[p]
      /\ \A q \in Listener : q # p => open'[q] = open[q] /\ opened'[q] = opened[q]
      /\ open[p] # 0 => s = open[p] /\ opened' = opened
      /\ open[p] = 0 => s = opened[p] + 1
      /\ open' \in [Listener -> {0} \cup Stream] /\ opened' \in [Listener -> {0} \cup Stream]
      /\ UNCHANGED <<connections, outgoing, route, piped, wire, incoming, breaks, cut>>
  BY Finding
<1>2. s \in Nat /\ \A q \in Listener : opened[q] \in Nat /\ route[q] \in Nat
  BY <1>1, StreamNumbers, Bounds DEF TypeInv
<1> HIDE DEF s
<1>3. TypeOK'
  BY <1>1 DEF TypeInv, TypeOK, connections, outgoing, incoming
<1>4. ASSUME NEW q \in Listener
      PROVE  /\ open'[q] \in {0, opened'[q]}
             /\ opened'[q] <= breaks' + 1
             /\ open'[q] = 0 => opened'[q] <= breaks'
             /\ opened'[q] >= opened[q]
             /\ \A t \in Stream : t > opened'[q] => wire'[q][t] = <<>>
  <2>1. /\ open[q] \in {0, opened[q]} /\ opened[q] <= breaks + 1
        /\ open[q] = 0 => opened[q] <= breaks
        /\ \A t \in Stream : t > opened[q] => wire[q][t] = <<>>
        /\ opened[q] \in Nat /\ breaks \in Nat
    BY StreamNumbers DEF TypeInv, StreamsInv
  <2>2. CASE q # p
    BY <1>1, <2>1, <2>2
  <2>3. CASE q = p
    <3>1. s # 0 /\ open'[p] = s /\ opened'[p] = s /\ breaks' = breaks
      BY <1>1, Bounds DEF s
    <3>2. s <= breaks + 1
      BY <1>1, <2>1, <2>3
    <3>3. ASSUME NEW t \in Stream, t > s PROVE wire'[p][t] = <<>>
      <4>1. t > opened[p]
        BY <1>1, <1>2, <2>1, <2>3, <3>3, Bounds
      <4> QED
        BY <1>1, <2>1, <2>3, <4>1
    <3> QED
      BY <1>1, <2>3, <3>1, <3>2, <3>3
  <2> QED
    BY <2>2, <2>3
<1>5. StreamsInv'
  BY <1>4 DEF StreamsInv
<1>6. RouteInv'
  <2>1. current' = current /\ current # NoEntry
    BY <1>1, Bounds DEF outgoing
  <2>2. ASSUME NEW q \in Listener PROVE route'[q] <= opened'[q] /\ \A t \in piped'[q] : t <= route'[q]
    <3>1. route[q] <= opened[q] /\ \A t \in piped[q] : t <= route[q]
      BY DEF TypeInv, RouteInv
    <3>2. opened'[q] \in Nat
      <4>1. opened'[q] \in {0} \cup Stream /\ {0} \cup Stream \subseteq Nat
        BY <1>1, Bounds
      <4> QED
        BY <4>1
    <3> QED
      BY <1>1, <1>2, <1>4, <3>1, <3>2
  <2> QED
    BY <1>1, <2>1, <2>2 DEF RouteInv
<1>7. PreparedInv'
  BY <1>1 DEF TypeInv, PreparedInv, outgoing
<1> QED
  BY <1>3, <1>5, <1>6, <1>7 DEF TypeInv

LEMMA PushingTypes ==
  ASSUME TypeInv, PushFound
  PROVE  TypeInv'
<1> DEFINE p == current.to
<1>1. /\ p \in Listener /\ found \in Stream /\ current \in Entry /\ found = opened[p]
      /\ PushInto(p, found) /\ (route[p] = found \/ found \notin piped[p])
      /\ current' = NoEntry /\ found' = 0
      /\ UNCHANGED <<connections, preparing, queue, timers, posted, open, opened,
                     incoming, breaks, cut>>
  BY Pushing
<1>2. /\ wire' \in [Listener -> [Stream -> Seq(Packet)]]
      /\ \A q \in Listener, t \in Stream : q # p \/ t # found => wire'[q][t] = wire[q][t]
      /\ route' = [route EXCEPT ![p] = found] /\ route' \in [Listener -> {0} \cup Stream]
      /\ piped' = [piped EXCEPT ![p] = @ \cup {found}] /\ piped' \in [Listener -> SUBSET Stream]
  BY <1>1, Pushed
<1>n. found \in Nat /\ \A q \in Listener : opened[q] \in Nat /\ route[q] \in Nat
  BY <1>1, StreamNumbers, Bounds DEF TypeInv
<1>3. TypeOK'
  BY <1>1, <1>2 DEF TypeInv, TypeOK, connections, incoming
<1>4. StreamsInv'
  <2>1. ASSUME NEW q \in Listener, NEW t \in Stream, t > opened[q]
        PROVE  wire'[q][t] = <<>>
    <3>1. wire[q][t] = <<>>
      BY <2>1 DEF TypeInv, StreamsInv
    <3>2. q # p \/ t # found
      BY <1>1, <1>n, <2>1
    <3> QED
      BY <1>2, <3>1, <3>2
  <2> QED
    BY <1>1, <2>1 DEF TypeInv, StreamsInv
<1>5. RouteInv'
  <2>1. ASSUME NEW q \in Listener
        PROVE  route'[q] <= opened'[q] /\ \A t \in piped'[q] : t <= route'[q]
    <3>1. /\ route[q] <= opened[q] /\ \A t \in piped[q] : t <= route[q]
          /\ route \in [Listener -> {0} \cup Stream] /\ piped \in [Listener -> SUBSET Stream]
      BY DEF TypeInv, TypeOK, RouteInv
    <3>2. CASE q # p
      BY <1>1, <1>2, <3>1, <3>2
    <3>3. CASE q = p
      <4>1. route'[p] = found /\ piped'[p] = piped[p] \cup {found}
        BY <1>1, <1>2, <3>1
      <4>2. \A t \in piped[p] : t \in Nat /\ t <= found
        BY <1>1, <1>n, <3>1, <3>3, Bounds
      <4> QED
        BY <1>1, <1>n, <3>3, <4>1, <4>2
    <3> QED
      BY <3>2, <3>3
  <2> QED
    BY <1>1, <2>1 DEF RouteInv
<1>6. PreparedInv'
  BY <1>1 DEF TypeInv, PreparedInv
<1> QED
  BY <1>3, <1>4, <1>5, <1>6 DEF TypeInv

\* Receiving
LEMMA ReceivingTypes ==
  ASSUME TypeInv, NEW p \in Listener,
         \/ \E sub \in Sub : Subscribe(p, sub)
         \/ \E s \in Stream : ReadMessage(p, s) \/ LoseMessages(p, s)
  PROVE  TypeInv'
<1>1. UNCHANGED <<connections, outgoing, streams, breaks, cut>>
  BY DEF Subscribe, ReadMessage, LoseMessages
<1>t. /\ subs \in [Listener -> Seq(Sub)]
      /\ inbox \in [Listener -> Seq([msg : Msg, retries : 0..MaxRetries, via : Stream])]
      /\ calls \in [Listener -> [Sub \X Msg -> Nat]]
      /\ wire \in [Listener -> [Stream -> Seq(Packet)]]
  BY DEF TypeInv, TypeOK
<1>2. SUFFICES /\ subs' \in [Listener -> Seq(Sub)]
               /\ inbox' \in [Listener -> Seq([msg : Msg, retries : 0..MaxRetries, via : Stream])]
               /\ calls' \in [Listener -> [Sub \X Msg -> Nat]]
               /\ wire' \in [Listener -> [Stream -> Seq(Packet)]]
               /\ \A q \in Listener, t \in Stream : wire[q][t] = <<>> => wire'[q][t] = <<>>
  BY <1>1 DEF TypeInv, TypeOK, StreamsInv, RouteInv, PreparedInv, connections, outgoing, streams
<1>3. ASSUME NEW sub \in Sub, Subscribe(p, sub)
      PROVE  /\ subs' \in [Listener -> Seq(Sub)]
             /\ UNCHANGED <<inbox, calls, wire>>
  <2>1. Append(subs[p], sub) \in Seq(Sub)
    BY <1>t, Appended
  <2> QED
    BY <1>3, <1>t, <2>1 DEF Subscribe
<1>4. ASSUME NEW s \in Stream, LoseMessages(p, s)
      PROVE  /\ UNCHANGED <<subs, inbox, calls>>
             /\ wire' \in [Listener -> [Stream -> Seq(Packet)]]
             /\ \A q \in Listener, t \in Stream : wire[q][t] = <<>> => wire'[q][t] = <<>>
  BY <1>4, <1>t DEF LoseMessages, incoming
<1>5. ASSUME NEW s \in Stream, ReadMessage(p, s)
      PROVE  /\ subs' = subs
             /\ inbox' \in [Listener -> Seq([msg : Msg, retries : 0..MaxRetries, via : Stream])]
             /\ calls' \in [Listener -> [Sub \X Msg -> Nat]]
             /\ wire' \in [Listener -> [Stream -> Seq(Packet)]]
             /\ \A q \in Listener, t \in Stream : wire[q][t] = <<>> => wire'[q][t] = <<>>
  <2> DEFINE packet == Head(wire[p][s])
             times(sub) == Cardinality({i \in 1..Len(subs[p]) : subs[p][i] = sub})
  <2>1. packet \in Packet /\ Tail(wire[p][s]) \in Seq(Packet)
    BY <1>5, <1>t, Popped DEF ReadMessage
  <2>2. [msg |-> packet.msg, retries |-> packet.retries, via |-> s]
          \in [msg : Msg, retries : 0..MaxRetries, via : Stream]
    BY <2>1 DEF Packet
  <2>3. Append(inbox[p], [msg |-> packet.msg, retries |-> packet.retries, via |-> s])
          \in Seq([msg : Msg, retries : 0..MaxRetries, via : Stream])
    BY <1>t, <2>2, Appended
  <2>4. ASSUME NEW sub \in Sub PROVE times(sub) \in Nat
    <3>1. IsFiniteSet(1..Len(subs[p]))
      BY <1>t, FS_Interval
    <3> QED
      BY <3>1, FS_Subset, FS_CardinalityType
  <2>5. /\ inbox' = [inbox EXCEPT ![p] = Append(@, [msg |-> packet.msg,
                       retries |-> packet.retries, via |-> s])]
        /\ calls' = [calls EXCEPT ![p] = [c \in Sub \X Msg |->
             IF c[2] = packet.msg THEN @[c] + times(c[1]) ELSE @[c]]]
        /\ wire' = [wire EXCEPT ![p][s] = Tail(@)]
        /\ wire[p][s] # <<>> /\ subs' = subs
    BY <1>5 DEF ReadMessage
  <2> HIDE DEF packet, times
  <2>6. calls' \in [Listener -> [Sub \X Msg -> Nat]]
    <3>1. [c \in Sub \X Msg |->
             IF c[2] = packet.msg THEN calls[p][c] + times(c[1]) ELSE calls[p][c]]
            \in [Sub \X Msg -> Nat]
      BY <1>t, <2>4
    <3> QED
      BY <1>t, <2>5, <3>1
  <2>7. /\ wire' \in [Listener -> [Stream -> Seq(Packet)]]
        /\ \A q \in Listener, t \in Stream : wire[q][t] = <<>> => wire'[q][t] = <<>>
    BY <1>t, <2>1, <2>5
  <2> QED
    BY <1>t, <2>3, <2>5, <2>6, <2>7
<1> QED
  BY <1>3, <1>4, <1>5, <1>t

LEMMA NextTypes == TypeInv /\ [Next]_vars => TypeInv'
<1>1. TypeInv /\ UNCHANGED vars => TypeInv'
  BY DEF TypeInv, TypeOK, StreamsInv, RouteInv, PreparedInv, vars, connections, outgoing,
     streams, incoming
<1> QED
  BY <1>1, ConnectionTypes, SendingTypes, FindingTypes, PushingTypes, ReceivingTypes DEF Next

\* The queue, the streams and the inboxes keep their types, and the streams a
\* guard can open are as many as can break and one more.
THEOREM TypeCorrect == Spec => []TypeOK
<1>1. Spec => []TypeInv
  BY InitTypes, NextTypes, PTL DEF Spec
<1>2. TypeInv => TypeOK
  BY DEF TypeInv
<1> QED
  BY <1>1, <1>2, PTL

-----------------------------------------------------------------------------
(* The relays.  That the address of a relay is there says little while its *)
(* removal is still to come: the interval must be there then already.      *)

RelayInv == node # "failed" => \A r \in Relay :
  /\ r \notin connected /\ (r \notin book \/ r \in removing) => watch[r] + deaf[r] > 0
  /\ r \in connected => watch[r] = 0
  /\ watch[r] <= 1

LEMMA RelayStep == TypeInv /\ RelayInv /\ [Next]_vars => RelayInv'
<1> SUFFICES ASSUME TypeInv, RelayInv, [Next]_vars, node' # "failed", NEW r \in Relay
             PROVE  /\ r \notin connected' /\ (r \notin book' \/ r \in removing')
                         => watch'[r] + deaf'[r] > 0
                    /\ r \in connected' => watch'[r] = 0
                    /\ watch'[r] <= 1
  BY DEF RelayInv
<1>t. watch[r] \in Nat /\ deaf[r] \in Nat /\ watch \in [Relay -> Nat] /\ deaf \in [Relay -> Nat]
  BY DEF TypeInv, TypeOK
<1>1. node # "failed"
  BY DEF Next, vars, connections, NodeStarts, StartFails, Connect, Disconnect, RemovePeer,
     Discover, CloseStream, ReaddRelay, SendTo, PushMessage, Broadcast, TakeMessage,
     ReuseStream, DialPeer, OpenStream, PushFound, RetryOrDrop, TimerFires, Subscribe,
     ReadMessage, LoseMessages
<1>2. /\ r \notin connected /\ (r \notin book \/ r \in removing) => watch[r] + deaf[r] > 0
      /\ r \in connected => watch[r] = 0
      /\ watch[r] <= 1
  BY <1>1 DEF RelayInv
<1>3. CASE UNCHANGED <<connected, book, removing, watch, deaf>>
  BY <1>2, <1>3
<1>4. ASSUME NEW p \in Peer, PeerConnected(p), UNCHANGED <<book, removing, deaf>>
      PROVE  /\ r \notin connected' /\ (r \notin book' \/ r \in removing')
                  => watch'[r] + deaf'[r] > 0
             /\ r \in connected' => watch'[r] = 0
             /\ watch'[r] <= 1
  BY <1>t, <1>2, <1>4 DEF PeerConnected
<1>5. CASE DialPeer
  BY <1>4, <1>5 DEF DialPeer, TypeInv, TypeOK, Entry, Peer
<1>6. ASSUME NEW p \in Peer, Connect(p)
      PROVE  /\ r \notin connected' /\ (r \notin book' \/ r \in removing')
                  => watch'[r] + deaf'[r] > 0
             /\ r \in connected' => watch'[r] = 0
             /\ watch'[r] <= 1
  BY <1>4, <1>6 DEF Connect
<1>7. ASSUME NEW p \in Peer, Disconnect(p)
      PROVE  /\ r \notin connected' /\ (r \notin book' \/ r \in removing')
                  => watch'[r] + deaf'[r] > 0
             /\ r \in connected' => watch'[r] = 0
             /\ watch'[r] <= 1
  <2>1. CASE p = r
    BY <1>t, <1>2, <1>7, <2>1 DEF Disconnect, TryReconnecting
  <2>2. CASE p # r
    <3>1. watch'[r] = watch[r] /\ deaf'[r] = deaf[r]
      BY <1>t, <1>7, <2>2 DEF Disconnect, TryReconnecting
    <3>2. (r \in connected' <=> r \in connected) /\ book' = book /\ (r \in removing' => r \in removing)
      BY <1>7, <2>2 DEF Disconnect
    <3> QED
      BY <1>2, <3>1, <3>2
  <2> QED
    BY <2>1, <2>2
<1>8. CASE (\E p \in Peer : RemovePeer(p)) \/ (\E p \in Listener : Discover(p))
            \/ (\E q \in Relay : ReaddRelay(q))
  <2>1. /\ UNCHANGED <<connected, watch, deaf>>
        /\ r \notin book' \/ r \in removing' => r \notin book \/ r \in removing
    BY <1>8 DEF RemovePeer, Discover, ReaddRelay
  <2> QED
    BY <1>2, <2>1
<1> QED
  BY <1>3, <1>5, <1>6, <1>7, <1>8 DEF Next, vars, connections, NodeStarts, StartFails,
     CloseStream, SendTo, PushMessage, Broadcast, TakeMessage, ReuseStream, OpenStream, PushFound,
     RetryOrDrop, TimerFires, Subscribe, ReadMessage, LoseMessages

\* A lost relay whose address is gone, or is about to go, is being added again,
\* and no interval that a connection should end goes on with the connection
\* (tryReconnectingRelay, removePeerFromAddressBook).
THEOREM LostRelaysWatched == Spec => []RelayWatched
<1>1. Init => RelayInv
  BY DEF Init, RelayInv
<1>2. TypeInv /\ RelayInv => RelayWatched
  BY DEF RelayInv, RelayWatched
<1> QED
  BY <1>1, <1>2, InitTypes, NextTypes, RelayStep, PTL DEF Spec

-----------------------------------------------------------------------------
(* Where the copy of a message for a guard may be.                         *)

InPreparing(m, p) == m \in preparing /\ Receiver[m] = p
InQueue(m, p) == \E i \in 1..Len(queue) : queue[i].msg = m /\ queue[i].to = p
AtWork(m, p) == current # NoEntry /\ current.msg = m /\ current.to = p
InTimers(m, p) == \E e \in timers : e.msg = m /\ e.to = p
Posted(m, p) == \E i \in 1..Len(posted[p]) : posted[p][i] = m

LEMMA Places ==
  ASSUME NEW m, NEW p
  PROVE  /\ Waiting(m, p) <=> InPreparing(m, p) \/ InQueue(m, p) \/ AtWork(m, p) \/ InTimers(m, p)
         /\ Sent(m, p) <=> InPreparing(m, p) \/ Posted(m, p)
BY DEF Waiting, Sent, InPreparing, InQueue, AtWork, InTimers, Posted

OnePlace(m, p) ==
  /\ InPreparing(m, p) => ~Posted(m, p)
  /\ InQueue(m, p) \/ AtWork(m, p) \/ InTimers(m, p) \/ OnWire(m, p) \/ Arrived(m, p)
       => Posted(m, p)
  /\ InQueue(m, p) => ~AtWork(m, p) /\ ~InTimers(m, p) /\ ~OnWire(m, p) /\ ~Arrived(m, p)
  /\ AtWork(m, p) => ~InTimers(m, p) /\ ~OnWire(m, p) /\ ~Arrived(m, p)
  /\ InTimers(m, p) => ~OnWire(m, p) /\ ~Arrived(m, p)
  /\ OnWire(m, p) => ~Arrived(m, p)

\* and in that place it is but once
QueueOnce == \A i, j \in 1..Len(queue) :
  queue[i].msg = queue[j].msg /\ queue[i].to = queue[j].to => i = j
TimersOnce == \A e, f \in timers : e.msg = f.msg /\ e.to = f.to => e = f
WireOnce == \A p \in Listener : \A s, t \in Stream :
  \A i \in 1..Len(wire[p][s]), j \in 1..Len(wire[p][t]) :
    wire[p][s][i].msg = wire[p][t][j].msg => s = t /\ i = j
InboxOnce == \A p \in Listener : \A i, j \in 1..Len(inbox[p]) :
  inbox[p][i].msg = inbox[p][j].msg => i = j
PostedOnce == \A p \in Listener : \A i, j \in 1..Len(posted[p]) :
  posted[p][i] = posted[p][j] => i = j

Once == QueueOnce /\ TimersOnce /\ WireOnce /\ InboxOnce /\ PostedOnce

CopyInv == TypeInv /\ Once /\ \A m \in Msg, p \in Listener : OnePlace(m, p)

\* The copies in one place stay there.
LEMMA Unmoved ==
  ASSUME NEW m, NEW p
  PROVE  /\ preparing' = preparing => (InPreparing(m, p)' <=> InPreparing(m, p))
         /\ queue' = queue => (InQueue(m, p)' <=> InQueue(m, p))
         /\ current' = current => (AtWork(m, p)' <=> AtWork(m, p))
         /\ timers' = timers => (InTimers(m, p)' <=> InTimers(m, p))
         /\ wire' = wire => (OnWire(m, p)' <=> OnWire(m, p))
         /\ inbox' = inbox => (Arrived(m, p)' <=> Arrived(m, p))
         /\ posted' = posted => (Posted(m, p)' <=> Posted(m, p))
BY DEF InPreparing, InQueue, AtWork, InTimers, OnWire, Arrived, Posted

LEMMA UnmovedOnce ==
  /\ queue' = queue => (QueueOnce' <=> QueueOnce)
  /\ timers' = timers => (TimersOnce' <=> TimersOnce)
  /\ wire' = wire => (WireOnce' <=> WireOnce)
  /\ inbox' = inbox => (InboxOnce' <=> InboxOnce)
  /\ posted' = posted => (PostedOnce' <=> PostedOnce)
<1>1. queue' = queue => (QueueOnce' <=> QueueOnce)
  BY DEF QueueOnce
<1>2. timers' = timers => (TimersOnce' <=> TimersOnce)
  BY DEF TimersOnce
<1>3. wire' = wire => (WireOnce' <=> WireOnce)
  BY DEF WireOnce
<1>4. inbox' = inbox => (InboxOnce' <=> InboxOnce)
  BY DEF InboxOnce
<1>5. posted' = posted => (PostedOnce' <=> PostedOnce)
  BY DEF PostedOnce
<1> QED
  BY <1>1, <1>2, <1>3, <1>4, <1>5

\* sendMessage pushes one entry for a guard it was not posted to before.
LEMMA PushMoves ==
  ASSUME CopyInv, NEW m \in Msg, PushMessage(m)
  PROVE  /\ Receiver[m] \in Listener
         /\ Once'
         /\ InPreparing(m, Receiver[m]) /\ ~Posted(m, Receiver[m])
         /\ Extends(queue', queue, Fresh(m, Receiver[m]))
         /\ Extends(posted'[Receiver[m]], posted[Receiver[m]], m)
         /\ \A p \in Listener : p # Receiver[m] => posted'[p] = posted[p]
         /\ \A n \in Msg, p \in Listener :
              LET it == n = m /\ p = Receiver[m] IN
              /\ InPreparing(n, p)' <=> InPreparing(n, p) /\ ~it
              /\ InQueue(n, p)' <=> InQueue(n, p) \/ it
              /\ Posted(n, p)' <=> Posted(n, p) \/ it
         /\ UNCHANGED <<current, timers, wire, inbox>>
<1> DEFINE r == Receiver[m]
           it(n, p) == n = m /\ p = r
<1>1. m \in preparing /\ r \in Listener
  BY DEF PushMessage, CopyInv, TypeInv, PreparedInv
<1>2. InPreparing(m, r) /\ ~Posted(m, r) /\ ~InQueue(m, r)
  BY <1>1 DEF CopyInv, OnePlace, InPreparing
<1>3. /\ preparing' = preparing \ {m}
      /\ queue' = Append(queue, Fresh(m, r))
      /\ posted' = [posted EXCEPT ![r] = Append(@, m)]
      /\ UNCHANGED <<current, timers, wire, inbox>>
  BY DEF PushMessage, incoming
<1>4. /\ queue \in Seq(Entry) /\ posted \in [Listener -> Seq(Msg)]
      /\ Fresh(m, r) \in Entry /\ Fresh(m, r).msg = m /\ Fresh(m, r).to = r
  BY <1>1, FreshType DEF CopyInv, TypeInv, TypeOK, Fresh
<1> HIDE DEF r
<1>5. Extends(queue', queue, Fresh(m, r))
  BY <1>3, <1>4, AppendExtends
<1>6. /\ Extends(posted'[r], posted[r], m)
      /\ \A p \in Listener : p # r => posted'[p] = posted[p]
  <2>1. Extends(Append(posted[r], m), posted[r], m)
    BY <1>1, <1>4, AppendExtends
  <2> QED
    BY <1>1, <1>3, <1>4, <2>1
<1>7. ASSUME NEW n \in Msg, NEW p \in Listener
      PROVE  /\ InPreparing(n, p)' <=> InPreparing(n, p) /\ ~it(n, p)
             /\ InQueue(n, p)' <=> InQueue(n, p) \/ it(n, p)
             /\ Posted(n, p)' <=> Posted(n, p) \/ it(n, p)
  <2>1. InPreparing(n, p)' <=> InPreparing(n, p) /\ ~it(n, p)
    BY <1>3 DEF InPreparing, r
  <2>2. InQueue(n, p)' <=> InQueue(n, p) \/ it(n, p)
    BY <1>4, <1>5 DEF InQueue, Extends
  <2>3. Posted(n, p)' <=> Posted(n, p) \/ it(n, p)
    <3>1. CASE p = r
      BY <1>6, <3>1 DEF Posted, Extends
    <3>2. CASE p # r
      BY <1>6, <3>2 DEF Posted
    <3> QED
      BY <3>1, <3>2
  <2> QED
    BY <2>1, <2>2, <2>3
<1>8. QueueOnce'
  BY <1>2, <1>4, <1>5 DEF CopyInv, Once, QueueOnce, InQueue, Extends
<1>9. PostedOnce'
  BY <1>2, <1>6 DEF CopyInv, Once, PostedOnce, Posted, Extends
<1>10. Once'
  BY <1>3, <1>8, <1>9, UnmovedOnce DEF CopyInv, Once
<1> QED
  BY <1>1, <1>2, <1>3, <1>5, <1>6, <1>7, <1>10 DEF r

\* A broadcast pushes one for each connected guard.
LEMMA BroadcastMoves ==
  ASSUME CopyInv, NEW m \in Msg, Broadcast(m)
  PROVE  LET P == connected \cap Listener IN
         /\ Once'
         /\ \A p \in Listener : ~InPreparing(m, p) /\ ~Posted(m, p)
         /\ Joined(queue', queue)
         /\ \A i \in 1..Len(queue') : i \notin 1..Len(queue) =>
              queue'[i].msg = m /\ queue'[i].to \in P
         /\ \A p \in P : Extends(posted'[p], posted[p], m)
         /\ \A p \in Listener \ P : posted'[p] = posted[p]
         /\ \A n \in Msg, p \in Listener :
              LET it == n = m /\ p \in P IN
              /\ InQueue(n, p)' <=> InQueue(n, p) \/ it
              /\ Posted(n, p)' <=> Posted(n, p) \/ it
         /\ UNCHANGED <<preparing, current, timers, wire, inbox>>
<1> DEFINE P == connected \cap Listener
           c == Cardinality(P)
<1>1. \A p \in Listener : ~InPreparing(m, p) /\ ~Posted(m, p)
  BY Places DEF Broadcast, MaySend
<1>2. \A p \in Listener : ~InQueue(m, p)
  BY <1>1 DEF CopyInv, OnePlace
<1>3. /\ posted' = [p \in Listener |-> IF p \in P THEN Append(posted[p], m) ELSE posted[p]]
      /\ UNCHANGED <<preparing, current, timers, wire, inbox>>
  BY DEF Broadcast, incoming
<1>4. /\ queue \in Seq(Entry) /\ posted \in [Listener -> Seq(Msg)] /\ Len(queue) \in Nat
  BY DEF CopyInv, TypeInv, TypeOK
<1>5. PICK f \in Orders(P), added \in Seq(Entry) :
        /\ queue' = queue \o added
        /\ Len(added) = c /\ c \in Nat
        /\ \A i \in 1..c : f[i] \in P /\ added[i] = Fresh(m, f[i])
        /\ \A i, j \in 1..c : f[i] = f[j] => i = j
  BY BroadcastEntries DEF CopyInv
<1>6. \A p \in P : \E i \in 1..c : f[i] = p
  <2>1. IsFiniteSet(P)
    BY BroadcastEntries DEF CopyInv
  <2>2. f \in Injection(1..c, P)
    <3>1. f \in [1..c -> P] /\ \A i, j \in 1..c : f[i] = f[j] => i = j
      BY DEF Orders
    <3> HIDE DEF c, P
    <3> QED
      BY <3>1, Fun_IsInj
  <2>3. Cardinality(1..c) = c
    <3> HIDE DEF c
    <3> QED
      BY <1>5, FS_Interval
  <2>4. f \in Surjection(1..c, P)
    BY <2>1, <2>2, <2>3, FS_Injection
  <2> QED
    BY <2>4, Zenon DEF Surjection
<1>p. P \subseteq Listener
  OBVIOUS
<1> HIDE DEF P, c
<1>7. /\ Len(queue') = Len(queue) + c
      /\ \A i \in 1..Len(queue) : queue'[i] = queue[i]
      /\ \A i \in 1..c : queue'[Len(queue) + i].msg = m /\ queue'[Len(queue) + i].to = f[i]
  BY <1>4, <1>5, ConcatProperties DEF Fresh
<1>8. /\ \A i \in 1..Len(queue') : i \notin 1..Len(queue) =>
           /\ i - Len(queue) \in 1..c /\ Len(queue) + (i - Len(queue)) = i
           /\ queue'[i].msg = m /\ queue'[i].to = f[i - Len(queue)]
      /\ \A i \in 1..Len(queue) : i \in 1..Len(queue')
      /\ \A i \in 1..c : Len(queue) + i \in 1..Len(queue')
  <2>1. Len(queue) \in Nat /\ c \in Nat
    BY <1>4, <1>5
  <2>2. ASSUME NEW i \in 1..Len(queue'), i \notin 1..Len(queue)
        PROVE  i - Len(queue) \in 1..c /\ Len(queue) + (i - Len(queue)) = i
    BY <1>7, <2>1, <2>2
  <2>3. (\A i \in 1..Len(queue) : i \in 1..Len(queue'))
        /\ \A i \in 1..c : Len(queue) + i \in 1..Len(queue')
    BY <1>7, <2>1
  <2> QED
    BY <1>7, <2>2, <2>3
<1>9. ASSUME NEW p \in P PROVE Extends(posted'[p], posted[p], m)
  BY <1>p, <1>3, <1>4, AppendExtends
<1>10. \A p \in Listener \ P : posted'[p] = posted[p]
  BY <1>3
<1>11. ASSUME NEW n \in Msg, NEW p \in Listener
       PROVE  /\ InQueue(n, p)' <=> InQueue(n, p) \/ (n = m /\ p \in P)
              /\ Posted(n, p)' <=> Posted(n, p) \/ (n = m /\ p \in P)
  <2>1. ASSUME NEW i \in 1..Len(queue'), queue'[i].msg = n, queue'[i].to = p
        PROVE  InQueue(n, p) \/ (n = m /\ p \in P)
    <3>1. CASE i \in 1..Len(queue)
      BY <1>7, <2>1, <3>1 DEF InQueue
    <3>2. CASE i \notin 1..Len(queue)
      BY <1>5, <1>8, <2>1, <3>2
    <3> QED
      BY <3>1, <3>2
  <2>2. InQueue(n, p) => InQueue(n, p)'
    BY <1>7, <1>8 DEF InQueue
  <2>3. ASSUME n = m, p \in P PROVE InQueue(n, p)'
    <3>1. PICK i \in 1..c : f[i] = p
      BY <1>6, <2>3
    <3> QED
      BY <1>7, <1>8, <2>3, <3>1 DEF InQueue
  <2>4. Posted(n, p)' <=> Posted(n, p) \/ (n = m /\ p \in P)
    <3>1. CASE p \in P
      BY <1>9, <3>1 DEF Posted, Extends
    <3>2. CASE p \notin P
      BY <1>10, <3>2 DEF Posted
    <3> QED
      BY <3>1, <3>2
  <2>5. InQueue(n, p)' => InQueue(n, p) \/ (n = m /\ p \in P)
    BY <2>1 DEF InQueue
  <2> QED
    BY <2>2, <2>3, <2>4, <2>5
<1>12. QueueOnce'
  <2> SUFFICES ASSUME NEW i \in 1..Len(queue'), NEW j \in 1..Len(queue'),
                      queue'[i].msg = queue'[j].msg, queue'[i].to = queue'[j].to
               PROVE  i = j
    BY DEF QueueOnce
  <2>1. \A k \in 1..Len(queue) : ~(queue[k].msg = m /\ queue[k].to \in P)
    BY <1>p, <1>2 DEF InQueue
  <2>2. CASE i \in 1..Len(queue) /\ j \in 1..Len(queue)
    BY <1>7, <2>2 DEF CopyInv, Once, QueueOnce
  <2>3. \A k \in 1..Len(queue') : k \notin 1..Len(queue) =>
          /\ queue'[k].msg = m /\ queue'[k].to \in P
          /\ queue'[k].to = f[k - Len(queue)] /\ k - Len(queue) \in 1..c
          /\ Len(queue) + (k - Len(queue)) = k
    BY <1>5, <1>8
  <2>4. CASE i \in 1..Len(queue) /\ j \notin 1..Len(queue)
    BY <1>7, <2>1, <2>3, <2>4
  <2>5. CASE i \notin 1..Len(queue) /\ j \in 1..Len(queue)
    BY <1>7, <2>1, <2>3, <2>5
  <2>6. CASE i \notin 1..Len(queue) /\ j \notin 1..Len(queue)
    <3>1. i - Len(queue) = j - Len(queue)
      BY <1>5, <2>3, <2>6
    <3> QED
      BY <2>3, <2>6, <3>1
  <2> QED
    BY <2>2, <2>4, <2>5, <2>6
<1>13. PostedOnce'
  <2> SUFFICES ASSUME NEW p \in Listener
               PROVE  \A i, j \in 1..Len(posted'[p]) : posted'[p][i] = posted'[p][j] => i = j
    BY DEF PostedOnce
  <2>1. \A i, j \in 1..Len(posted[p]) : posted[p][i] = posted[p][j] => i = j
    BY DEF CopyInv, Once, PostedOnce
  <2>2. \A i \in 1..Len(posted[p]) : posted[p][i] # m
    BY <1>1 DEF Posted
  <2>3. CASE p \in P
    BY <1>9, <2>1, <2>2, <2>3 DEF Extends
  <2>4. CASE p \notin P
    BY <1>10, <2>1, <2>4
  <2> QED
    BY <2>3, <2>4
<1>14. Once'
  BY <1>3, <1>12, <1>13, UnmovedOnce DEF CopyInv, Once
<1>15. Joined(queue', queue)
  BY <1>4, <1>7, <1>8 DEF Joined
<1>16. \A i \in 1..Len(queue') : i \notin 1..Len(queue) =>
         queue'[i].msg = m /\ queue'[i].to \in P
  BY <1>5, <1>8
<1> QED
  BY <1>1, <1>3, <1>9, <1>10, <1>11, <1>14, <1>15, <1>16 DEF P

\* processMessageQueue takes the first entry.
LEMMA TakeMoves ==
  ASSUME CopyInv, TakeMessage
  PROVE  LET e == queue[1] IN
         /\ Once'
         /\ e \in Entry /\ current' = e /\ InQueue(e.msg, e.to)
         /\ Shortens(queue', queue)
         /\ \A n \in Msg, p \in Listener :
              LET it == n = e.msg /\ p = e.to IN
              /\ ~AtWork(n, p)
              /\ AtWork(n, p)' <=> it
              /\ InQueue(n, p)' <=> InQueue(n, p) /\ ~it
         /\ UNCHANGED <<preparing, timers, posted, wire, inbox>>
<1> DEFINE e == queue[1]
<1>1. /\ queue \in Seq(Entry) /\ queue # <<>> /\ current = NoEntry
      /\ current' = Head(queue) /\ queue' = Tail(queue)
      /\ UNCHANGED <<preparing, timers, posted, wire, inbox>>
  BY DEF TakeMessage, CopyInv, TypeInv, TypeOK, incoming
<1>2. current' = e /\ e \in Entry /\ Shortens(queue', queue)
  BY <1>1, Popped, TailShortens
<1>3. e # NoEntry
  BY <1>2, Bounds
<1>4. QueueOnce
  BY DEF CopyInv, Once
<1> HIDE DEF e
<1>5. ASSUME NEW n \in Msg, NEW p \in Listener
      PROVE  /\ ~AtWork(n, p)
             /\ AtWork(n, p)' <=> n = e.msg /\ p = e.to
             /\ InQueue(n, p)' <=> InQueue(n, p) /\ ~(n = e.msg /\ p = e.to)
  <2>1. ~AtWork(n, p) /\ (AtWork(n, p)' <=> n = e.msg /\ p = e.to)
    BY <1>1, <1>2, <1>3 DEF AtWork
  <2>2. InQueue(n, p)' => InQueue(n, p) /\ ~(n = e.msg /\ p = e.to)
    <3> SUFFICES ASSUME NEW i \in 1..Len(queue'), queue'[i].msg = n, queue'[i].to = p
                 PROVE  InQueue(n, p) /\ ~(n = e.msg /\ p = e.to)
      BY DEF InQueue
    <3>1. /\ i + 1 \in 1..Len(queue) /\ queue'[i] = queue[i + 1]
          /\ i + 1 # 1 /\ 1 \in 1..Len(queue)
      BY <1>2 DEF Shortens
    <3> QED
      BY <1>4, <3>1 DEF InQueue, QueueOnce, e
  <2>3. InQueue(n, p) /\ ~(n = e.msg /\ p = e.to) => InQueue(n, p)'
    BY <1>2 DEF InQueue, e, Shortens
  <2> QED
    BY <2>1, <2>2, <2>3
<1>6. QueueOnce'
  <2> SUFFICES ASSUME NEW i \in 1..Len(queue'), NEW j \in 1..Len(queue'),
                      queue'[i].msg = queue'[j].msg, queue'[i].to = queue'[j].to
               PROVE  i = j
    BY DEF QueueOnce
  <2>1. /\ i + 1 \in 1..Len(queue) /\ j + 1 \in 1..Len(queue)
        /\ queue'[i] = queue[i + 1] /\ queue'[j] = queue[j + 1]
        /\ i + 1 = j + 1 => i = j
    BY <1>2 DEF Shortens
  <2> QED
    BY <1>4, <2>1 DEF QueueOnce
<1>7. Once'
  BY <1>1, <1>6, UnmovedOnce DEF CopyInv, Once
<1>8. InQueue(e.msg, e.to)
  BY <1>2 DEF InQueue, e, Shortens
<1> QED
  BY <1>1, <1>2, <1>5, <1>7, <1>8 DEF e

\* A push moves the entry at work to the end of a stream.
LEMMA PushIntoMoves ==
  ASSUME CopyInv, PushFound
  PROVE  /\ Once'
         /\ current \in Entry
         /\ \A n \in Msg, p \in Listener :
              LET it == n = current.msg /\ p = current.to IN
              /\ AtWork(n, p) <=> it
              /\ ~AtWork(n, p)'
              /\ OnWire(n, p)' <=> OnWire(n, p) \/ it
         /\ UNCHANGED <<preparing, queue, timers, posted, inbox>>
<1> DEFINE r == current.to
           s == found
           packet == [msg |-> current.msg, retries |-> current.retries]
<1>1. /\ current \in Entry /\ r \in Listener /\ s \in Stream
      /\ PushInto(r, s) /\ (route[r] = s \/ s \notin piped[r])
      /\ current' = NoEntry
      /\ UNCHANGED <<preparing, queue, timers, posted, inbox>>
  BY Pushing DEF CopyInv, outgoing, incoming
<1>2. /\ packet \in Packet /\ packet.msg = current.msg /\ current' = NoEntry
      /\ wire \in [Listener -> [Stream -> Seq(Packet)]]
      /\ wire'[r][s] = Append(wire[r][s], packet)
      /\ \A q \in Listener, t \in Stream : q # r \/ t # s => wire'[q][t] = wire[q][t]
  <2>1. TypeInv
    BY DEF CopyInv
  <2>2. wire \in [Listener -> [Stream -> Seq(Packet)]]
    BY <2>1 DEF TypeInv, TypeOK
  <2> HIDE DEF r, s
  <2> QED
    BY <1>1, <2>1, <2>2, Pushed
<1> HIDE DEF packet, s, r
<1>3. Extends(wire'[r][s], wire[r][s], packet)
  <2>1. wire[r][s] \in Seq(Packet)
    BY <1>1, <1>2
  <2> QED
    BY <1>2, <2>1, AppendExtends
<1>4. AtWork(current.msg, r) /\ ~OnWire(current.msg, r)
  <2>1. current # NoEntry /\ current.msg \in Msg
    BY <1>1, Bounds DEF Entry
  <2> QED
    BY <1>1, <2>1 DEF CopyInv, OnePlace, AtWork, r
<1>5. ASSUME NEW n \in Msg, NEW p \in Listener
      PROVE  /\ AtWork(n, p) <=> n = current.msg /\ p = r
             /\ ~AtWork(n, p)'
             /\ OnWire(n, p)' <=> OnWire(n, p) \/ (n = current.msg /\ p = r)
  <2>1. (AtWork(n, p) <=> n = current.msg /\ p = r) /\ ~AtWork(n, p)'
    BY <1>1, <1>2, Bounds DEF AtWork, r
  <2>2. CASE p = r
    <3>1. OnWire(n, p)' => OnWire(n, p) \/ n = current.msg
      <4>1. ASSUME NEW t \in Stream, NEW i \in 1..Len(wire'[r][t]), wire'[r][t][i].msg = n
            PROVE  OnWire(n, r) \/ n = current.msg
        <5>1. CASE t = s
          BY <1>2, <1>3, <1>1, <4>1, <5>1 DEF OnWire, Extends
        <5>2. CASE t # s
          BY <1>1, <1>2, <4>1, <5>2 DEF OnWire
        <5> QED
          BY <5>1, <5>2
      <4> QED
        BY <2>2, <4>1 DEF OnWire
    <3>2. OnWire(n, p) => OnWire(n, p)'
      <4>1. ASSUME NEW t \in Stream, NEW i \in 1..Len(wire[r][t]), wire[r][t][i].msg = n
            PROVE  i \in 1..Len(wire'[r][t]) /\ wire'[r][t][i].msg = n
        <5>1. CASE t = s
          BY <1>3, <4>1, <5>1 DEF Extends
        <5>2. CASE t # s
          BY <1>1, <1>2, <4>1, <5>2
        <5> QED
          BY <5>1, <5>2
      <4> QED
        BY <2>2, <4>1 DEF OnWire
    <3>3. n = current.msg => OnWire(n, p)'
      BY <1>1, <1>2, <1>3, <2>2 DEF OnWire, Extends
    <3> QED
      BY <2>1, <2>2, <3>1, <3>2, <3>3
  <2>3. CASE p # r
    <3>1. \A t \in Stream : wire'[p][t] = wire[p][t]
      BY <1>2, <2>3
    <3> QED
      BY <2>1, <2>3, <3>1 DEF OnWire
  <2> QED
    BY <2>2, <2>3
<1>6. WireOnce'
  <2> SUFFICES ASSUME NEW p \in Listener, NEW u \in Stream, NEW t \in Stream,
                      NEW i \in 1..Len(wire'[p][u]), NEW j \in 1..Len(wire'[p][t]),
                      wire'[p][u][i].msg = wire'[p][t][j].msg
               PROVE  u = t /\ i = j
    BY DEF WireOnce
  <2>0. WireOnce
    BY DEF CopyInv, Once
  <2>1. CASE p # r
    <3>1. wire'[p][u] = wire[p][u] /\ wire'[p][t] = wire[p][t]
      BY <1>2, <2>1
    <3> QED
      BY <2>0, <3>1 DEF WireOnce
  <2>2. CASE p = r
    <3>1. ASSUME NEW v \in Stream, NEW k \in 1..Len(wire'[r][v])
          PROVE  \/ k \in 1..Len(wire[r][v]) /\ wire'[r][v][k] = wire[r][v][k]
                 \/ v = s /\ k = Len(wire[r][s]) + 1 /\ wire'[r][v][k].msg = current.msg
      <4>1. CASE v = s
        BY <1>2, <1>3, <3>1, <4>1 DEF Extends
      <4>2. CASE v # s
        BY <1>1, <1>2, <3>1, <4>2
      <4> QED
        BY <4>1, <4>2
    <3>2. \A v \in Stream : \A k \in 1..Len(wire[r][v]) : wire[r][v][k].msg # current.msg
      BY <1>4 DEF OnWire
    <3>3. \/ i \in 1..Len(wire[r][u]) /\ wire'[r][u][i] = wire[r][u][i]
          \/ u = s /\ i = Len(wire[r][s]) + 1 /\ wire'[r][u][i].msg = current.msg
      BY <2>2, <3>1
    <3>4. \/ j \in 1..Len(wire[r][t]) /\ wire'[r][t][j] = wire[r][t][j]
          \/ t = s /\ j = Len(wire[r][s]) + 1 /\ wire'[r][t][j].msg = current.msg
      BY <2>2, <3>1
    <3>5. CASE i \in 1..Len(wire[r][u]) /\ wire'[r][u][i] = wire[r][u][i]
      <4>1. wire[r][u][i].msg # current.msg
        BY <3>2, <3>5
      <4>2. j \in 1..Len(wire[r][t]) /\ wire'[r][t][j] = wire[r][t][j]
        BY <2>2, <3>4, <3>5, <4>1
      <4>3. wire[r][u][i].msg = wire[r][t][j].msg
        BY <2>2, <3>5, <4>2
      <4> QED
        BY <1>1, <2>0, <3>5, <4>2, <4>3 DEF WireOnce
    <3>6. CASE u = s /\ i = Len(wire[r][s]) + 1 /\ wire'[r][u][i].msg = current.msg
      <4>1. wire'[r][t][j].msg = current.msg
        BY <2>2, <3>6
      <4>2. t = s /\ j = Len(wire[r][s]) + 1
        BY <3>2, <3>4, <4>1
      <4> QED
        BY <3>6, <4>2
    <3> QED
      BY <3>3, <3>5, <3>6
  <2> QED
    BY <2>1, <2>2
<1>7. Once'
  BY <1>1, <1>6, UnmovedOnce DEF CopyInv, Once
<1> QED
  BY <1>1, <1>5, <1>7 DEF r

\* What fails is retried some time, or given up.
LEMMA RetryMoves ==
  ASSUME CopyInv, RetryOrDrop
  PROVE  /\ Once'
         /\ current \in Entry
         /\ \A n \in Msg, p \in Listener :
              LET it == n = current.msg /\ p = current.to IN
              /\ AtWork(n, p) <=> it
              /\ ~AtWork(n, p)'
              /\ InTimers(n, p)' <=>
                   InTimers(n, p) \/ (it /\ current.retries + 1 <= MaxRetries)
         /\ UNCHANGED <<preparing, queue, posted, wire, inbox>>
<1> DEFINE kept == current.retries + 1 <= MaxRetries
<1>1. PICK e : e = [current EXCEPT !.retries = current.retries + 1]
  OBVIOUS
<1>2. /\ current \in Entry /\ current # NoEntry /\ current' = NoEntry
      /\ timers' = IF kept THEN timers \cup {e} ELSE timers
      /\ UNCHANGED <<preparing, queue, posted, wire, inbox>>
  BY <1>1 DEF RetryOrDrop, CopyInv, TypeInv, TypeOK, incoming
<1>3. e.msg = current.msg /\ e.to = current.to /\ current.msg \in Msg /\ current.to \in Listener
  BY <1>1, <1>2 DEF Entry
<1>4. AtWork(current.msg, current.to) /\ ~InTimers(current.msg, current.to)
  BY <1>2, <1>3 DEF CopyInv, OnePlace, AtWork
<1> HIDE DEF kept
<1>5. ASSUME NEW n \in Msg, NEW p \in Listener
      PROVE  /\ AtWork(n, p) <=> n = current.msg /\ p = current.to
             /\ ~AtWork(n, p)'
             /\ InTimers(n, p)' <=>
                  InTimers(n, p) \/ (n = current.msg /\ p = current.to /\ kept)
  BY <1>2, <1>3 DEF AtWork, InTimers
<1>6. TimersOnce'
  BY <1>2, <1>3, <1>4 DEF CopyInv, Once, TimersOnce, InTimers
<1>7. Once'
  BY <1>2, <1>6, UnmovedOnce DEF CopyInv, Once
<1> QED
  BY <1>2, <1>5, <1>7 DEF kept

LEMMA TimerMoves ==
  ASSUME CopyInv, NEW e \in timers, TimerFires(e)
  PROVE  /\ Once'
         /\ e \in Entry /\ InTimers(e.msg, e.to)
         /\ Extends(queue', queue, e)
         /\ \A n \in Msg, p \in Listener :
              LET it == n = e.msg /\ p = e.to IN
              /\ InTimers(n, p)' <=> InTimers(n, p) /\ ~it
              /\ InQueue(n, p)' <=> InQueue(n, p) \/ it
         /\ UNCHANGED <<preparing, current, posted, wire, inbox>>
<1>1. /\ queue \in Seq(Entry) /\ e \in Entry
      /\ queue' = Append(queue, e) /\ timers' = timers \ {e}
      /\ UNCHANGED <<preparing, current, posted, wire, inbox>>
  BY DEF TimerFires, CopyInv, TypeInv, TypeOK, incoming
<1>2. Extends(queue', queue, e)
  BY <1>1, AppendExtends
<1>3. InTimers(e.msg, e.to) /\ ~InQueue(e.msg, e.to)
  BY <1>1 DEF CopyInv, OnePlace, InTimers, Entry
<1>4. TimersOnce /\ QueueOnce
  BY DEF CopyInv, Once
<1>5. ASSUME NEW n \in Msg, NEW p \in Listener
      PROVE  /\ InTimers(n, p)' <=> InTimers(n, p) /\ ~(n = e.msg /\ p = e.to)
             /\ InQueue(n, p)' <=> InQueue(n, p) \/ (n = e.msg /\ p = e.to)
  <2>1. InTimers(n, p)' <=> InTimers(n, p) /\ ~(n = e.msg /\ p = e.to)
    BY <1>1, <1>4 DEF InTimers, TimersOnce
  <2>2. InQueue(n, p)' <=> InQueue(n, p) \/ (n = e.msg /\ p = e.to)
    BY <1>2 DEF InQueue, Extends
  <2> QED
    BY <2>1, <2>2
<1>6. TimersOnce'
  BY <1>1, <1>4 DEF TimersOnce
<1>7. QueueOnce'
  BY <1>2, <1>3, <1>4 DEF QueueOnce, InQueue, Extends
<1>8. Once'
  BY <1>1, <1>6, <1>7, UnmovedOnce DEF CopyInv, Once
<1> QED
  BY <1>1, <1>2, <1>3, <1>5, <1>8

\* handleBroadcast reads one message off a stream.
LEMMA ReadMoves ==
  ASSUME CopyInv, NEW r \in Listener, NEW s \in Stream, ReadMessage(r, s)
  PROVE  LET x == wire[r][s][1].msg IN
         /\ Once'
         /\ x \in Msg /\ OnWire(x, r)
         /\ \A n \in Msg, p \in Listener :
              LET it == n = x /\ p = r IN
              /\ OnWire(n, p)' <=> OnWire(n, p) /\ ~it
              /\ Arrived(n, p)' <=> Arrived(n, p) \/ it
         /\ UNCHANGED <<preparing, queue, current, timers, posted>>
<1>1. PICK x : x = wire[r][s][1].msg
  OBVIOUS
<1>t. TypeInv
  BY DEF CopyInv
<1>2. /\ Shortens(wire'[r][s], wire[r][s]) /\ x \in Msg
      /\ \A q \in Listener, t \in Stream : q # r \/ t # s => wire'[q][t] = wire[q][t]
  BY <1>1, <1>t, Reading DEF Packet
<1>3. PICK item : item.msg = x /\ Extends(inbox'[r], inbox[r], item)
  BY <1>1, <1>t, Arriving
<1>4. \A q \in Listener : q # r => inbox'[q] = inbox[q]
  BY <1>t, Arriving
<1>5. OnWire(x, r)
  BY <1>1, <1>2 DEF OnWire, Shortens
<1>6. ~Arrived(x, r)
  BY <1>2, <1>5 DEF CopyInv, OnePlace
<1>7. WireOnce /\ InboxOnce
  BY DEF CopyInv, Once
<1>8. ASSUME NEW n \in Msg, NEW p \in Listener
      PROVE  /\ OnWire(n, p)' <=> OnWire(n, p) /\ ~(n = x /\ p = r)
             /\ Arrived(n, p)' <=> Arrived(n, p) \/ (n = x /\ p = r)
  <2>1. Arrived(n, p)' <=> Arrived(n, p) \/ (n = x /\ p = r)
    <3>1. CASE p = r
      BY <1>3, <3>1 DEF Arrived, Extends
    <3>2. CASE p # r
      BY <1>4, <3>2 DEF Arrived
    <3> QED
      BY <3>1, <3>2
  <2>2. CASE p # r
    <3>1. \A t \in Stream : wire'[p][t] = wire[p][t]
      BY <1>2, <2>2
    <3> QED
      BY <2>1, <2>2, <3>1 DEF OnWire
  <2>3. CASE p = r
    <3>1. ASSUME NEW t \in Stream, NEW i \in 1..Len(wire'[r][t]), wire'[r][t][i].msg = n
          PROVE  OnWire(n, r) /\ n # x
      <4>1. CASE t = s
        <5>1. /\ i + 1 \in 1..Len(wire[r][s]) /\ wire'[r][s][i] = wire[r][s][i + 1]
              /\ i + 1 # 1 /\ 1 \in 1..Len(wire[r][s])
          BY <1>2, <3>1, <4>1 DEF Shortens
        <5> QED
          BY <1>1, <1>7, <3>1, <4>1, <5>1 DEF OnWire, WireOnce
      <4>2. CASE t # s
        <5>1. wire'[r][t] = wire[r][t] /\ 1 \in 1..Len(wire[r][s])
          BY <1>2, <4>2 DEF Shortens
        <5> QED
          BY <1>1, <1>7, <3>1, <4>2, <5>1 DEF OnWire, WireOnce
      <4> QED
        BY <4>1, <4>2
    <3>2. ASSUME NEW t \in Stream, NEW i \in 1..Len(wire[r][t]), wire[r][t][i].msg = n, n # x
          PROVE  OnWire(n, r)'
      <4>1. CASE t = s
        BY <1>1, <1>2, <3>2, <4>1 DEF OnWire, Shortens
      <4>2. CASE t # s
        BY <1>2, <3>2, <4>2 DEF OnWire
      <4> QED
        BY <4>1, <4>2
    <3>3. OnWire(n, r)' => OnWire(n, r) /\ n # x
      BY <3>1 DEF OnWire
    <3>4. OnWire(n, r) /\ n # x => OnWire(n, r)'
      <4> SUFFICES ASSUME OnWire(n, r), n # x PROVE OnWire(n, r)'
        OBVIOUS
      <4>1. PICK t \in Stream : \E i \in 1..Len(wire[r][t]) : wire[r][t][i].msg = n
        BY DEF OnWire
      <4> QED
        BY <3>2, <4>1
    <3> QED
      BY <2>1, <2>3, <3>3, <3>4
  <2> QED
    BY <2>2, <2>3
<1>9. WireOnce'
  <2> SUFFICES ASSUME NEW p \in Listener, NEW u \in Stream, NEW t \in Stream,
                      NEW i \in 1..Len(wire'[p][u]), NEW j \in 1..Len(wire'[p][t]),
                      wire'[p][u][i].msg = wire'[p][t][j].msg
               PROVE  u = t /\ i = j
    BY DEF WireOnce
  \* each packet is the one it was, maybe a place further to the front
  <2>1. ASSUME NEW v \in Stream, NEW k \in 1..Len(wire'[p][v])
        PROVE  \/ p = r /\ v = s /\ k + 1 \in 1..Len(wire[p][v]) /\ wire'[p][v][k] = wire[p][v][k + 1]
               \/ ~(p = r /\ v = s) /\ k \in 1..Len(wire[p][v]) /\ wire'[p][v][k] = wire[p][v][k]
    <3>1. CASE p = r /\ v = s
      BY <1>2, <2>1, <3>1 DEF Shortens
    <3>2. CASE ~(p = r /\ v = s)
      <4>1. wire'[p][v] = wire[p][v]
        BY <1>2, <3>2
      <4> QED
        BY <2>1, <3>2, <4>1
    <3> QED
      BY <3>1, <3>2
  <2>2. p = r /\ u = s /\ t = s /\ i + 1 = j + 1 => i = j
    BY <1>2 DEF Shortens
  <2>3. PICK k \in 1..Len(wire[p][u]) :
          wire'[p][u][i] = wire[p][u][k] /\ k = IF p = r /\ u = s THEN i + 1 ELSE i
    BY <2>1
  <2>4. PICK l \in 1..Len(wire[p][t]) :
          wire'[p][t][j] = wire[p][t][l] /\ l = IF p = r /\ t = s THEN j + 1 ELSE j
    BY <2>1
  <2>5. u = t /\ k = l
    BY <1>7, <2>3, <2>4 DEF WireOnce
  <2> QED
    BY <2>2, <2>3, <2>4, <2>5
<1>10. InboxOnce'
  <2> SUFFICES ASSUME NEW p \in Listener
               PROVE  \A i, j \in 1..Len(inbox'[p]) : inbox'[p][i].msg = inbox'[p][j].msg => i = j
    BY DEF InboxOnce
  <2>1. CASE p = r
    <3>1. \A i \in 1..Len(inbox[r]) : inbox[r][i].msg # x
      BY <1>6 DEF Arrived
    <3>2. \A i \in 1..Len(inbox'[r]) :
            \/ i \in 1..Len(inbox[r]) /\ inbox'[r][i] = inbox[r][i]
            \/ i = Len(inbox[r]) + 1 /\ inbox'[r][i] = item
      BY <1>3 DEF Extends
    <3>3. \A i, j \in 1..Len(inbox[r]) : inbox[r][i].msg = inbox[r][j].msg => i = j
      BY <1>7 DEF InboxOnce
    <3> QED
      BY <1>3, <2>1, <3>1, <3>2, <3>3
  <2>2. CASE p # r
    BY <1>4, <1>7, <2>2 DEF InboxOnce
  <2> QED
    BY <2>1, <2>2
<1>11. UNCHANGED <<preparing, queue, current, timers, posted>>
  BY DEF ReadMessage, outgoing
<1>12. Once'
  BY <1>9, <1>10, <1>11, UnmovedOnce DEF CopyInv, Once
<1> QED
  BY <1>1, <1>2, <1>5, <1>8, <1>11, <1>12

\* What a stream that is gone had to carry is lost.
LEMMA LoseMoves ==
  ASSUME CopyInv, NEW r \in Listener, NEW s \in Stream, LoseMessages(r, s)
  PROVE  /\ Once'
         /\ \A n \in Msg, p \in Listener :
              LET it == p = r /\ \E i \in 1..Len(wire[r][s]) : wire[r][s][i].msg = n IN
              OnWire(n, p)' <=> OnWire(n, p) /\ ~it
         /\ UNCHANGED <<preparing, queue, current, timers, posted, inbox>>
<1> DEFINE Aboard(n) == \E i \in 1..Len(wire[r][s]) : wire[r][s][i].msg = n
<1>1. /\ wire'[r][s] = <<>>
      /\ \A q \in Listener, t \in Stream : q # r \/ t # s => wire'[q][t] = wire[q][t]
      /\ UNCHANGED <<preparing, queue, current, timers, posted, inbox>>
  BY Losing DEF CopyInv, outgoing, incoming
<1>2. \A i \in 1..Len(wire'[r][s]) : FALSE
  BY <1>1
<1>3. WireOnce
  BY DEF CopyInv, Once
<1>4. ASSUME NEW n \in Msg, NEW p \in Listener
      PROVE  OnWire(n, p)' <=> OnWire(n, p) /\ ~(p = r /\ Aboard(n))
  <2>1. CASE p # r
    <3>1. \A t \in Stream : wire'[p][t] = wire[p][t]
      BY <1>1, <2>1
    <3> QED
      BY <2>1, <3>1 DEF OnWire
  <2>2. CASE p = r
    <3>1. OnWire(n, r)' => OnWire(n, r) /\ ~Aboard(n)
      <4> SUFFICES ASSUME NEW t \in Stream, NEW i \in 1..Len(wire'[r][t]), wire'[r][t][i].msg = n
                   PROVE  OnWire(n, r) /\ ~Aboard(n)
        BY DEF OnWire
      <4>1. t # s /\ wire'[r][t] = wire[r][t]
        BY <1>1, <1>2
      <4> QED
        BY <1>3, <4>1 DEF OnWire, WireOnce
    <3>2. OnWire(n, r) /\ ~Aboard(n) => OnWire(n, r)'
      <4> SUFFICES ASSUME NEW t \in Stream, NEW i \in 1..Len(wire[r][t]), wire[r][t][i].msg = n,
                          ~Aboard(n)
                   PROVE  OnWire(n, r)'
        BY DEF OnWire
      <4>1. t # s /\ wire'[r][t] = wire[r][t]
        BY <1>1
      <4> QED
        BY <4>1 DEF OnWire
    <3> QED
      BY <2>2, <3>1, <3>2
  <2> QED
    BY <2>1, <2>2
<1>5. WireOnce'
  <2> SUFFICES ASSUME NEW p \in Listener, NEW u \in Stream, NEW t \in Stream,
                      NEW i \in 1..Len(wire'[p][u]), NEW j \in 1..Len(wire'[p][t]),
                      wire'[p][u][i].msg = wire'[p][t][j].msg
               PROVE  u = t /\ i = j
    BY DEF WireOnce
  <2>1. wire'[p][u] = wire[p][u] /\ wire'[p][t] = wire[p][t]
    BY <1>1, <1>2
  <2> QED
    BY <1>3, <2>1 DEF WireOnce
<1>6. Once'
  BY <1>1, <1>5, UnmovedOnce DEF CopyInv, Once
<1> QED
  BY <1>1, <1>4, <1>6

\* The steps that move no copy at all
LEMMA NothingMoves ==
  ASSUME CopyInv, [Next]_vars,
         ~\E m \in Msg : SendTo(m) \/ PushMessage(m) \/ Broadcast(m),
         ~(TakeMessage \/ PushFound \/ RetryOrDrop),
         ~\E e \in timers : TimerFires(e),
         ~\E p \in Listener, s \in Stream : ReadMessage(p, s) \/ LoseMessages(p, s)
  PROVE  UNCHANGED <<outgoing, wire, inbox>>
BY DEF Next, vars, NodeStarts, StartFails, Connect, Disconnect, RemovePeer, Discover,
   CloseStream, ReaddRelay, ReuseStream, DialPeer, OpenStream, Subscribe, incoming

LEMMA StartMoves ==
  ASSUME CopyInv, NEW m \in Msg, SendTo(m)
  PROVE  /\ Receiver[m] \in Listener
         /\ \A p \in Listener : ~Sent(m, p)
         /\ \A n \in Msg, p \in Listener :
              InPreparing(n, p)' <=> InPreparing(n, p) \/ (n = m /\ p = Receiver[m])
         /\ UNCHANGED <<queue, current, timers, posted, wire, inbox>>
BY DEF SendTo, MaySend, InPreparing, incoming

\* No action makes a second copy.
LEMMA CopyStep == CopyInv /\ [Next]_vars => CopyInv'
<1> SUFFICES ASSUME CopyInv, [Next]_vars PROVE CopyInv'
  OBVIOUS
<1> USE DEF OnePlace
<1>t. TypeInv'
  BY NextTypes DEF CopyInv
<1>s. \A m \in Msg, p \in Listener : OnePlace(m, p)
  BY DEF CopyInv
<1>1. SUFFICES Once' /\ \A n \in Msg, p \in Listener : OnePlace(n, p)'
  BY <1>t DEF CopyInv
<1>2. ASSUME NEW m \in Msg, SendTo(m)
      PROVE  Once' /\ \A n \in Msg, p \in Listener : OnePlace(n, p)'
  <2>1. Once'
    BY <1>2, StartMoves, UnmovedOnce DEF CopyInv, Once
  <2>2. \A p \in Listener : ~Posted(m, p)
    BY <1>2, StartMoves, Places
  <2> QED
    BY <1>s, <1>2, <2>1, <2>2, StartMoves, Unmoved
<1>3. ASSUME NEW m \in Msg, PushMessage(m)
      PROVE  Once' /\ \A n \in Msg, p \in Listener : OnePlace(n, p)'
  BY <1>s, <1>3, PushMoves, Unmoved
<1>4. ASSUME NEW m \in Msg, Broadcast(m)
      PROVE  Once' /\ \A n \in Msg, p \in Listener : OnePlace(n, p)'
  BY <1>s, <1>4, BroadcastMoves, Unmoved
<1>5. ASSUME TakeMessage
      PROVE  Once' /\ \A n \in Msg, p \in Listener : OnePlace(n, p)'
  BY <1>s, <1>5, TakeMoves, Unmoved
<1>6. ASSUME PushFound
      PROVE  Once' /\ \A n \in Msg, p \in Listener : OnePlace(n, p)'
  BY <1>s, <1>6, PushIntoMoves, Unmoved
<1>7. ASSUME RetryOrDrop
      PROVE  Once' /\ \A n \in Msg, p \in Listener : OnePlace(n, p)'
  BY <1>s, <1>7, RetryMoves, Unmoved
<1>8. ASSUME NEW e \in timers, TimerFires(e)
      PROVE  Once' /\ \A n \in Msg, p \in Listener : OnePlace(n, p)'
  BY <1>s, <1>8, TimerMoves, Unmoved
<1>9. ASSUME NEW r \in Listener, NEW s \in Stream, ReadMessage(r, s)
      PROVE  Once' /\ \A n \in Msg, p \in Listener : OnePlace(n, p)'
  BY <1>s, <1>9, ReadMoves, Unmoved
<1>10. ASSUME NEW r \in Listener, NEW s \in Stream, LoseMessages(r, s)
       PROVE  Once' /\ \A n \in Msg, p \in Listener : OnePlace(n, p)'
  BY <1>s, <1>10, LoseMoves, Unmoved
<1>11. ASSUME UNCHANGED <<outgoing, wire, inbox>>
       PROVE  Once' /\ \A n \in Msg, p \in Listener : OnePlace(n, p)'
  <2>1. UNCHANGED <<preparing, queue, current, timers, posted, wire, inbox>>
    BY <1>11 DEF outgoing
  <2> QED
    BY <1>s, <2>1, Unmoved, UnmovedOnce DEF CopyInv, Once
<1> QED
  BY <1>2, <1>3, <1>4, <1>5, <1>6, <1>7, <1>8, <1>9, <1>10, <1>11, NothingMoves

LEMMA CopyInit == Init => CopyInv
<1> SUFFICES ASSUME Init PROVE CopyInv
  OBVIOUS
<1>1. /\ preparing = {} /\ queue = <<>> /\ current = NoEntry /\ timers = {}
      /\ \A p \in Listener : posted[p] = <<>> /\ inbox[p] = <<>>
      /\ \A p \in Listener, s \in Stream : wire[p][s] = <<>>
  BY DEF Init
<1>2. Once
  BY <1>1 DEF Once, QueueOnce, TimersOnce, WireOnce, InboxOnce, PostedOnce
<1>3. ASSUME NEW m \in Msg, NEW p \in Listener PROVE OnePlace(m, p)
  BY <1>1 DEF OnePlace, InPreparing, InQueue, AtWork, InTimers, OnWire, Arrived
<1> QED
  BY <1>2, <1>3, InitTypes DEF CopyInv

LEMMA CopyAlways == Spec => []CopyInv
BY CopyInit, CopyStep, PTL DEF Spec

-----------------------------------------------------------------------------
(* The callbacks.                                                          *)

SubsOnce == \A p \in Listener : \A i, j \in 1..Len(subs[p]) : subs[p][i] = subs[p][j] => i = j

HandledInv ==
  /\ SubsOnce
  /\ \A p \in Listener : \A sub \in Sub, m \in Msg :
       calls[p][<<sub, m>>] <= IF Arrived(m, p) THEN 1 ELSE 0

LEMMA SubscribeOnce ==
  ASSUME TypeInv, SubsOnce, NEW p \in Listener, NEW sub \in Sub, Subscribe(p, sub)
  PROVE  SubsOnce'
<1>1. subs \in [Listener -> Seq(Sub)]
  BY DEF TypeInv, TypeOK
<1>2. \A i \in 1..Len(subs[p]) : subs[p][i] # sub
  <2> SUFFICES ASSUME NEW i \in 1..Len(subs[p]), subs[p][i] = sub PROVE FALSE
    OBVIOUS
  <2>1. Redundant(p, sub)
    BY DEF Redundant
  <2> QED
    BY <2>1 DEF Subscribe
<1>3. Extends(Append(subs[p], sub), subs[p], sub)
  BY <1>1, AppendExtends
<1>4. subs'[p] = Append(subs[p], sub) /\ \A q \in Listener : q # p => subs'[q] = subs[q]
  BY <1>1 DEF Subscribe
<1> SUFFICES ASSUME NEW q \in Listener
             PROVE  \A i, j \in 1..Len(subs'[q]) : subs'[q][i] = subs'[q][j] => i = j
  BY DEF SubsOnce
<1>5. CASE q = p
  <2>1. \A i \in 1..Len(subs'[p]) : \/ i \in 1..Len(subs[p]) /\ subs'[p][i] = subs[p][i]
                                    \/ i = Len(subs[p]) + 1 /\ subs'[p][i] = sub
    BY <1>3, <1>4 DEF Extends
  <2>2. \A i, j \in 1..Len(subs[p]) : subs[p][i] = subs[p][j] => i = j
    BY DEF SubsOnce
  <2> QED
    BY <1>2, <1>5, <2>1, <2>2
<1>6. CASE q # p
  BY <1>4, <1>6 DEF SubsOnce
<1> QED
  BY <1>5, <1>6

\* A callback is subscribed once, so one message that is read calls it once.
LEMMA CalledOnce ==
  ASSUME TypeInv, SubsOnce, NEW p \in Listener, NEW sub \in Sub
  PROVE  Cardinality({i \in 1..Len(subs[p]) : subs[p][i] = sub}) \in {0, 1}
<1> DEFINE T == {i \in 1..Len(subs[p]) : subs[p][i] = sub}
<1>1. CASE T = {}
  BY <1>1, FS_EmptySet
<1>2. ASSUME NEW i \in T PROVE Cardinality(T) = 1
  <2>1. T = {i}
    BY DEF SubsOnce
  <2> QED
    BY <2>1, FS_Singleton
<1> QED
  BY <1>1, <1>2

LEMMA HandledStep == CopyInv /\ HandledInv /\ [Next]_vars => HandledInv'
<1> SUFFICES ASSUME CopyInv, HandledInv, [Next]_vars PROVE HandledInv'
  OBVIOUS
<1>t. /\ TypeInv
      /\ calls \in [Listener -> [Sub \X Msg -> Nat]]
  BY DEF CopyInv, TypeInv, TypeOK
<1>1. CASE UNCHANGED incoming
  BY <1>1, Unmoved DEF incoming, HandledInv, SubsOnce, Arrived
<1>2. ASSUME NEW p \in Listener, NEW sub \in Sub, Subscribe(p, sub) PROVE HandledInv'
  <2>1. SubsOnce'
    BY <1>2, <1>t, SubscribeOnce DEF HandledInv
  <2>2. UNCHANGED <<inbox, calls>>
    BY <1>2 DEF Subscribe
  <2> QED
    BY <2>1, <2>2, Unmoved DEF HandledInv
<1>3. ASSUME NEW r \in Listener, NEW s \in Stream, ReadMessage(r, s) PROVE HandledInv'
  <2>1. PICK x : x = wire[r][s][1].msg
    OBVIOUS
  <2>2. /\ x \in Msg /\ OnWire(x, r)
        /\ \A n \in Msg, p \in Listener : Arrived(n, p)' <=> Arrived(n, p) \/ (n = x /\ p = r)
    BY <1>3, <2>1, ReadMoves
  <2>3. ~Arrived(x, r)
    BY <2>2 DEF CopyInv, OnePlace
  <2>4. /\ calls' = [calls EXCEPT ![r] = [c \in Sub \X Msg |->
             IF c[2] = x THEN @[c] + Cardinality({i \in 1..Len(subs[r]) : subs[r][i] = c[1]})
             ELSE @[c]]]
        /\ subs' = subs
    <3>1. Head(wire[r][s]) = wire[r][s][1]
      BY <1>3, <1>t, Reading, Popped
    <3> QED
      BY <1>3, <2>1, <3>1 DEF ReadMessage
  <2>5. SubsOnce'
    BY <2>4 DEF HandledInv, SubsOnce
  <2>6. ASSUME NEW p \in Listener, NEW sub \in Sub, NEW m \in Msg
        PROVE  calls'[p][<<sub, m>>] <= IF Arrived(m, p)' THEN 1 ELSE 0
    <3>1. /\ calls[p][<<sub, m>>] <= IF Arrived(m, p) THEN 1 ELSE 0
          /\ calls[p][<<sub, m>>] \in Nat
      BY <1>t DEF HandledInv
    <3>2. CASE p = r /\ m = x
      <4>1. calls[r][<<sub, x>>] = 0
        BY <2>3, <3>1, <3>2
      <4>2. calls'[r][<<sub, x>>] =
              calls[r][<<sub, x>>] + Cardinality({i \in 1..Len(subs[r]) : subs[r][i] = sub})
        BY <1>t, <2>2, <2>4
      <4>3. Cardinality({i \in 1..Len(subs[r]) : subs[r][i] = sub}) \in {0, 1}
        BY <1>t, CalledOnce DEF HandledInv
      <4> QED
        BY <2>2, <3>2, <4>1, <4>2, <4>3
    <3>3. CASE ~(p = r /\ m = x)
      <4>1. calls'[p][<<sub, m>>] = calls[p][<<sub, m>>]
        BY <1>t, <2>4, <3>3
      <4>2. Arrived(m, p)' <=> Arrived(m, p)
        BY <2>2, <3>3
      <4> QED
        BY <3>1, <4>1, <4>2
    <3> QED
      BY <3>2, <3>3
  <2> QED
    BY <2>5, <2>6 DEF HandledInv
<1> QED
  BY <1>1, <1>2, <1>3 DEF Next, vars, NodeStarts, StartFails, Connect, Disconnect, RemovePeer,
     Discover, CloseStream, ReaddRelay, SendTo, PushMessage, Broadcast, TakeMessage,
     ReuseStream, DialPeer, OpenStream, PushFound, RetryOrDrop, TimerFires, LoseMessages

\* No callback is called twice with a message, however often it is tried again and
\* whatever is subscribed again (processMessageQueue, subscribeChannel).
THEOREM CallbacksRunOnce == Spec => []HandledOnce
<1>1. Init => HandledInv
  <2> SUFFICES ASSUME Init PROVE HandledInv
    OBVIOUS
  <2>1. /\ \A p \in Listener : subs[p] = <<>>
        /\ calls = [p \in Listener |-> [c \in Sub \X Msg |-> 0]]
    BY DEF Init
  <2>2. SubsOnce
    BY <2>1 DEF SubsOnce
  <2> QED
    BY <2>1, <2>2 DEF HandledInv
<1>2. CopyInv /\ HandledInv => HandledOnce
  <2> SUFFICES ASSUME CopyInv, HandledInv, NEW p \in Listener, NEW c \in Sub \X Msg
               PROVE  calls[p][c] <= 1
    BY DEF HandledOnce
  <2>1. c[1] \in Sub /\ c[2] \in Msg /\ c = <<c[1], c[2]>>
    OBVIOUS
  <2>2. calls[p][c] \in Nat
    BY DEF CopyInv, TypeInv, TypeOK
  <2>3. calls[p][c] <= IF Arrived(c[2], p) THEN 1 ELSE 0
    BY <2>1 DEF HandledInv
  <2> QED
    BY <2>2, <2>3
<1> QED
  BY <1>1, <1>2, CopyAlways, HandledStep, PTL DEF Spec

-----------------------------------------------------------------------------
(* The abstract channel.  The places of the copy make the fate of a        *)
(* message, and a step moves the copies of one message at most, except     *)
(* when a stream is lost with all it carried.                              *)

Fates == [c \in Msg \X Listener |-> FateOf(c[1], c[2])]

UnderWay(m, p) == InPreparing(m, p) \/ InQueue(m, p) \/ AtWork(m, p) \/ InTimers(m, p)
                  \/ OnWire(m, p)

FateByPlace == \A m \in Msg, p \in Listener :
  /\ UnderWay(m, p) => Fates[<<m, p>>] = "underway"
  /\ ~UnderWay(m, p) /\ Arrived(m, p) => Fates[<<m, p>>] = "received"
  /\ ~UnderWay(m, p) /\ ~Arrived(m, p) /\ Posted(m, p) => Fates[<<m, p>>] = "lost"
  /\ ~UnderWay(m, p) /\ ~Arrived(m, p) /\ ~Posted(m, p) => Fates[<<m, p>>] = "unsent"

LEMMA FateNow == FateByPlace
<1>0. ASSUME NEW m \in Msg, NEW p \in Listener
    PROVE  /\ UnderWay(m, p) => Fates[<<m, p>>] = "underway"
           /\ ~UnderWay(m, p) /\ Arrived(m, p) => Fates[<<m, p>>] = "received"
           /\ ~UnderWay(m, p) /\ ~Arrived(m, p) /\ Posted(m, p) => Fates[<<m, p>>] = "lost"
           /\ ~UnderWay(m, p) /\ ~Arrived(m, p) /\ ~Posted(m, p) => Fates[<<m, p>>] = "unsent"
  <2>1. <<m, p>> \in Msg \X Listener /\ <<m, p>>[1] = m /\ <<m, p>>[2] = p
    OBVIOUS
  <2>2. Fates[<<m, p>>] = FateOf(m, p)
    BY <2>1 DEF Fates
  <2>3. /\ UnderWay(m, p) <=> Waiting(m, p) \/ OnWire(m, p)
        /\ ~UnderWay(m, p) => (Sent(m, p) <=> Posted(m, p))
    BY Places DEF UnderWay
  <2> QED
    BY <2>2, <2>3 DEF FateOf
<1> QED
  BY <1>0, Zenon DEF FateByPlace

LEMMA FateThen == FateByPlace'
BY FateNow, PTL

\* the message stays where it is, or on its way
Same(m, p) == /\ UnderWay(m, p)' <=> UnderWay(m, p)
              /\ Arrived(m, p)' <=> Arrived(m, p)
              /\ ~UnderWay(m, p) => (Posted(m, p)' <=> Posted(m, p))

LEMMA SameFate ==
  ASSUME NEW m \in Msg, NEW p \in Listener, Same(m, p)
  PROVE  Fates'[<<m, p>>] = Fates[<<m, p>>]
<1>1. CASE UnderWay(m, p)
  BY <1>1, FateNow, FateThen DEF FateByPlace, Same
<1>2. CASE ~UnderWay(m, p) /\ Arrived(m, p)
  BY <1>2, FateNow, FateThen DEF FateByPlace, Same
<1>3. CASE ~UnderWay(m, p) /\ ~Arrived(m, p) /\ Posted(m, p)
  BY <1>3, FateNow, FateThen DEF FateByPlace, Same
<1>4. CASE ~UnderWay(m, p) /\ ~Arrived(m, p) /\ ~Posted(m, p)
  BY <1>4, FateNow, FateThen DEF FateByPlace, Same
<1> QED
  BY <1>1, <1>2, <1>3, <1>4

LEMMA SameFates ==
  ASSUME \A m \in Msg, p \in Listener : Same(m, p)
  PROVE  Fates' = Fates
<1>1. PICK F, G : F = Fates /\ G = Fates'
  OBVIOUS
<1>2. F = [c \in Msg \X Listener |-> F[c]] /\ G = [c \in Msg \X Listener |-> G[c]]
  BY <1>1 DEF Fates
<1>3. \A c \in Msg \X Listener : G[c] = F[c]
  BY <1>1, SameFate
<1> QED
  BY <1>1, <1>2, <1>3

LEMMA SendingImplements ==
  ASSUME NEW m \in Msg, NEW P \in SUBSET Listener,
         \A p \in P : /\ ~UnderWay(m, p) /\ ~Arrived(m, p) /\ ~Posted(m, p)
                      /\ UnderWay(m, p)',
         \A n \in Msg, p \in Listener : ~(n = m /\ p \in P) => Same(n, p)
  PROVE  Channel!Send(m, P)
<1>1. PICK F, G : F = Fates /\ G = Fates'
  OBVIOUS
<1>2. F = [c \in Msg \X Listener |-> F[c]] /\ G = [c \in Msg \X Listener |-> G[c]]
  BY <1>1 DEF Fates
<1>3. \A p \in P : F[<<m, p>>] = "unsent" /\ G[<<m, p>>] = "underway"
  BY <1>1, FateNow, FateThen DEF FateByPlace
<1>4. \A n \in Msg, p \in Listener : ~(n = m /\ p \in P) => G[<<n, p>>] = F[<<n, p>>]
  BY <1>1, SameFate
<1>5. G = [c \in Msg \X Listener |-> IF c[1] = m /\ c[2] \in P THEN "underway" ELSE F[c]]
  <2>1. ASSUME NEW c \in Msg \X Listener
        PROVE  G[c] = IF c[1] = m /\ c[2] \in P THEN "underway" ELSE F[c]
    <3>1. c[1] \in Msg /\ c[2] \in Listener /\ c = <<c[1], c[2]>>
      OBVIOUS
    <3> QED
      BY <1>3, <1>4, <3>1
  <2> QED
    BY <1>2, <2>1, Zenon
<1> QED
  BY <1>1, <1>3, <1>5 DEF Channel!Send, Fates

LEMMA ReceivingImplements ==
  ASSUME NEW m \in Msg, NEW p \in Listener,
         UnderWay(m, p), ~UnderWay(m, p)', Arrived(m, p)',
         \A n \in Msg, q \in Listener : ~(n = m /\ q = p) => Same(n, q)
  PROVE  Channel!Receive(m, p)
<1>1. PICK F, G : F = Fates /\ G = Fates'
  OBVIOUS
<1>2. F = [c \in Msg \X Listener |-> F[c]] /\ G = [c \in Msg \X Listener |-> G[c]]
  BY <1>1 DEF Fates
<1>3. F[<<m, p>>] = "underway" /\ G[<<m, p>>] = "received"
  BY <1>1, FateNow, FateThen DEF FateByPlace
<1>4. \A n \in Msg, q \in Listener : ~(n = m /\ q = p) => G[<<n, q>>] = F[<<n, q>>]
  BY <1>1, SameFate
<1>5. G = [F EXCEPT ![<<m, p>>] = "received"]
  <2>1. ASSUME NEW c \in Msg \X Listener
        PROVE  G[c] = [F EXCEPT ![<<m, p>>] = "received"][c]
    <3>1. c[1] \in Msg /\ c[2] \in Listener /\ c = <<c[1], c[2]>>
      OBVIOUS
    <3>2. F \in [Msg \X Listener -> {F[d] : d \in Msg \X Listener}]
      BY <1>2
    <3>3. CASE c = <<m, p>>
      BY <1>3, <3>2, <3>3
    <3>4. CASE c # <<m, p>>
      <4>1. G[c] = F[c]
        BY <1>4, <3>1, <3>4
      <4> QED
        BY <3>2, <3>4, <4>1
    <3> QED
      BY <3>3, <3>4
  <2> QED
    BY <1>2, <2>1
<1> QED
  BY <1>1, <1>3, <1>5 DEF Channel!Receive, Fates

LEMMA LosingImplements ==
  ASSUME NEW C \in SUBSET (Msg \X Listener), C # {},
         \A m \in Msg, p \in Listener : <<m, p>> \in C =>
           UnderWay(m, p) /\ ~UnderWay(m, p)' /\ ~Arrived(m, p)' /\ Posted(m, p)',
         \A m \in Msg, p \in Listener : <<m, p>> \notin C => Same(m, p)
  PROVE  Channel!Lose(C)
<1>1. PICK F, G : F = Fates /\ G = Fates'
  OBVIOUS
<1>2. F = [c \in Msg \X Listener |-> F[c]] /\ G = [c \in Msg \X Listener |-> G[c]]
  BY <1>1 DEF Fates
<1>3. \A m \in Msg, p \in Listener : <<m, p>> \in C =>
        F[<<m, p>>] = "underway" /\ G[<<m, p>>] = "lost"
  BY <1>1, FateNow, FateThen DEF FateByPlace
<1>4. \A m \in Msg, p \in Listener : <<m, p>> \notin C => G[<<m, p>>] = F[<<m, p>>]
  BY <1>1, SameFate
<1>5. ASSUME NEW c \in Msg \X Listener
      PROVE  /\ c \in C => F[c] = "underway"
             /\ G[c] = IF c \in C THEN "lost" ELSE F[c]
  <2>1. c[1] \in Msg /\ c[2] \in Listener /\ c = <<c[1], c[2]>>
    OBVIOUS
  <2> QED
    BY <1>3, <1>4, <2>1
<1>6. G = [c \in Msg \X Listener |-> IF c \in C THEN "lost" ELSE F[c]]
  BY <1>2, <1>5, Zenon
<1>7. \A c \in C : F[c] = "underway"
  BY <1>5
<1> QED
  BY <1>1, <1>6, <1>7 DEF Channel!Lose, Fates

\* The steps that move a copy along lose none.
LEMMA NoneLost ==
  ASSUME CopyInv,
         \/ \E n \in Msg : PushMessage(n)
         \/ TakeMessage \/ PushFound \/ \E e \in timers : TimerFires(e)
         \/ UNCHANGED <<outgoing, wire, inbox>>
  PROVE  \A n \in Msg, p \in Listener : Same(n, p)
<1>s. \A m \in Msg, p \in Listener : OnePlace(m, p)
  BY DEF CopyInv
<1>1. ASSUME NEW m \in Msg, PushMessage(m) PROVE \A n \in Msg, p \in Listener : Same(n, p)
  BY <1>s, <1>1, PushMoves, Unmoved DEF OnePlace, Same, UnderWay
<1>2. ASSUME TakeMessage PROVE \A n \in Msg, p \in Listener : Same(n, p)
  BY <1>2, TakeMoves, Unmoved DEF Same, UnderWay
<1>3. ASSUME PushFound PROVE \A n \in Msg, p \in Listener : Same(n, p)
  BY <1>3, PushIntoMoves, Unmoved DEF Same, UnderWay
<1>4. ASSUME NEW e \in timers, TimerFires(e) PROVE \A n \in Msg, p \in Listener : Same(n, p)
  BY <1>4, TimerMoves, Unmoved DEF Same, UnderWay
<1>5. ASSUME UNCHANGED <<outgoing, wire, inbox>> PROVE \A n \in Msg, p \in Listener : Same(n, p)
  <2>1. UNCHANGED <<preparing, queue, current, timers, posted, wire, inbox>>
    BY <1>5 DEF outgoing
  <2> QED
    BY <2>1, Unmoved DEF Same, UnderWay
<1> QED
  BY <1>1, <1>2, <1>3, <1>4, <1>5

LEMMA ChannelStep == CopyInv /\ CopyInv' /\ [Next]_vars => [Channel!Next]_Fates
<1> SUFFICES ASSUME CopyInv, CopyInv', [Next]_vars PROVE Channel!Next \/ Fates' = Fates
  OBVIOUS
<1>s. \A m \in Msg, p \in Listener : OnePlace(m, p) /\ OnePlace(m, p)'
  BY DEF CopyInv
<1>1. ASSUME NEW m \in Msg, SendTo(m) PROVE Channel!Send(m, {Receiver[m]})
  <2> DEFINE P == {Receiver[m]}
  <2>1. \A n \in Msg, p \in Listener : ~(n = m /\ p \in P) => Same(n, p)
    BY <1>1, StartMoves, Unmoved DEF Same, UnderWay
  <2>2. \A p \in P : ~UnderWay(m, p) /\ ~Arrived(m, p) /\ ~Posted(m, p) /\ UnderWay(m, p)'
    BY <1>s, <1>1, StartMoves, Places DEF OnePlace, UnderWay
  <2>3. P \in SUBSET Listener
    BY <1>1, StartMoves
  <2> HIDE DEF P
  <2>4. Channel!Send(m, P)
    BY <2>1, <2>2, <2>3, SendingImplements
  <2> QED
    BY <2>4 DEF P
<1>2. ASSUME NEW m \in Msg, Broadcast(m) PROVE Channel!Send(m, connected \cap Listener)
  <2>1. PICK P : P = connected \cap Listener
    OBVIOUS
  <2>2. \A n \in Msg, p \in Listener : ~(n = m /\ p \in P) => Same(n, p)
    BY <1>2, <2>1, BroadcastMoves, Unmoved DEF Same, UnderWay
  <2>3. \A p \in P : ~UnderWay(m, p) /\ ~Arrived(m, p) /\ ~Posted(m, p) /\ UnderWay(m, p)'
    BY <1>s, <1>2, <2>1, BroadcastMoves DEF OnePlace, UnderWay
  <2> QED
    BY <2>1, <2>2, <2>3, SendingImplements
<1>7. ASSUME RetryOrDrop
      PROVE  \/ \A n \in Msg, p \in Listener : Same(n, p)
             \/ \E C \in SUBSET (Msg \X Listener) : Channel!Lose(C)
  <2>1. current.msg \in Msg /\ current.to \in Listener
    BY <1>7, RetryMoves DEF Entry
  <2>2. CASE current.retries + 1 <= MaxRetries
    BY <1>7, <2>2, RetryMoves, Unmoved DEF Same, UnderWay
  <2>3. CASE ~(current.retries + 1 <= MaxRetries)
    <3>1. PICK C : C = {<<current.msg, current.to>>}
      OBVIOUS
    <3>2. \A n \in Msg, p \in Listener : <<n, p>> \in C <=> n = current.msg /\ p = current.to
      BY <2>1, <3>1
    <3>3. C \in SUBSET (Msg \X Listener) /\ C # {}
      BY <2>1, <3>1
    <3>4. \A n \in Msg, p \in Listener : <<n, p>> \notin C => Same(n, p)
      BY <1>7, <2>3, <3>2, RetryMoves, Unmoved DEF Same, UnderWay
    <3>5. \A n \in Msg, p \in Listener : <<n, p>> \in C =>
            UnderWay(n, p) /\ ~UnderWay(n, p)' /\ ~Arrived(n, p)' /\ Posted(n, p)'
      BY <1>s, <1>7, <2>3, <3>2, RetryMoves, Unmoved DEF OnePlace, UnderWay
    <3> QED
      BY <3>3, <3>4, <3>5, LosingImplements
  <2> QED
    BY <2>2, <2>3
<1>8. ASSUME NEW r \in Listener, NEW s \in Stream, ReadMessage(r, s)
      PROVE  \E m \in Msg, p \in Listener : Channel!Receive(m, p)
  <2>1. PICK x : x = wire[r][s][1].msg
    OBVIOUS
  <2>2. /\ x \in Msg /\ OnWire(x, r)
        /\ \A n \in Msg, p \in Listener :
             /\ OnWire(n, p)' <=> OnWire(n, p) /\ ~(n = x /\ p = r)
             /\ Arrived(n, p)' <=> Arrived(n, p) \/ (n = x /\ p = r)
        /\ UNCHANGED <<preparing, queue, current, timers, posted>>
    BY <1>8, <2>1, ReadMoves
  <2>3. UnderWay(x, r) /\ ~UnderWay(x, r)' /\ Arrived(x, r)'
    BY <1>s, <2>2, Unmoved DEF OnePlace, UnderWay
  <2>4. \A n \in Msg, p \in Listener : ~(n = x /\ p = r) => Same(n, p)
    BY <2>2, Unmoved DEF Same, UnderWay
  <2> QED
    BY <2>2, <2>3, <2>4, ReceivingImplements
<1>9. ASSUME NEW r \in Listener, NEW s \in Stream, LoseMessages(r, s)
      PROVE  \E C \in SUBSET (Msg \X Listener) : Channel!Lose(C)
  <2> DEFINE Aboard(n) == \E i \in 1..Len(wire[r][s]) : wire[r][s][i].msg = n
  <2>1. PICK C : C = {c \in Msg \X Listener : c[2] = r /\ Aboard(c[1])}
    OBVIOUS
  <2>2. /\ \A n \in Msg, p \in Listener : OnWire(n, p)' <=> OnWire(n, p) /\ ~(p = r /\ Aboard(n))
        /\ UNCHANGED <<preparing, queue, current, timers, posted, inbox>>
    BY <1>9, LoseMoves
  <2>3. \A n \in Msg, p \in Listener : <<n, p>> \in C <=> p = r /\ Aboard(n)
    BY <2>1
  <2>4. \A n \in Msg : Aboard(n) => OnWire(n, r)
    BY DEF OnWire
  <2>5. C # {} /\ C \in SUBSET (Msg \X Listener)
    <3>1. wire[r][s] \in Seq(Packet) /\ wire[r][s] # <<>>
      BY <1>9 DEF LoseMessages, CopyInv, TypeInv, TypeOK
    <3>2. 1 \in 1..Len(wire[r][s]) /\ wire[r][s][1] \in Packet
      BY <3>1, Popped
    <3>3. Aboard(wire[r][s][1].msg) /\ wire[r][s][1].msg \in Msg
      BY <3>2 DEF Packet
    <3>4. C # {}
      BY <2>3, <3>3
    <3> QED
      BY <2>1, <3>4
  <2> HIDE DEF Aboard
  <2>6. \A n \in Msg, p \in Listener : <<n, p>> \notin C => Same(n, p)
    BY <2>2, <2>3, Unmoved DEF Same, UnderWay
  <2>7. \A n \in Msg, p \in Listener : <<n, p>> \in C =>
          UnderWay(n, p) /\ ~UnderWay(n, p)' /\ ~Arrived(n, p)' /\ Posted(n, p)'
    BY <1>s, <2>2, <2>3, <2>4, Unmoved DEF OnePlace, UnderWay
  <2> QED
    BY <2>5, <2>6, <2>7, LosingImplements
<1>11. CASE \E m \in Msg : SendTo(m) \/ Broadcast(m)
  <2>1. PICK m \in Msg : SendTo(m) \/ Broadcast(m)
    BY <1>11
  <2>2. PICK P \in SUBSET Listener : Channel!Send(m, P)
    <3>1. CASE SendTo(m)
      <4>1. {Receiver[m]} \in SUBSET Listener
        BY <3>1, StartMoves
      <4> QED
        BY <1>1, <3>1, <4>1
    <3>2. CASE Broadcast(m)
      <4>1. connected \cap Listener \in SUBSET Listener
        OBVIOUS
      <4> QED
        BY <1>2, <3>2, <4>1
    <3> QED
      BY <2>1, <3>1, <3>2
  <2> QED
    BY <2>2 DEF Channel!Next
<1>12. CASE RetryOrDrop
  BY <1>7, <1>12, SameFates DEF Channel!Next
<1>13. CASE \E r \in Listener, s \in Stream : ReadMessage(r, s) \/ LoseMessages(r, s)
  BY <1>8, <1>9, <1>13 DEF Channel!Next
<1> QED
  BY <1>11, <1>12, <1>13, NoneLost, SameFates, NothingMoves

\* The Dialer is a channel that brings a message to each addressee at most once,
\* in any order, or loses it: retries double nothing, and what is given up never
\* comes back.
THEOREM ImplementsChannel == Spec => IsChannel
<1>1. Init => Channel!Init
  <2> SUFFICES ASSUME Init PROVE Fates = [c \in Msg \X Listener |-> "unsent"]
    BY DEF Channel!Init, Fates
  <2>1. /\ preparing = {} /\ queue = <<>> /\ current = NoEntry /\ timers = {}
        /\ \A p \in Listener : posted[p] = <<>> /\ inbox[p] = <<>>
        /\ \A p \in Listener, s \in Stream : wire[p][s] = <<>>
    BY DEF Init
  <2>2. \A m \in Msg, p \in Listener : FateOf(m, p) = "unsent"
    BY <2>1 DEF FateOf, Waiting, OnWire, Arrived, Sent
  <2> QED
    BY <2>2 DEF Fates
<1>2. CopyInv /\ CopyInv' /\ [Next]_vars =>
        [Channel!Next]_[c \in Msg \X Listener |-> FateOf(c[1], c[2])]
  BY ChannelStep DEF Fates
<1> QED
  BY <1>1, <1>2, CopyAlways, PTL DEF Spec, IsChannel, Channel!Spec

-----------------------------------------------------------------------------
(* Loss.  Everything on a stream that is not the open one was on its way   *)
(* when that stream broke, and so was what such a stream was found for: a  *)
(* new stream carries nothing yet, and only the newest is pushed into.     *)

CutInv ==
  /\ \A p \in Listener : \A s \in Stream : s # open[p] =>
       \A i \in 1..Len(wire[p][s]) : <<wire[p][s][i].msg, p>> \in cut
  /\ found # 0 /\ found # open[current.to] => <<current.msg, current.to>> \in cut

\* A stream breaks: what it carried is cut, and the rest was cut before.
LEMMA BreakCuts ==
  ASSUME TypeInv, CutInv, NEW p \in Listener,
         open' = [open EXCEPT ![p] = 0], cut' = cut \cup (Carried(p) \X {p}),
         UNCHANGED <<wire, found, current>>
  PROVE  CutInv'
<1>t. /\ open \in [Listener -> {0} \cup Stream] /\ wire \in [Listener -> [Stream -> Seq(Packet)]]
      /\ found \in {0} \cup Stream /\ (found # 0 => current \in Entry)
      /\ \A q \in Listener : open'[q] = IF q = p THEN 0 ELSE open[q]
  BY DEF TypeInv, TypeOK, RouteInv
<1>1. ASSUME NEW q \in Listener, NEW s \in Stream, s # open'[q], NEW i \in 1..Len(wire'[q][s])
      PROVE  <<wire'[q][s][i].msg, q>> \in cut'
  <2>1. CASE s # open[q]
    BY <1>1, <2>1 DEF CutInv
  <2>2. CASE s = open[q]
    <3>1. q = p
      BY <1>t, <1>1, <2>2
    <3>2. wire[q][s] \in Seq(Packet) /\ i \in 1..Len(wire[q][s])
      BY <1>t, <1>1
    <3>3. wire[q][s][i] \in Packet
      BY <3>2
    <3>4. wire[q][s][i].msg \in Carried(p)
      BY <2>2, <3>1, <3>2, <3>3 DEF Carried, Packet
    <3> QED
      BY <3>1, <3>4
  <2> QED
    BY <2>1, <2>2
<1>2. ASSUME found # 0, found # open'[current.to] PROVE <<current.msg, current.to>> \in cut'
  <2>1. current.msg \in Msg /\ current.to \in Listener
    BY <1>t, <1>2 DEF Entry
  <2>2. CASE found # open[current.to]
    BY <1>2, <2>2 DEF CutInv
  <2>3. CASE found = open[current.to]
    <3>1. current.to = p /\ found \in Stream
      BY <1>t, <1>2, <2>1, <2>3
    <3>2. current.msg \in Carried(p)
      BY <2>1, <2>3, <3>1 DEF Carried
    <3> QED
      BY <3>1, <3>2
  <2> QED
    BY <2>2, <2>3
<1> QED
  BY <1>1, <1>2 DEF CutInv

LEMMA CutStep == TypeInv /\ TypeInv' /\ CutInv /\ [Next]_vars => CutInv'
<1> SUFFICES ASSUME TypeInv, TypeInv', CutInv, [Next]_vars PROVE CutInv'
  OBVIOUS
<1>t. wire \in [Listener -> [Stream -> Seq(Packet)]]
  BY DEF TypeInv, TypeOK
<1>1. ASSUME NEW p \in Peer, Disconnect(p) PROVE CutInv'
  <2>1. UNCHANGED <<wire, found, current>>
    BY <1>1 DEF Disconnect, outgoing
  <2>2. CASE p \in Relay
    <3>1. UNCHANGED <<open, cut>>
      BY <1>1, <2>2 DEF Disconnect
    <3> QED
      BY <2>1, <3>1 DEF CutInv
  <2>3. CASE p \notin Relay
    BY <1>1, <2>1, <2>3, BreakCuts DEF Disconnect, Peer
  <2> QED
    BY <2>2, <2>3
<1>2. ASSUME NEW p \in Listener, CloseStream(p) PROVE CutInv'
  BY <1>2, BreakCuts DEF CloseStream, outgoing
<1>3. ASSUME ReuseStream \/ OpenStream PROVE CutInv'
  <2>1. LET p == current.to
            s == open'[p] IN
        /\ p \in Listener /\ s \in Stream /\ found' = s /\ s = opened'[p]
        /\ \A q \in Listener : q # p => open'[q] = open[q]
        /\ open[p] # 0 => s = open[p]
        /\ open[p] = 0 => s = opened[p] + 1
        /\ UNCHANGED <<current, wire, cut>>
    BY <1>3, Finding DEF outgoing
  <2>2. ASSUME NEW q \in Listener, NEW t \in Stream, t # open'[q],
               NEW i \in 1..Len(wire'[q][t])
        PROVE  <<wire'[q][t][i].msg, q>> \in cut'
    <3>1. t # open[q]
      BY <2>1, <2>2, Bounds
    <3> QED
      BY <2>1, <2>2, <3>1 DEF CutInv
  <2> QED
    BY <2>1, <2>2 DEF CutInv
<1>4. ASSUME PushFound PROVE CutInv'
  <2> DEFINE r == current.to
             packet == [msg |-> current.msg, retries |-> current.retries]
  <2>1. /\ current \in Entry /\ r \in Listener /\ found \in Stream
        /\ PushInto(r, found) /\ (route[r] = found \/ found \notin piped[r])
        /\ found' = 0 /\ UNCHANGED <<open, cut>>
    BY <1>4, Pushing
  <2>2. /\ wire'[r][found] = Append(wire[r][found], packet) /\ packet \in Packet
        /\ \A q \in Listener, t \in Stream : q # r \/ t # found => wire'[q][t] = wire[q][t]
    BY <2>1, Pushed
  <2>3. packet.msg = current.msg
    OBVIOUS
  <2> HIDE DEF packet
  <2>4. Extends(wire'[r][found], wire[r][found], packet)
    <3>1. wire[r][found] \in Seq(Packet)
      BY <1>t, <2>1
    <3> QED
      BY <2>2, <3>1, AppendExtends
  <2>5. ASSUME NEW q \in Listener, NEW t \in Stream, t # open[q],
               NEW i \in 1..Len(wire'[q][t])
        PROVE  <<wire'[q][t][i].msg, q>> \in cut
    <3>1. CASE q # r \/ t # found
      <4>1. wire'[q][t] = wire[q][t]
        BY <2>2, <3>1
      <4> QED
        BY <2>5, <4>1 DEF CutInv
    <3>2. CASE q = r /\ t = found
      <4>1. CASE i \in 1..Len(wire[r][found]) /\ wire'[r][found][i] = wire[r][found][i]
        BY <2>5, <3>2, <4>1 DEF CutInv
      <4>2. CASE wire'[r][found][i] = packet
        <5>1. <<current.msg, r>> \in cut
          BY <2>1, <2>5, <3>2, Bounds DEF CutInv
        <5> QED
          BY <2>3, <3>2, <4>2, <5>1
      <4> QED
        BY <2>4, <2>5, <3>2, <4>1, <4>2 DEF Extends
    <3> QED
      BY <3>1, <3>2
  <2> QED
    BY <2>1, <2>5 DEF CutInv
\* what is on the wires then was there before
<1>5. ASSUME UNCHANGED <<open, cut>>, found' = 0 \/ UNCHANGED <<found, current>>,
             \A q \in Listener : \A t \in Stream : \A i \in 1..Len(wire'[q][t]) :
               \E k \in 1..Len(wire[q][t]) : wire'[q][t][i] = wire[q][t][k]
      PROVE  CutInv'
  BY <1>5 DEF CutInv
<1>6. ASSUME NEW p \in Listener, NEW s \in Stream, ReadMessage(p, s) \/ LoseMessages(p, s)
      PROVE  CutInv'
  <2>1. UNCHANGED <<open, cut, found, current>>
    BY <1>6 DEF ReadMessage, LoseMessages, outgoing, streams
  <2>2. ASSUME NEW q \in Listener, NEW t \in Stream, NEW i \in 1..Len(wire'[q][t])
        PROVE  \E k \in 1..Len(wire[q][t]) : wire'[q][t][i] = wire[q][t][k]
    <3>1. CASE q # p \/ t # s
      <4>1. wire'[q][t] = wire[q][t]
        BY <1>6, <3>1, Reading, Losing
      <4> QED
        BY <2>2, <4>1
    <3>2. CASE q = p /\ t = s
      <4>1. CASE ReadMessage(p, s)
        <5>1. Shortens(wire'[p][s], wire[p][s])
          BY <4>1, Reading
        <5> QED
          BY <2>2, <3>2, <5>1 DEF Shortens
      <4>2. CASE LoseMessages(p, s)
        <5>1. wire'[p][s] = <<>>
          BY <4>2, Losing
        <5> QED
          BY <2>2, <3>2, <5>1
      <4> QED
        BY <1>6, <4>1, <4>2
    <3> QED
      BY <3>1, <3>2
  <2> QED
    BY <1>5, <2>1, <2>2
<1>7. CASE UNCHANGED wire /\ UNCHANGED <<open, cut, found>> /\ (found = 0 \/ current' = current)
  BY <1>7 DEF CutInv
<1>8. ASSUME ~\E p \in Peer : Disconnect(p), ~\E p \in Listener : CloseStream(p),
             ~(ReuseStream \/ OpenStream \/ PushFound),
             ~\E p \in Listener, s \in Stream : ReadMessage(p, s) \/ LoseMessages(p, s)
      PROVE  UNCHANGED wire /\ UNCHANGED <<open, cut, found>> /\ (found = 0 \/ current' = current)
  BY <1>8 DEF Next, vars, NodeStarts, StartFails, Connect, RemovePeer, Discover, ReaddRelay,
     SendTo, PushMessage, Broadcast, TakeMessage, DialPeer, RetryOrDrop, TimerFires, Subscribe,
     outgoing, streams, TypeInv, RouteInv
<1> QED
  BY <1>1, <1>2, <1>3, <1>4, <1>6, <1>7, <1>8

\* The message that is lost was on its way, and the step took it from there.
LEMMA LossByPlace ==
  ASSUME NEW m \in Msg, NEW p \in Listener, FateOf(m, p) = "underway", FateOf(m, p)' = "lost"
  PROVE  UnderWay(m, p) /\ ~UnderWay(m, p)' /\ ~Same(m, p) /\ ~Arrived(m, p)'
<1>1. UnderWay(m, p) <=> Waiting(m, p) \/ OnWire(m, p)
  BY Places DEF UnderWay
<1>2. UnderWay(m, p)' <=> Waiting(m, p)' \/ OnWire(m, p)'
  BY <1>1, Places, PTL DEF UnderWay
<1> QED
  BY <1>1, <1>2 DEF FateOf, Same

\* A message is lost only when its last retry failed, or when the stream that
\* carried it, or was found for it, broke.
THEOREM LossForCause == Spec => LostForCause
<1>1. ASSUME CopyInv, CutInv, [Next]_vars, NEW m \in Msg, NEW p \in Listener,
             FateOf(m, p) = "underway", FateOf(m, p)' = "lost"
      PROVE  \/ <<m, p>> \in cut
             \/ /\ current # NoEntry /\ current.msg = m /\ current.to = p
                /\ found = 0 /\ current.retries = MaxRetries
  <2>1. UnderWay(m, p) /\ ~UnderWay(m, p)' /\ ~Same(m, p) /\ ~Arrived(m, p)'
    BY <1>1, LossByPlace
  <2>2. CASE \E n \in Msg : SendTo(n) \/ Broadcast(n)
    <3>1. UnderWay(m, p)'
      BY <1>1, <2>1, <2>2, StartMoves, BroadcastMoves, Unmoved DEF UnderWay
    <3> QED
      BY <2>1, <3>1
  <2>3. CASE \/ \E n \in Msg : PushMessage(n)
             \/ TakeMessage \/ PushFound \/ \E e \in timers : TimerFires(e)
             \/ UNCHANGED <<outgoing, wire, inbox>>
    BY <1>1, <2>1, <2>3, NoneLost
  <2>4. CASE RetryOrDrop
    <3>1. /\ current \in Entry
          /\ \A n \in Msg, q \in Listener :
               LET it == n = current.msg /\ q = current.to IN
               /\ AtWork(n, q) <=> it
               /\ ~AtWork(n, q)'
               /\ InTimers(n, q)' <=>
                    InTimers(n, q) \/ (it /\ current.retries + 1 <= MaxRetries)
          /\ UNCHANGED <<preparing, queue, posted, wire, inbox>>
      BY <1>1, <2>4, RetryMoves
    <3>2. m = current.msg /\ p = current.to /\ ~(current.retries + 1 <= MaxRetries)
      BY <2>1, <3>1, Unmoved DEF UnderWay
    <3>3. current.retries = MaxRetries
      BY <3>1, <3>2, Bounds DEF Entry
    <3> QED
      BY <2>4, <3>2, <3>3 DEF RetryOrDrop
  <2>5. ASSUME NEW r \in Listener, NEW s \in Stream, ReadMessage(r, s) PROVE FALSE
    <3>1. \A n \in Msg, q \in Listener :
            /\ OnWire(n, q)' <=> OnWire(n, q) /\ ~(n = wire[r][s][1].msg /\ q = r)
            /\ Arrived(n, q)' <=> Arrived(n, q) \/ (n = wire[r][s][1].msg /\ q = r)
      BY <1>1, <2>5, ReadMoves
    <3>2. UNCHANGED <<preparing, queue, current, timers, posted>>
      BY <1>1, <2>5, ReadMoves
    <3> QED
      BY <2>1, <3>1, <3>2, Unmoved DEF UnderWay
  <2>6. ASSUME NEW r \in Listener, NEW s \in Stream, LoseMessages(r, s)
        PROVE  <<m, p>> \in cut
    <3> DEFINE Aboard(n) == \E i \in 1..Len(wire[r][s]) : wire[r][s][i].msg = n
    <3>1. /\ \A n \in Msg, q \in Listener : OnWire(n, q)' <=> OnWire(n, q) /\ ~(q = r /\ Aboard(n))
          /\ UNCHANGED <<preparing, queue, current, timers, posted, inbox>>
      BY <1>1, <2>6, LoseMoves
    <3> HIDE DEF Aboard
    <3>2. p = r /\ Aboard(m)
      BY <2>1, <3>1, Unmoved DEF UnderWay
    <3>3. s # open[r]
      BY <2>6 DEF LoseMessages
    <3> QED
      BY <1>1, <3>2, <3>3 DEF CutInv, Aboard
  <2> QED
    BY <1>1, <2>2, <2>3, <2>4, <2>5, <2>6, NothingMoves
<1>2. CopyInv => TypeInv
  BY DEF CopyInv
<1>3. Init => CutInv
  BY DEF Init, CutInv
<1>4. Spec => [](CopyInv /\ CutInv)
  BY <1>2, <1>3, CutStep, CopyAlways, PTL DEF Spec
<1>5. CopyInv /\ CutInv /\ [Next]_vars =>
        [\A m \in Msg, p \in Listener :
           FateOf(m, p) = "underway" /\ FateOf(m, p)' = "lost" =>
             \/ <<m, p>> \in cut
             \/ /\ current # NoEntry /\ current.msg = m /\ current.to = p
                /\ found = 0 /\ current.retries = MaxRetries]_vars
  BY <1>1
<1> QED
  BY <1>4, <1>5, PTL DEF Spec, LostForCause

-----------------------------------------------------------------------------
(* Overtaking.  m was posted to p before n, and was not retried so far:    *)
(* then n is behind it, or further on in a stream that is newer.           *)

\* n waits behind m
QueueOrder(m, n, p) == \A k \in 1..Len(queue) :
  queue[k].msg = m /\ queue[k].to = p /\ queue[k].retries = 0 =>
    \E l \in 1..Len(queue) : k < l /\ queue[l].msg = n /\ queue[l].to = p

\* and waits still when m has been taken
WorkOrder(m, n, p) == AtWork(m, p) /\ current.retries = 0 => InQueue(n, p)

WireOrder(m, n, p) == \A s \in Stream : \A k \in 1..Len(wire[p][s]) :
  wire[p][s][k].msg = m /\ wire[p][s][k].retries = 0 =>
    /\ \A t \in Stream : \A l \in 1..Len(wire[p][t]) :
         wire[p][t][l].msg = n => s < t \/ (s = t /\ k < l)
    /\ \A i \in 1..Len(inbox[p]) : inbox[p][i].msg = n => s < inbox[p][i].via

InboxOrder(m, n, p) == \A i, j \in 1..Len(inbox[p]) :
  i < j /\ inbox[p][j].msg = m /\ inbox[p][i].msg = n /\ inbox[p][j].retries = 0
    => inbox[p][j].via < inbox[p][i].via

Ordered(m, n, p) == QueueOrder(m, n, p) /\ WorkOrder(m, n, p) /\ WireOrder(m, n, p)
                    /\ InboxOrder(m, n, p)

OrderInv ==
  /\ \A e \in timers : e.retries > 0
  /\ \A m, n \in Msg, p \in Listener : PostedBefore(m, n, p) => Ordered(m, n, p)

LEMMA BeforePosted ==
  ASSUME NEW m, NEW n, NEW p, PostedBefore(m, n, p)
  PROVE  Posted(m, p) /\ Posted(n, p)
BY DEF PostedBefore, Posted

\* What comes last was posted after everything that was there.
LEMMA BeforeExtended ==
  ASSUME CopyInv, NEW x \in Msg, NEW p \in Listener, ~Posted(x, p),
         Extends(posted'[p], posted[p], x), NEW m \in Msg, NEW n \in Msg,
         PostedBefore(m, n, p)'
  PROVE  PostedBefore(m, n, p) \/ (n = x /\ Posted(m, p))
<1>1. PICK i \in 1..Len(posted'[p]), j \in 1..Len(posted'[p]) :
        i < j /\ posted'[p][i] = m /\ posted'[p][j] = n
  BY DEF PostedBefore
<1>2. Len(posted[p]) \in Nat
  BY DEF CopyInv, TypeInv, TypeOK
<1>3. i \in 1..Len(posted[p]) /\ posted[p][i] = m
  <2>1. \/ i \in 1..Len(posted[p]) /\ posted'[p][i] = posted[p][i]
        \/ i = Len(posted[p]) + 1
    BY DEF Extends
  <2>2. j \in 1..Len(posted[p]) \/ j = Len(posted[p]) + 1
    BY DEF Extends
  <2>3. i # Len(posted[p]) + 1
    BY <1>1, <1>2, <2>2
  <2> QED
    BY <1>1, <2>1, <2>3
<1>4. \/ j \in 1..Len(posted[p]) /\ posted[p][j] = n
      \/ n = x
  BY <1>1 DEF Extends
<1> QED
  BY <1>1, <1>3, <1>4 DEF PostedBefore, Posted

\* x joins the queue for those of P.
LEMMA JoinOrder ==
  ASSUME CopyInv, OrderInv, NEW x \in Msg, NEW P \in SUBSET Listener,
         Joined(queue', queue),
         \A i \in 1..Len(queue') : i \notin 1..Len(queue) =>
           queue'[i].msg = x /\ queue'[i].to \in P,
         \A p \in P : /\ ~Posted(x, p) /\ InQueue(x, p)' /\ ~InQueue(x, p)
                      /\ Extends(posted'[p], posted[p], x),
         \A p \in Listener \ P : posted'[p] = posted[p],
         UNCHANGED <<current, timers, wire, inbox>>
  PROVE  OrderInv'
<1>1. ASSUME NEW m \in Msg, NEW n \in Msg, NEW p \in Listener, PostedBefore(m, n, p)'
      PROVE  Ordered(m, n, p)'
  <2>1. PostedBefore(m, n, p) \/ (p \in P /\ n = x /\ Posted(m, p))
    <3>1. CASE p \in P
      BY <1>1, <3>1, BeforeExtended
    <3>2. CASE p \notin P
      BY <1>1, <3>2 DEF PostedBefore
    <3> QED
      BY <3>1, <3>2
  <2>2. ~(m = x /\ p \in P)
    BY <2>1, BeforePosted
  <2>3. \A k \in 1..Len(queue') : queue'[k].msg = m /\ queue'[k].to = p =>
          k \in 1..Len(queue) /\ queue'[k] = queue[k]
    BY <2>2 DEF Joined
  <2>4. CASE PostedBefore(m, n, p)
    <3>1. Ordered(m, n, p)
      BY <2>4 DEF OrderInv
    <3>2. QueueOrder(m, n, p)'
      BY <2>3, <3>1 DEF Ordered, QueueOrder, Joined
    <3>3. WorkOrder(m, n, p)'
      <4>1. InQueue(n, p) => InQueue(n, p)'
        BY DEF InQueue, Joined
      <4> QED
        BY <3>1, <4>1, Unmoved DEF Ordered, WorkOrder
    <3>4. WireOrder(m, n, p)' /\ InboxOrder(m, n, p)'
      BY <3>1 DEF Ordered, WireOrder, InboxOrder
    <3> QED
      BY <3>2, <3>3, <3>4 DEF Ordered
  <2>5. CASE p \in P /\ n = x /\ Posted(m, p)
    <3>1. QueueOrder(m, n, p)'
      <4>1. PICK l \in 1..Len(queue') : queue'[l].msg = n /\ queue'[l].to = p
        BY <2>5 DEF InQueue
      <4>2. l \notin 1..Len(queue)
        BY <2>5, <4>1 DEF InQueue, Joined
      <4> QED
        BY <2>3, <4>1, <4>2 DEF QueueOrder, Joined
    <3>2. WorkOrder(m, n, p)'
      BY <2>5 DEF WorkOrder
    <3>3. ~OnWire(n, p) /\ ~Arrived(n, p)
      BY <2>5 DEF CopyInv, OnePlace
    <3>4. WireOrder(m, n, p)' /\ InboxOrder(m, n, p)'
      BY <3>3 DEF WireOrder, InboxOrder, OnWire, Arrived
    <3> QED
      BY <3>1, <3>2, <3>4 DEF Ordered
  <2> QED
    BY <2>1, <2>4, <2>5
<1>2. \A e \in timers' : e.retries > 0
  BY DEF OrderInv
<1> QED
  BY <1>1, <1>2 DEF OrderInv

\* The order of a pair that was posted before, after a step of the loop or the
\* listeners
LEMMA StepOrder ==
  ASSUME CopyInv, OrderInv, posted' = posted, \A e \in timers' : e.retries > 0,
         \A m, n \in Msg, p \in Listener :
           Posted(m, p) /\ Posted(n, p) /\ Ordered(m, n, p) => Ordered(m, n, p)'
  PROVE  OrderInv'
<1> SUFFICES ASSUME NEW m \in Msg, NEW n \in Msg, NEW p \in Listener, PostedBefore(m, n, p)'
             PROVE  Ordered(m, n, p)'
  BY DEF OrderInv
<1>1. PostedBefore(m, n, p)
  BY DEF PostedBefore
<1> QED
  BY <1>1, BeforePosted DEF OrderInv

LEMMA TakeOrder == CopyInv /\ OrderInv /\ TakeMessage => OrderInv'
<1> SUFFICES ASSUME CopyInv, OrderInv, TakeMessage PROVE OrderInv'
  OBVIOUS
<1>1. /\ current' = queue[1] /\ Shortens(queue', queue) /\ queue[1] \in Entry
      /\ UNCHANGED <<timers, posted, wire, inbox>>
  BY TakeMoves
<1>2. ASSUME NEW m \in Msg, NEW n \in Msg, NEW p \in Listener, Ordered(m, n, p)
      PROVE  Ordered(m, n, p)'
  <2>1. WireOrder(m, n, p)' /\ InboxOrder(m, n, p)'
    BY <1>1, <1>2 DEF Ordered, WireOrder, InboxOrder
  <2>2. QueueOrder(m, n, p)'
    <3> SUFFICES ASSUME NEW k \in 1..Len(queue'), queue'[k].msg = m, queue'[k].to = p,
                        queue'[k].retries = 0
                 PROVE  \E l \in 1..Len(queue') : k < l /\ queue'[l].msg = n /\ queue'[l].to = p
      BY DEF QueueOrder
    <3>1. k + 1 \in 1..Len(queue) /\ queue'[k] = queue[k + 1]
      BY <1>1 DEF Shortens
    <3>2. PICK l \in 1..Len(queue) : k + 1 < l /\ queue[l].msg = n /\ queue[l].to = p
      BY <1>2, <3>1 DEF Ordered, QueueOrder
    <3>3. l # 1 /\ k < l - 1
      BY <3>2
    <3>4. l - 1 \in 1..Len(queue') /\ queue'[l - 1] = queue[l]
      BY <1>1, <3>3 DEF Shortens
    <3> QED
      BY <3>2, <3>3, <3>4
  <2>3. WorkOrder(m, n, p)'
    <3> SUFFICES ASSUME AtWork(m, p)', queue[1].retries = 0 PROVE InQueue(n, p)'
      BY <1>1 DEF WorkOrder
    <3>1. queue[1].msg = m /\ queue[1].to = p /\ 1 \in 1..Len(queue)
      BY <1>1 DEF AtWork, Shortens
    <3>2. PICK l \in 1..Len(queue) : 1 < l /\ queue[l].msg = n /\ queue[l].to = p
      BY <1>2, <3>1 DEF Ordered, QueueOrder
    <3>3. l - 1 \in 1..Len(queue') /\ queue'[l - 1] = queue[l]
      BY <1>1, <3>2 DEF Shortens
    <3> QED
      BY <3>2, <3>3 DEF InQueue
  <2> QED
    BY <2>1, <2>2, <2>3 DEF Ordered
<1> QED
  BY <1>1, <1>2, StepOrder DEF OrderInv

LEMMA PushOrder == CopyInv /\ OrderInv /\ PushFound => OrderInv'
<1> SUFFICES ASSUME CopyInv, OrderInv, PushFound PROVE OrderInv'
  OBVIOUS
<1> DEFINE r == current.to
           s == found
           packet == [msg |-> current.msg, retries |-> current.retries]
<1>t. TypeInv
  BY DEF CopyInv
<1>1. /\ current \in Entry /\ r \in Listener /\ s \in Stream /\ s = opened[r]
      /\ PushInto(r, s) /\ (route[r] = s \/ s \notin piped[r])
      /\ current' = NoEntry
      /\ UNCHANGED <<queue, timers, posted, inbox>>
  BY <1>t, Pushing DEF outgoing, incoming
<1>2. /\ packet.msg = current.msg /\ packet.retries = current.retries /\ current' = NoEntry
      /\ wire \in [Listener -> [Stream -> Seq(Packet)]]
      /\ Extends(wire'[r][s], wire[r][s], packet)
      /\ \A q \in Listener, t \in Stream : q # r \/ t # s => wire'[q][t] = wire[q][t]
  <2>1. wire \in [Listener -> [Stream -> Seq(Packet)]]
    BY <1>t DEF TypeInv, TypeOK
  <2>2. packet.msg = current.msg /\ packet.retries = current.retries
    OBVIOUS
  <2> HIDE DEF r, s
  <2>3. /\ packet \in Packet
        /\ wire'[r][s] = Append(wire[r][s], packet)
        /\ \A q \in Listener, t \in Stream : q # r \/ t # s => wire'[q][t] = wire[q][t]
    BY <1>1, <1>t, Pushed
  <2> HIDE DEF packet
  <2>4. wire[r][s] \in Seq(Packet)
    BY <1>1, <2>1
  <2>5. Extends(wire'[r][s], wire[r][s], packet)
    BY <2>3, <2>4, AppendExtends
  <2> QED
    BY <1>1, <2>1, <2>2, <2>3, <2>5
<1>3. \A t \in Stream : \A k \in 1..Len(wire[r][t]) : t <= s
  <2> SUFFICES ASSUME NEW t \in Stream, NEW k \in 1..Len(wire[r][t]) PROVE t <= s
    OBVIOUS
  <2>1. wire[r][t] # <<>>
    OBVIOUS
  <2>2. ~(t > opened[r])
    BY <1>1, <1>t, <2>1 DEF TypeInv, StreamsInv
  <2>3. opened[r] \in Nat /\ t \in Nat /\ s \in Nat
    BY <1>1, <1>t, StreamNumbers, Bounds DEF TypeInv
  <2> QED
    BY <1>1, <2>2, <2>3
<1>4. AtWork(current.msg, r)
  BY <1>1, Bounds DEF AtWork
<1> HIDE DEF r, s, packet
\* the packets of a guard: those that were there, and the new one behind them
<1>5. ASSUME NEW p \in Listener, NEW t \in Stream, NEW k \in 1..Len(wire'[p][t])
      PROVE  \/ k \in 1..Len(wire[p][t]) /\ wire'[p][t][k] = wire[p][t][k]
             \/ p = r /\ t = s /\ k = Len(wire[r][s]) + 1 /\ wire'[p][t][k] = packet
  BY <1>1, <1>2, <1>5 DEF Extends
<1>6. ASSUME NEW m \in Msg, NEW n \in Msg, NEW p \in Listener, Ordered(m, n, p)
      PROVE  Ordered(m, n, p)'
  <2>1. QueueOrder(m, n, p)' /\ InboxOrder(m, n, p)'
    BY <1>1, <1>6 DEF Ordered, QueueOrder, InboxOrder
  <2>2. WorkOrder(m, n, p)'
    BY <1>2 DEF WorkOrder, AtWork
  <2>3. WireOrder(m, n, p)'
    <3> SUFFICES ASSUME NEW u \in Stream, NEW k \in 1..Len(wire'[p][u]),
                        wire'[p][u][k].msg = m, wire'[p][u][k].retries = 0
                 PROVE  /\ \A t \in Stream : \A l \in 1..Len(wire'[p][t]) :
                             wire'[p][t][l].msg = n => u < t \/ (u = t /\ k < l)
                        /\ \A i \in 1..Len(inbox[p]) : inbox[p][i].msg = n => u < inbox[p][i].via
      BY <1>1 DEF WireOrder
    <3>1. CASE k \in 1..Len(wire[p][u]) /\ wire'[p][u][k] = wire[p][u][k]
      <4>1. /\ \A t \in Stream : \A l \in 1..Len(wire[p][t]) :
                 wire[p][t][l].msg = n => u < t \/ (u = t /\ k < l)
            /\ \A i \in 1..Len(inbox[p]) : inbox[p][i].msg = n => u < inbox[p][i].via
        BY <1>6, <3>1 DEF Ordered, WireOrder
      <4>2. ASSUME NEW t \in Stream, NEW l \in 1..Len(wire'[p][t]), wire'[p][t][l].msg = n
            PROVE  u < t \/ (u = t /\ k < l)
        <5>1. CASE l \in 1..Len(wire[p][t]) /\ wire'[p][t][l] = wire[p][t][l]
          BY <4>1, <4>2, <5>1
        <5>2. CASE p = r /\ t = s /\ l = Len(wire[r][s]) + 1
          <6>1. u <= s /\ u \in Nat /\ s \in Nat
            BY <1>1, <1>3, <3>1, <5>2, Bounds
          <6>2. u = s => k < l
            BY <1>2, <3>1, <5>2 DEF Extends
          <6> QED
            BY <5>2, <6>1, <6>2
        <5> QED
          BY <1>5, <5>1, <5>2
      <4> QED
        BY <4>1, <4>2
    <3>2. CASE p = r /\ u = s /\ k = Len(wire[r][s]) + 1 /\ wire'[p][u][k] = packet
      <4>1. m = current.msg /\ current.retries = 0
        BY <1>2, <3>2
      <4>2. InQueue(n, r)
        BY <1>4, <1>6, <3>2, <4>1 DEF Ordered, WorkOrder
      <4>3. ~AtWork(n, r) /\ ~OnWire(n, r) /\ ~Arrived(n, r)
        BY <1>1, <4>2 DEF CopyInv, OnePlace
      <4>4. packet.msg # n
        BY <1>2, <1>4, <4>3
      <4>5. ASSUME NEW t \in Stream, NEW l \in 1..Len(wire'[r][t]) PROVE wire'[r][t][l].msg # n
        <5>1. l \in 1..Len(wire[r][t]) => wire[r][t][l].msg # n
          BY <4>3 DEF OnWire
        <5> QED
          BY <1>1, <1>5, <4>4, <5>1
      <4>6. \A i \in 1..Len(inbox[r]) : inbox[r][i].msg # n
        BY <4>3 DEF Arrived
      <4> QED
        BY <3>2, <4>5, <4>6
    <3> QED
      BY <1>5, <3>1, <3>2
  <2> QED
    BY <2>1, <2>2, <2>3 DEF Ordered
<1> QED
  BY <1>1, <1>6, StepOrder DEF OrderInv

LEMMA RetryOrder == CopyInv /\ OrderInv /\ RetryOrDrop => OrderInv'
<1> SUFFICES ASSUME CopyInv, OrderInv, RetryOrDrop PROVE OrderInv'
  OBVIOUS
<1>1. /\ current' = NoEntry /\ current \in Entry
      /\ UNCHANGED <<queue, posted, wire, inbox>>
  BY RetryMoves DEF RetryOrDrop
<1>2. \A e \in timers' : e.retries > 0
  <2>1. current.retries \in Nat
    BY <1>1, Bounds DEF Entry
  <2>2. PICK e : e = [current EXCEPT !.retries = current.retries + 1]
    OBVIOUS
  <2>3. timers' = timers \/ timers' = timers \cup {e}
    BY <2>2 DEF RetryOrDrop
  <2>4. e.retries > 0
    BY <1>1, <2>1, <2>2 DEF Entry
  <2> QED
    BY <2>3, <2>4 DEF OrderInv
<1>3. ASSUME NEW m \in Msg, NEW n \in Msg, NEW p \in Listener, Ordered(m, n, p)
      PROVE  Ordered(m, n, p)'
  BY <1>1, <1>3 DEF Ordered, QueueOrder, WorkOrder, WireOrder, InboxOrder, AtWork
<1> QED
  BY <1>1, <1>2, <1>3, StepOrder

LEMMA TimerOrder ==
  ASSUME CopyInv, OrderInv, NEW e \in timers, TimerFires(e)
  PROVE  OrderInv'
<1>1. /\ Extends(queue', queue, e)
      /\ UNCHANGED <<current, posted, wire, inbox>>
  BY TimerMoves
<1>2. (\A f \in timers' : f.retries > 0) /\ e.retries # 0
  <2>1. timers' \subseteq timers
    BY DEF TimerFires
  <2> QED
    BY <2>1 DEF OrderInv
<1>3. ASSUME NEW m \in Msg, NEW n \in Msg, NEW p \in Listener, Ordered(m, n, p)
      PROVE  Ordered(m, n, p)'
  <2>1. WireOrder(m, n, p)' /\ InboxOrder(m, n, p)'
    BY <1>1, <1>3 DEF Ordered, WireOrder, InboxOrder
  <2>2. WorkOrder(m, n, p)'
    <3>1. InQueue(n, p) => InQueue(n, p)'
      BY <1>1 DEF InQueue, Extends
    <3> QED
      BY <1>1, <1>3, <3>1, Unmoved DEF Ordered, WorkOrder
  <2>3. QueueOrder(m, n, p)'
    <3> SUFFICES ASSUME NEW k \in 1..Len(queue'), queue'[k].msg = m, queue'[k].to = p,
                        queue'[k].retries = 0
                 PROVE  \E l \in 1..Len(queue') : k < l /\ queue'[l].msg = n /\ queue'[l].to = p
      BY DEF QueueOrder
    <3>1. k \in 1..Len(queue) /\ queue'[k] = queue[k]
      BY <1>1, <1>2 DEF Extends
    <3>2. PICK l \in 1..Len(queue) : k < l /\ queue[l].msg = n /\ queue[l].to = p
      BY <1>3, <3>1 DEF Ordered, QueueOrder
    <3> QED
      BY <1>1, <3>2 DEF Extends
  <2> QED
    BY <2>1, <2>2, <2>3 DEF Ordered
<1> QED
  BY <1>1, <1>2, <1>3, StepOrder DEF TimerFires

LEMMA ReadOrder ==
  ASSUME CopyInv, OrderInv, NEW r \in Listener, NEW s \in Stream, ReadMessage(r, s)
  PROVE  OrderInv'
<1>t. TypeInv
  BY DEF CopyInv
<1>1. /\ Shortens(wire'[r][s], wire[r][s]) /\ Len(wire[r][s]) \in Nat
      /\ \A q \in Listener, t \in Stream : q # r \/ t # s => wire'[q][t] = wire[q][t]
  BY <1>t, Reading
<1>2. PICK item : /\ item.msg = wire[r][s][1].msg /\ item.retries = wire[r][s][1].retries
                  /\ item.via = s /\ Extends(inbox'[r], inbox[r], item)
  BY <1>t, Arriving
<1>3. \A q \in Listener : q # r => inbox'[q] = inbox[q]
  BY <1>t, Arriving
<1>4. UNCHANGED <<queue, current, timers, posted>>
  BY ReadMoves
<1>5. 1 \in 1..Len(wire[r][s]) /\ s \in Nat
  BY <1>1, Bounds DEF Shortens
\* where the packets were before
<1> DEFINE was(p, t, k) == IF p = r /\ t = s THEN k + 1 ELSE k
<1>6. ASSUME NEW p \in Listener, NEW t \in Stream, NEW k \in 1..Len(wire'[p][t])
      PROVE  /\ was(p, t, k) \in 1..Len(wire[p][t])
             /\ wire'[p][t][k] = wire[p][t][was(p, t, k)]
  <2>1. CASE p = r /\ t = s
    BY <1>1, <1>6, <2>1 DEF Shortens
  <2>2. CASE ~(p = r /\ t = s)
    <3>1. wire'[p][t] = wire[p][t] /\ was(p, t, k) = k
      BY <1>1, <2>2
    <3> QED
      BY <1>6, <3>1
  <2> QED
    BY <2>1, <2>2
<1>7. ASSUME NEW p \in Listener, NEW t \in Stream,
             NEW k \in 1..Len(wire'[p][t]), NEW l \in 1..Len(wire'[p][t]),
             was(p, t, k) < was(p, t, l)
      PROVE  k < l
  BY <1>7
<1>8. ASSUME NEW p \in Listener, NEW t \in Stream, NEW k \in 1..Len(wire'[p][t])
      PROVE  was(p, t, k) \in Nat /\ (p = r /\ t = s => was(p, t, k) > 1)
  BY <1>8
<1> HIDE DEF was
\* what had arrived before, and what arrives now
<1>9. ASSUME NEW p \in Listener, NEW i \in 1..Len(inbox'[p])
      PROVE  \/ i \in 1..Len(inbox[p]) /\ inbox'[p][i] = inbox[p][i]
             \/ p = r /\ i = Len(inbox[r]) + 1 /\ inbox'[p][i] = item
  BY <1>2, <1>3, <1>9 DEF Extends
<1>10. ASSUME NEW m \in Msg, NEW n \in Msg, NEW p \in Listener, Ordered(m, n, p)
       PROVE  Ordered(m, n, p)'
  <2>1. QueueOrder(m, n, p)'
    BY <1>4, <1>10 DEF Ordered, QueueOrder
  <2>2. WorkOrder(m, n, p)'
    BY <1>4, <1>10, Unmoved DEF Ordered, WorkOrder
  <2>o. WireOrder(m, n, p) /\ InboxOrder(m, n, p)
    BY <1>10 DEF Ordered
  <2>3. WireOrder(m, n, p)'
    <3> SUFFICES ASSUME NEW u \in Stream, NEW k \in 1..Len(wire'[p][u]),
                        wire'[p][u][k].msg = m, wire'[p][u][k].retries = 0
                 PROVE  /\ \A t \in Stream : \A l \in 1..Len(wire'[p][t]) :
                             wire'[p][t][l].msg = n => u < t \/ (u = t /\ k < l)
                        /\ \A i \in 1..Len(inbox'[p]) : inbox'[p][i].msg = n => u < inbox'[p][i].via
      BY DEF WireOrder
    <3>1. PICK K \in 1..Len(wire[p][u]) : K = was(p, u, k) /\ wire'[p][u][k] = wire[p][u][K]
      BY <1>6
    <3>2. /\ \A t \in Stream : \A l \in 1..Len(wire[p][t]) :
               wire[p][t][l].msg = n => u < t \/ (u = t /\ K < l)
          /\ \A i \in 1..Len(inbox[p]) : inbox[p][i].msg = n => u < inbox[p][i].via
      BY <2>o, <3>1 DEF WireOrder
    <3>3. ASSUME NEW t \in Stream, NEW l \in 1..Len(wire'[p][t]), wire'[p][t][l].msg = n
          PROVE  u < t \/ (u = t /\ k < l)
      <4>1. u < t \/ (u = t /\ was(p, u, k) < was(p, t, l))
        BY <1>6, <3>1, <3>2, <3>3
      <4> QED
        BY <1>7, <4>1
    <3>4. ASSUME NEW i \in 1..Len(inbox'[p]), inbox'[p][i].msg = n PROVE u < inbox'[p][i].via
      <4>1. CASE i \in 1..Len(inbox[p]) /\ inbox'[p][i] = inbox[p][i]
        BY <3>2, <3>4, <4>1
      <4>2. CASE p = r /\ inbox'[p][i] = item
        <5>1. wire[p][s][1].msg = n
          BY <1>2, <3>4, <4>2
        <5>2. u < s \/ (u = s /\ K < 1)
          BY <1>5, <3>2, <4>2, <5>1
        <5>3. u < s
          BY <1>8, <3>1, <5>2
        <5> QED
          BY <1>2, <4>2, <5>3
      <4> QED
        BY <1>9, <4>1, <4>2
    <3> QED
      BY <3>3, <3>4
  <2>4. InboxOrder(m, n, p)'
    <3> SUFFICES ASSUME NEW i \in 1..Len(inbox'[p]), NEW j \in 1..Len(inbox'[p]), i < j,
                        inbox'[p][j].msg = m, inbox'[p][i].msg = n, inbox'[p][j].retries = 0
                 PROVE  inbox'[p][j].via < inbox'[p][i].via
      BY DEF InboxOrder
    <3>0. Len(inbox[r]) \in Nat /\ \A k \in 1..Len(inbox'[p]) : p = r => k <= Len(inbox[r]) + 1
      <4>1. Len(inbox[r]) \in Nat
        BY <1>t DEF TypeInv, TypeOK
      <4> QED
        BY <1>9, <4>1
    <3>1. i \in 1..Len(inbox[p]) /\ inbox'[p][i] = inbox[p][i]
      <4>1. ~(p = r /\ i = Len(inbox[r]) + 1)
        BY <3>0
      <4> QED
        BY <1>9, <4>1
    <3>2. CASE j \in 1..Len(inbox[p]) /\ inbox'[p][j] = inbox[p][j]
      BY <2>o, <3>1, <3>2 DEF InboxOrder
    <3>3. CASE p = r /\ inbox'[p][j] = item
      <4>1. wire[p][s][1].msg = m /\ wire[p][s][1].retries = 0
        BY <1>2, <3>3
      <4>2. s < inbox[p][i].via
        BY <1>5, <2>o, <3>1, <3>3, <4>1 DEF WireOrder
      <4> QED
        BY <1>2, <3>1, <3>3, <4>2
    <3> QED
      BY <1>9, <3>2, <3>3
  <2> QED
    BY <2>1, <2>2, <2>3, <2>4 DEF Ordered
<1> QED
  BY <1>4, <1>10, StepOrder DEF OrderInv

LEMMA LoseOrder ==
  ASSUME CopyInv, OrderInv, NEW r \in Listener, NEW s \in Stream, LoseMessages(r, s)
  PROVE  OrderInv'
<1>1. /\ wire'[r][s] = <<>>
      /\ \A q \in Listener, t \in Stream : q # r \/ t # s => wire'[q][t] = wire[q][t]
      /\ UNCHANGED <<queue, current, timers, posted, inbox>>
  BY Losing DEF CopyInv, outgoing, incoming
<1>2. ASSUME NEW p \in Listener, NEW t \in Stream, NEW k \in 1..Len(wire'[p][t])
      PROVE  k \in 1..Len(wire[p][t]) /\ wire'[p][t][k] = wire[p][t][k]
  BY <1>1, <1>2
<1>3. ASSUME NEW m \in Msg, NEW n \in Msg, NEW p \in Listener, Ordered(m, n, p)
      PROVE  Ordered(m, n, p)'
  <2>1. QueueOrder(m, n, p)' /\ InboxOrder(m, n, p)'
    BY <1>1, <1>3 DEF Ordered, QueueOrder, InboxOrder
  <2>2. WorkOrder(m, n, p)'
    BY <1>1, <1>3, Unmoved DEF Ordered, WorkOrder
  <2>3. WireOrder(m, n, p)'
    BY <1>1, <1>2, <1>3 DEF Ordered, WireOrder
  <2> QED
    BY <2>1, <2>2, <2>3 DEF Ordered
<1> QED
  BY <1>1, <1>3, StepOrder DEF OrderInv

LEMMA OrderStep == CopyInv /\ OrderInv /\ [Next]_vars => OrderInv'
<1> SUFFICES ASSUME CopyInv, OrderInv, [Next]_vars PROVE OrderInv'
  OBVIOUS
<1>1. ASSUME NEW m \in Msg, PushMessage(m) PROVE OrderInv'
  <2>1. PICK P : P = {Receiver[m]}
    OBVIOUS
  <2>2. P \in SUBSET Listener
    BY <1>1, <2>1, PushMoves
  <2>3. Joined(queue', queue)
    BY <1>1, PushMoves, ExtendsJoins
  <2>4. \A i \in 1..Len(queue') : i \notin 1..Len(queue) =>
          queue'[i].msg = m /\ queue'[i].to \in P
    <3>1. Fresh(m, Receiver[m]).msg = m /\ Fresh(m, Receiver[m]).to = Receiver[m]
      BY DEF Fresh
    <3>2. Extends(queue', queue, Fresh(m, Receiver[m]))
      BY <1>1, PushMoves
    <3> QED
      BY <2>1, <3>1, <3>2 DEF Extends
  <2>5. \A p \in P : /\ ~Posted(m, p) /\ InQueue(m, p)' /\ ~InQueue(m, p)
                     /\ Extends(posted'[p], posted[p], m)
    <3>1. ~Posted(m, Receiver[m]) /\ InQueue(m, Receiver[m])'
          /\ Extends(posted'[Receiver[m]], posted[Receiver[m]], m)
      BY <1>1, PushMoves
    <3>2. ~InQueue(m, Receiver[m])
      BY <2>1, <2>2, <3>1 DEF CopyInv, OnePlace
    <3> QED
      BY <2>1, <3>1, <3>2
  <2>6. /\ \A p \in Listener \ P : posted'[p] = posted[p]
        /\ UNCHANGED <<current, timers, wire, inbox>>
    BY <1>1, <2>1, PushMoves
  <2> QED
    BY <2>2, <2>3, <2>4, <2>5, <2>6, JoinOrder
<1>2. ASSUME NEW m \in Msg, Broadcast(m) PROVE OrderInv'
  <2>1. PICK P : P = connected \cap Listener
    OBVIOUS
  <2>2. P \in SUBSET Listener
    BY <2>1
  <2>3. /\ \A p \in Listener : ~Posted(m, p)
        /\ Joined(queue', queue)
        /\ \A i \in 1..Len(queue') : i \notin 1..Len(queue) =>
             queue'[i].msg = m /\ queue'[i].to \in P
        /\ \A p \in P : InQueue(m, p)' /\ Extends(posted'[p], posted[p], m)
        /\ \A p \in Listener \ P : posted'[p] = posted[p]
        /\ UNCHANGED <<current, timers, wire, inbox>>
    BY <1>2, <2>1, BroadcastMoves
  <2>4. \A p \in P : ~InQueue(m, p)
    BY <2>2, <2>3 DEF CopyInv, OnePlace
  <2> QED
    BY <2>2, <2>3, <2>4, JoinOrder
\* nothing is posted, taken, pushed or read
<1>3. ASSUME UNCHANGED <<queue, current, timers, posted, wire, inbox>> PROVE OrderInv'
  <2>1. ASSUME NEW m \in Msg, NEW n \in Msg, NEW p \in Listener, Ordered(m, n, p)
        PROVE  Ordered(m, n, p)'
    BY <1>3, <2>1, Unmoved DEF Ordered, QueueOrder, WorkOrder, WireOrder, InboxOrder
  <2> QED
    BY <1>3, <2>1, StepOrder DEF OrderInv
<1>4. ASSUME NEW m \in Msg, SendTo(m) PROVE OrderInv'
  BY <1>3, <1>4, StartMoves
<1>5. UNCHANGED <<outgoing, wire, inbox>> => OrderInv'
  BY <1>3 DEF outgoing
<1> QED
  BY <1>1, <1>2, <1>4, <1>5, TakeOrder, PushOrder, RetryOrder, TimerOrder, ReadOrder,
     LoseOrder, NothingMoves

LEMMA OrderInit == Init => OrderInv
BY DEF Init, OrderInv, PostedBefore

LEMMA OrderImplies == CopyInv /\ OrderInv => OvertakenForCause
<1> SUFFICES ASSUME CopyInv, OrderInv, NEW p \in Listener,
                    NEW i \in 1..Len(inbox[p]), NEW j \in 1..Len(inbox[p]), i < j,
                    PostedBefore(inbox[p][j].msg, inbox[p][i].msg, p)
             PROVE  inbox[p][j].retries > 0 \/ inbox[p][j].via < inbox[p][i].via
  BY DEF OvertakenForCause
<1>1. inbox[p] \in Seq([msg : Msg, retries : 0..MaxRetries, via : Stream])
  BY DEF CopyInv, TypeInv, TypeOK
<1>2. /\ inbox[p][i].msg \in Msg /\ inbox[p][j].msg \in Msg
      /\ inbox[p][j].retries \in 0..MaxRetries
  <2>1. \A k \in 1..Len(inbox[p]) :
          inbox[p][k] \in [msg : Msg, retries : 0..MaxRetries, via : Stream]
    <3>1. PICK Item : Item = [msg : Msg, retries : 0..MaxRetries, via : Stream]
      OBVIOUS
    <3>2. inbox[p] \in Seq(Item)
      BY <1>1, <3>1
    <3>3. \A k \in 1..Len(inbox[p]) : inbox[p][k] \in Item
      BY <3>2
    <3> QED
      BY <3>1, <3>3
  <2>2. \A item \in [msg : Msg, retries : 0..MaxRetries, via : Stream] :
          item.msg \in Msg /\ item.retries \in 0..MaxRetries
    OBVIOUS
  <2> QED
    BY <2>1, <2>2, Zenon
<1>3. inbox[p][j].retries = 0 \/ inbox[p][j].retries > 0
  BY <1>2, Bounds
<1>4. InboxOrder(inbox[p][j].msg, inbox[p][i].msg, p)
  BY <1>2 DEF OrderInv, Ordered
<1> QED
  BY <1>3, <1>4 DEF InboxOrder

\* A message overtakes an earlier one to the same guard only when the earlier
\* one was retried or sat in a stream that was replaced, for every number of
\* messages, guards, breaks and retries (processMessageQueue).  What was posted
\* later is, at each place the earlier one passes, behind it or in a newer
\* stream.
THEOREM OvertakingForCause == Spec => []OvertakenForCause
<1>1. CopyInv /\ OrderInv => OvertakenForCause
  BY OrderImplies
<1>2. Spec => []OrderInv
  BY OrderInit, OrderStep, CopyAlways, PTL DEF Spec
<1> QED
  BY <1>1, <1>2, CopyAlways, PTL
=============================================================================
