------------------------------ MODULE Dialer ------------------------------
(***************************************************************************)
(* One guard's Dialer: the queue of outgoing messages and the loop that    *)
(* hands them to streams, its retries, the subscriptions on the receiving  *)
(* side, and the care for connections to the relays.  libp2p is external:  *)
(* it connects and disconnects, opens streams and carries what is pushed   *)
(* into one in order, as far as the stream lives.                          *)
(***************************************************************************)
EXTENDS Naturals, Sequences, FiniteSets

CONSTANTS
  Listener,    \* the peers that are no relays: the other guards
  Relay,
  Msg,         \* messages, each sent by one call of sendMessage
  Receiver,    \* its receiver, or Everyone when it is broadcast
  Everyone,
  Sub,         \* callbacks: the name of the function and a url, or NoUrl
  NoUrl,
  NoEntry,
  MaxRetries,  \* messageSendingRetriesMaxCount
  MaxBreaks    \* bound on the connections and streams that break

ASSUME DialerAssumption ==
  /\ IsFiniteSet(Msg) /\ IsFiniteSet(Listener)
  /\ Relay \cap Listener = {}
  /\ Everyone \notin Listener
  /\ Receiver \in [Msg -> Listener \cup {Everyone}]
  /\ \A s \in Sub : s = [name |-> s.name, url |-> s.url]
  /\ MaxRetries \in Nat /\ MaxBreaks \in Nat
  /\ NoEntry \notin [msg : Msg, to : Listener, retries : 0..MaxRetries]

VARIABLES
  node,       \* what startDialer has made of _node
  connected,  \* the peers of getPeers
  book,       \* the peers with an entry in the address book
  removing,   \* removePeerFromAddressBook calls that have not ended
  watch,      \* re-connection intervals of a relay that peer:connect will clear
  deaf,       \* those that nothing will clear
  preparing,  \* sendMessage calls that await the PeerId of their receiver
  queue,      \* _messageQueue
  current,    \* the message processMessageQueue is at work on
  timers,     \* messages that wait for their retry
  open,       \* the open outbound stream to a peer, 0 when there is none
  route,      \* routesInfo[peer].stream, 0 when there is none
  opened,     \* the streams opened to a peer so far
  piped,      \* the streams to a peer that a source was piped to
  found,      \* the stream getOpenStreamAndConnection found, 0 as long as none
  wire,       \* what was pushed into a stream and not read from it yet
  subs,       \* _subscribedChannels of a listener
  inbox,      \* what a listener has read
  calls,      \* how often its callbacks were called with a message
  posted,     \* the messages to a listener in the order they entered the queue
  breaks,
  cut         \* history: the messages on their way through a stream that broke

connections == <<node, connected, book, removing, watch, deaf>>
outgoing == <<preparing, queue, current, timers, posted>>
streams == <<open, route, opened, piped, found>>
incoming == <<subs, inbox, calls>>
vars == <<connections, outgoing, streams, wire, incoming, breaks, cut>>

Peer == Listener \cup Relay
Stream == 1..(MaxBreaks + 1)
Entry == [msg : Msg, to : Listener, retries : 0..MaxRetries]
Packet == [msg : Msg, retries : 0..MaxRetries]

TypeOK ==
  /\ node \in {"starting", "up", "failed"}
  /\ connected \in SUBSET Peer
  /\ book \in SUBSET Peer
  /\ removing \in SUBSET Peer
  /\ watch \in [Relay -> Nat] /\ deaf \in [Relay -> Nat]
  /\ preparing \in SUBSET Msg
  /\ queue \in Seq(Entry)
  /\ current \in Entry \cup {NoEntry}
  /\ timers \in SUBSET Entry
  /\ open \in [Listener -> {0} \cup Stream]
  /\ route \in [Listener -> {0} \cup Stream]
  /\ opened \in [Listener -> {0} \cup Stream]
  /\ piped \in [Listener -> SUBSET Stream]
  /\ found \in {0} \cup Stream
  /\ wire \in [Listener -> [Stream -> Seq(Packet)]]
  /\ subs \in [Listener -> Seq(Sub)]
  /\ inbox \in [Listener -> Seq([msg : Msg, retries : 0..MaxRetries, via : Stream])]
  /\ calls \in [Listener -> [Sub \X Msg -> Nat]]
  /\ posted \in [Listener -> Seq(Msg)]
  /\ breaks \in 0..MaxBreaks
  /\ cut \in SUBSET (Msg \X Listener)

\* createLibp2p is configured with the relays to bootstrap from
Init ==
  /\ node = "starting"
  /\ connected = {} /\ book = Relay /\ removing = {}
  /\ watch = [r \in Relay |-> 0] /\ deaf = [r \in Relay |-> 0]
  /\ preparing = {} /\ queue = <<>> /\ current = NoEntry /\ timers = {}
  /\ open = [p \in Listener |-> 0]
  /\ route = [p \in Listener |-> 0]
  /\ opened = [p \in Listener |-> 0]
  /\ piped = [p \in Listener |-> {}]
  /\ found = 0
  /\ wire = [p \in Listener |-> [s \in Stream |-> <<>>]]
  /\ subs = [p \in Listener |-> <<>>]
  /\ inbox = [p \in Listener |-> <<>>]
  /\ calls = [p \in Listener |-> [c \in Sub \X Msg |-> 0]]
  /\ posted = [p \in Listener |-> <<>>]
  /\ breaks = 0 /\ cut = {}

-----------------------------------------------------------------------------
(* startDialer.  It swallows its errors: getInstance hands the instance    *)
(* out and starts processMessageQueue whether or not there is a node.      *)

NodeStarts ==
  /\ node = "starting"
  /\ node' = "up"
  /\ UNCHANGED <<connected, book, removing, watch, deaf, outgoing, streams,
                 wire, incoming, breaks, cut>>

StartFails ==
  /\ node = "starting" /\ connected = {}
  /\ node' = "failed"
  /\ UNCHANGED <<connected, book, removing, watch, deaf, outgoing, streams,
                 wire, incoming, breaks, cut>>

-----------------------------------------------------------------------------
(* Connections.  While _node is not set, removePeerFromAddressBook and     *)
(* addPeersToAddressBook do nothing, and tryReconnectingRelay starts its   *)
(* interval but finds no connection manager to register the listener with  *)
(* that clears it.                                                         *)

\* mutant: the listener does not clear the interval
PeerConnectedUncleared(p) ==
  /\ connected' = connected \cup {p}
  /\ watch' = watch

\* peer:connect: the intervals of the relay that have a listener end
PeerConnected(p) ==
  /\ connected' = connected \cup {p}
  /\ watch' = [r \in Relay |-> IF r = p THEN 0 ELSE watch[r]]

\* auto-dial finds the peer in the address book, or another guard dials us
Connect(p) ==
  /\ node # "failed"
  /\ p \in book \/ p \in Listener
  /\ p \notin connected
  /\ PeerConnected(p)
  /\ UNCHANGED <<node, book, removing, deaf, outgoing, streams, wire,
                 incoming, breaks, cut>>

\* tryReconnectingRelay
TryReconnecting(r) ==
  IF node = "up"
  THEN /\ watch' = [watch EXCEPT ![r] = @ + 1]
       /\ deaf' = deaf
  ELSE /\ deaf' = [deaf EXCEPT ![r] = @ + 1]
       /\ watch' = watch

\* what the open stream to p carries, and what was to be pushed into it next
Carried(p) == {m \in Msg : \E s \in Stream : s = open[p] /\
  \/ \E i \in 1..Len(wire[p][s]) : wire[p][s][i].msg = m
  \/ found = s /\ current.msg = m /\ current.to = p}

\* peer:disconnect
Disconnect(p) ==
  /\ p \in connected
  /\ breaks < MaxBreaks
  /\ breaks' = breaks + 1
  /\ connected' = connected \ {p}
  /\ removing' = IF node = "up" THEN removing \cup {p} ELSE removing
  /\ IF p \in Relay
     THEN /\ TryReconnecting(p)
          /\ UNCHANGED <<open, cut>>
     ELSE /\ open' = [open EXCEPT ![p] = 0]
          /\ cut' = cut \cup (Carried(p) \X {p})
          /\ UNCHANGED <<watch, deaf>>
  /\ UNCHANGED <<node, book, route, opened, piped, found, outgoing, wire, incoming>>

\* the call that Disconnect started comes to its delete
RemovePeer(p) ==
  /\ p \in removing
  /\ removing' = removing \ {p}
  /\ book' = book \ {p}
  /\ UNCHANGED <<node, connected, watch, deaf, outgoing, streams, wire,
                 incoming, breaks, cut>>

\* peer:discovery of a listener: addPeersToAddressBook
Discover(p) ==
  /\ node = "up" /\ p \notin connected
  /\ book' = book \cup {p}
  /\ UNCHANGED <<node, connected, removing, watch, deaf, outgoing, streams,
                 wire, incoming, breaks, cut>>

\* mutant: a timeout in the place of the interval
ReaddRelayOnce(r) ==
  /\ node = "up" /\ watch[r] > 0
  /\ book' = book \cup {r}
  /\ watch' = [watch EXCEPT ![r] = 0]
  /\ UNCHANGED <<node, connected, removing, deaf, outgoing, streams, wire,
                 incoming, breaks, cut>>

\* an interval adds its relay to the address book again
ReaddRelay(r) ==
  /\ node = "up" /\ watch[r] + deaf[r] > 0
  /\ book' = book \cup {r}
  /\ UNCHANGED <<node, connected, removing, watch, deaf, outgoing, streams,
                 wire, incoming, breaks, cut>>

\* the stream is reset, the connection stays
CloseStream(p) ==
  /\ open[p] # 0
  /\ breaks < MaxBreaks
  /\ breaks' = breaks + 1
  /\ open' = [open EXCEPT ![p] = 0]
  /\ cut' = cut \cup (Carried(p) \X {p})
  /\ UNCHANGED <<connections, outgoing, route, opened, piped, found, wire, incoming>>

-----------------------------------------------------------------------------
(* sendMessage                                                             *)

Fresh(m, p) == [msg |-> m, to |-> p, retries |-> 0]

Sent(m, p) == \/ m \in preparing /\ Receiver[m] = p
              \/ \E i \in 1..Len(posted[p]) : posted[p][i] = m

\* getInstance returns when startDialer has; m was not sent before
MaySend(m) == node # "starting" /\ \A p \in Listener : ~Sent(m, p)

\* to one receiver: it awaits createFromJSON before it pushes
SendTo(m) ==
  /\ Receiver[m] \in Listener
  /\ MaySend(m)
  /\ preparing' = preparing \cup {m}
  /\ UNCHANGED <<connections, queue, current, timers, posted, streams, wire,
                 incoming, breaks, cut>>

PushMessage(m) ==
  /\ m \in preparing
  /\ preparing' = preparing \ {m}
  /\ queue' = Append(queue, Fresh(m, Receiver[m]))
  /\ posted' = [posted EXCEPT ![Receiver[m]] = Append(@, m)]
  /\ UNCHANGED <<connections, current, timers, streams, wire, incoming, breaks, cut>>

\* the connected listeners in some order of getPeers
Orders(P) == {f \in [1..Cardinality(P) -> P] :
                \A i, j \in 1..Cardinality(P) : f[i] = f[j] => i = j}

\* to everyone: each connected listener gets an entry of its own; without a
\* node the call rejects
Broadcast(m) ==
  /\ Receiver[m] = Everyone
  /\ MaySend(m) /\ node = "up"
  /\ LET P == connected \cap Listener IN
     /\ \E f \in Orders(P) :
          queue' = queue \o [i \in 1..Cardinality(P) |-> Fresh(m, f[i])]
     /\ posted' = [p \in Listener |->
                     IF p \in P THEN Append(posted[p], m) ELSE posted[p]]
  /\ UNCHANGED <<connections, preparing, current, timers, streams, wire,
                 incoming, breaks, cut>>

-----------------------------------------------------------------------------
(* processMessageQueue: one message at a time, and the next one waits      *)
(* until a stream is found and pushed into, or the attempt has failed.     *)

\* mutant: the loop does not wait for one message to be sent
TakeAnyMessage ==
  /\ node # "starting"
  /\ current = NoEntry /\ queue # <<>>
  /\ \E i \in 1..Len(queue) :
       /\ current' = queue[i]
       /\ queue' = SubSeq(queue, 1, i - 1) \o SubSeq(queue, i + 1, Len(queue))
  /\ UNCHANGED <<connections, preparing, timers, posted, streams, wire,
                 incoming, breaks, cut>>

TakeMessage ==
  /\ node # "starting"
  /\ current = NoEntry /\ queue # <<>>
  /\ current' = Head(queue)
  /\ queue' = Tail(queue)
  /\ UNCHANGED <<connections, preparing, timers, posted, streams, wire,
                 incoming, breaks, cut>>

\* getOpenStreamAndConnection: an open stream is found
ReuseStream ==
  /\ current # NoEntry /\ found = 0 /\ node = "up"
  /\ open[current.to] # 0
  /\ found' = open[current.to]
  /\ UNCHANGED <<connections, outgoing, open, route, opened, piped, wire, incoming,
                 breaks, cut>>

\* no stream and no connection: node.dial needs an address
DialPeer ==
  /\ current # NoEntry /\ found = 0 /\ node = "up"
  /\ current.to \notin connected /\ current.to \in book
  /\ PeerConnected(current.to)
  /\ UNCHANGED <<node, book, removing, deaf, outgoing, streams, wire,
                 incoming, breaks, cut>>

\* connection.newStream
OpenStream ==
  /\ current # NoEntry /\ found = 0 /\ node = "up"
  /\ current.to \in connected /\ open[current.to] = 0
  /\ LET p == current.to
         s == opened[p] + 1 IN
     /\ opened' = [opened EXCEPT ![p] = s]
     /\ open' = [open EXCEPT ![p] = s]
     /\ found' = s
  /\ UNCHANGED <<connections, outgoing, route, piped, wire, incoming, breaks, cut>>

\* mutant: the source of a peer is used whatever stream was found
PushIntoCached(p, s) ==
  LET t == IF route[p] = 0 THEN s ELSE route[p] IN
  /\ route' = [route EXCEPT ![p] = t]
  /\ piped' = [piped EXCEPT ![p] = @ \cup {t}]
  /\ wire' = [wire EXCEPT ![p][t] =
       Append(@, [msg |-> current.msg, retries |-> current.retries])]

\* getStreamSource and push.  The source at hand is the one to use when it was
\* made for this stream; otherwise a new one is piped to the stream, which takes
\* but one: what a second one carries goes nowhere.
PushInto(p, s) ==
  /\ route' = [route EXCEPT ![p] = s]
  /\ piped' = [piped EXCEPT ![p] = @ \cup {s}]
  /\ wire' = IF route[p] = s \/ s \notin piped[p]
             THEN [wire EXCEPT ![p][s] =
                     Append(@, [msg |-> current.msg, retries |-> current.retries])]
             ELSE wire

\* mutant: what goes wrong after the push is retried as well
PushAndRetry ==
  /\ current # NoEntry /\ found # 0
  /\ PushInto(current.to, found)
  /\ current' = NoEntry /\ found' = 0
  /\ timers' = IF current.retries < MaxRetries
               THEN timers \cup {[current EXCEPT !.retries = @ + 1]} ELSE timers
  /\ UNCHANGED <<connections, preparing, queue, posted, open, opened, incoming,
                 breaks, cut>>

\* The await before it lets the stream break: what is pushed then is lost with
\* the stream, and nothing tells the loop.
PushFound ==
  /\ current # NoEntry /\ found # 0
  /\ PushInto(current.to, found)
  /\ current' = NoEntry /\ found' = 0
  /\ UNCHANGED <<connections, preparing, queue, timers, posted, open, opened,
                 incoming, breaks, cut>>

\* mutant: one retry too many
RetryOrDropLate ==
  /\ current # NoEntry /\ found = 0
  /\ node = "up" => open[current.to] = 0
  /\ timers' = IF current.retries <= MaxRetries
               THEN timers \cup {[current EXCEPT !.retries = @ + 1]} ELSE timers
  /\ current' = NoEntry
  /\ UNCHANGED <<connections, preparing, queue, posted, streams, wire,
                 incoming, breaks, cut>>

\* mutant: the retries are not counted
RetryForEver ==
  /\ current # NoEntry /\ found = 0
  /\ node = "up" => open[current.to] = 0
  /\ timers' = timers \cup {current}
  /\ current' = NoEntry
  /\ UNCHANGED <<connections, preparing, queue, posted, streams, wire,
                 incoming, breaks, cut>>

\* dial or newStream throws, or there is no node: retrySendingMessage
RetryOrDrop ==
  /\ current # NoEntry /\ found = 0
  /\ node = "up" => open[current.to] = 0
  /\ LET again == current.retries + 1 IN
     timers' = IF again <= MaxRetries
               THEN timers \cup {[current EXCEPT !.retries = again]}
               ELSE timers
  /\ current' = NoEntry
  /\ UNCHANGED <<connections, preparing, queue, posted, streams, wire,
                 incoming, breaks, cut>>

TimerFires(e) ==
  /\ e \in timers
  /\ timers' = timers \ {e}
  /\ queue' = Append(queue, e)
  /\ UNCHANGED <<connections, preparing, current, posted, streams, wire,
                 incoming, breaks, cut>>

-----------------------------------------------------------------------------
(* The receiving guards: subscribeChannel and handleBroadcast              *)

\* mutant: only a url makes a subscription redundant
RedundantUrl(p, sub) == \E i \in 1..Len(subs[p]) :
  subs[p][i].name = sub.name /\ subs[p][i].url # NoUrl /\ subs[p][i].url = sub.url

\* the same function under the same url, or without one
Redundant(p, sub) == \E i \in 1..Len(subs[p]) :
  /\ subs[p][i].name = sub.name
  /\ sub.url = NoUrl \/ (subs[p][i].url # NoUrl /\ subs[p][i].url = sub.url)

Subscribe(p, sub) ==
  /\ ~Redundant(p, sub)
  /\ subs' = [subs EXCEPT ![p] = Append(@, sub)]
  /\ UNCHANGED <<connections, outgoing, streams, wire, inbox, calls, breaks, cut>>

\* every callback of the channel is called, none when it has none
ReadMessage(p, s) ==
  /\ wire[p][s] # <<>>
  /\ LET packet == Head(wire[p][s])
         times(sub) == Cardinality({i \in 1..Len(subs[p]) : subs[p][i] = sub}) IN
     /\ inbox' = [inbox EXCEPT ![p] = Append(@, [msg |-> packet.msg,
                    retries |-> packet.retries, via |-> s])]
     /\ calls' = [calls EXCEPT ![p] = [c \in Sub \X Msg |->
          IF c[2] = packet.msg THEN @[c] + times(c[1]) ELSE @[c]]]
  /\ wire' = [wire EXCEPT ![p][s] = Tail(@)]
  /\ UNCHANGED <<connections, outgoing, streams, subs, breaks, cut>>

\* what a stream that is gone still had to carry is lost, without an error
LoseMessages(p, s) ==
  /\ wire[p][s] # <<>> /\ open[p] # s
  /\ wire' = [wire EXCEPT ![p][s] = <<>>]
  /\ UNCHANGED <<connections, outgoing, streams, incoming, breaks, cut>>

-----------------------------------------------------------------------------
Next ==
  \/ NodeStarts \/ StartFails
  \/ \E p \in Peer : Connect(p) \/ Disconnect(p) \/ RemovePeer(p)
  \/ \E p \in Listener : Discover(p) \/ CloseStream(p)
  \/ \E r \in Relay : ReaddRelay(r)
  \/ \E m \in Msg : SendTo(m) \/ PushMessage(m) \/ Broadcast(m)
  \/ TakeMessage \/ ReuseStream \/ DialPeer \/ OpenStream \/ PushFound \/ RetryOrDrop
  \/ \E e \in timers : TimerFires(e)
  \/ \E p \in Listener, sub \in Sub : Subscribe(p, sub)
  \/ \E p \in Listener, s \in Stream : ReadMessage(p, s) \/ LoseMessages(p, s)

Spec == Init /\ [][Next]_vars

(***************************************************************************)
(* startDialer returns; pending promises settle (a dial has a timeout);    *)
(* timers and intervals fire; a stream's content arrives or is lost.       *)
(***************************************************************************)
Fairness ==
  /\ WF_vars(NodeStarts \/ StartFails)
  /\ \A m \in Msg : WF_vars(PushMessage(m))
  /\ WF_vars(TakeMessage)
  /\ WF_vars(ReuseStream \/ OpenStream \/ RetryOrDrop)
  /\ WF_vars(PushFound)
  /\ \A e \in Entry : WF_vars(TimerFires(e))
  /\ \A p \in Peer : WF_vars(RemovePeer(p))
  /\ \A r \in Relay : WF_vars(ReaddRelay(r))
  /\ \A p \in Listener, s \in Stream : WF_vars(ReadMessage(p, s) \/ LoseMessages(p, s))

FairSpec == Spec /\ Fairness

-----------------------------------------------------------------------------
(* Where the only copy of m for p may be.                                  *)

Waiting(m, p) ==
  \/ m \in preparing /\ Receiver[m] = p
  \/ \E i \in 1..Len(queue) : queue[i].msg = m /\ queue[i].to = p
  \/ current # NoEntry /\ current.msg = m /\ current.to = p
  \/ \E e \in timers : e.msg = m /\ e.to = p

OnWire(m, p) == \E s \in Stream : \E i \in 1..Len(wire[p][s]) : wire[p][s][i].msg = m

Arrived(m, p) == \E i \in 1..Len(inbox[p]) : inbox[p][i].msg = m

FateOf(m, p) == IF Waiting(m, p) \/ OnWire(m, p) THEN "underway"
                ELSE IF Arrived(m, p) THEN "received"
                ELSE IF Sent(m, p) THEN "lost"
                ELSE "unsent"

\* The Dialer is the channel the other components count on, whatever breaks
\* and however often a message is retried: no message is doubled by a retry,
\* none comes back once it is given up, and none stays in the queue for ever,
\* even when startDialer failed.
Channel == INSTANCE MessageChannel
             WITH fate <- [c \in Msg \X Listener |-> FateOf(c[1], c[2])]

IsChannel == Channel!Spec
MessagesDecided == Channel!Decided

\* No callback is called with a message more often than once: neither the
\* retries of the sender nor a callback that is subscribed again make it run
\* twice (processMessageQueue, subscribeChannel).
HandledOnce == \A p \in Listener : \A c \in Sub \X Msg : calls[p][c] <= 1

\* m entered the queue for p before n did
PostedBefore(m, n, p) == \E i, j \in 1..Len(posted[p]) :
  i < j /\ posted[p][i] = m /\ posted[p][j] = n

\* A message overtakes an earlier one to the same guard only when the earlier
\* one had to be retried, or sat in a stream that was replaced: the loop waits
\* for each stream before it takes the next message (processMessageQueue).
OvertakenForCause == \A p \in Listener : \A i, j \in 1..Len(inbox[p]) :
  i < j /\ PostedBefore(inbox[p][j].msg, inbox[p][i].msg, p)
    => inbox[p][j].retries > 0 \/ inbox[p][j].via < inbox[p][i].via

\* A message is lost for one of two reasons only: its last retry found no way to
\* the guard, or the stream that carried it, or that was found for it, broke.  It
\* is not lost because the source it is pushed into belongs to a stream that was
\* replaced before, nor because a stream gets a second source (getStreamSource).
LostForCause == [][\A m \in Msg, p \in Listener :
  FateOf(m, p) = "underway" /\ FateOf(m, p)' = "lost" =>
    \/ <<m, p>> \in cut
    \/ /\ current # NoEntry /\ current.msg = m /\ current.to = p
       /\ found = 0 /\ current.retries = MaxRetries]_vars

\* A relay that is neither connected nor in the address book, where auto-dial
\* would find it, is being added again; and once it is connected no interval
\* goes on that was started with a listener (tryReconnectingRelay).
RelayWatched == node # "failed" => \A r \in Relay :
  /\ r \notin connected \cup book => watch[r] + deaf[r] > 0
  /\ r \in connected => watch[r] = 0
  /\ watch[r] <= 1

\* Whichever of the removal and the interval's additions comes last, the address
\* of a lost relay is back some day for auto-dial to use, unless the relay is
\* connected already (removePeerFromAddressBook, tryReconnectingRelay).
RelayComesBack == \A r \in Relay :
  (node = "up" /\ r \notin connected \cup book) ~> (r \in connected \cup book)
=============================================================================
