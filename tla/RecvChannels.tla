---------------------------- MODULE RecvChannels ----------------------------
(***************************************************************************)
(* The receiving half of one connection to a peer: from the streams and    *)
(* datagrams that the peer sends to the payloads that the application      *)
(* takes out of its receive channels.                                      *)
(*                                                                         *)
(* One task accepts the streams and starts a task for each; one task reads *)
(* the datagrams.  All of them put what they read into one bounded queue,  *)
(* which the application empties once per frame into a buffer per channel. *)
(* An ordered channel of the peer is one stream; a stream with a single    *)
(* payload is a message of an unordered one; channels that used one id     *)
(* after the other are streams with the same id.                           *)
(***************************************************************************)
EXTENDS Integers, Sequences, FiniteSets, SequencesExt, FiniteSetsExt

CONSTANTS
  Streams,         \* streams the peer opens over time
  Datagrams,       \* datagrams the peer sends
  ChannelOf,       \* the channel id of each
  Lengths,         \* how many payloads the peer sends on each stream
  Refused,         \* frames that the decoder refuses, <<stream, number>>
  QueueSize,       \* capacity of bytes_from_peer
  MaxBuffered,     \* max_buffered_payloads_count_per_channel
  MaxChannels,     \* max_receive_channels_count
  None

Sources == Streams \cup Datagrams

(* The numbers of the payloads of a source; a datagram is its only one. *)
Numbers(source) == IF source \in Streams THEN 1..Lengths[source] ELSE {1}

ASSUME SourcesAssumption == Streams \cap Datagrams = {} /\ None \notin Sources
ASSUME ChannelsAssumption == ChannelOf \in [Sources -> Nat] /\ Lengths \in [Streams -> Nat]
ASSUME LimitsAssumption == QueueSize \in Nat \ {0} /\ MaxBuffered \in Nat /\ MaxChannels \in Nat

VARIABLES
  (* the peer and the network *)
  peer,          \* how many payloads of each stream were sent
  flying,        \* datagrams that may still arrive; none has to
  conn,          \* "open" or "lost"
  (* async tasks *)
  listener,      \* the task that accepts streams: "running", "ended"
  task,          \* the task of each stream: "none", "reading", "holding", "ended"
  read,          \* how many payloads of each stream it has read
  sees,          \* its close receiver existed before the close was broadcast
  datagramTask,  \* "reading", "holding", "ended"
  datagram,      \* the datagram it holds
  (* shared *)
  queue,         \* bytes_from_peer
  closed,        \* the close was broadcast
  dropped,       \* the PeerConnection is gone
  (* the application *)
  state,         \* "open" until it disconnects
  buffers,       \* recv_channels_payloads: the buffer of channel id is at id + 1
  (* history *)
  received,      \* for each source, the numbers of the payloads the application took
  refused,       \* payloads a RecvChannelError was raised for
  cleared        \* payloads the application had cleared

network == <<peer, flying, conn>>
async == <<listener, task, read, sees, datagramTask, datagram>>
history == <<received, refused, cleared>>
vars == <<network, async, queue, closed, dropped, state, buffers, history>>

(* The n-th payload of a source. *)
Payload(source, n) == [from |-> source, n |-> n]

Init ==
  /\ peer = [s \in Streams |-> 0]
  /\ flying = Datagrams
  /\ conn = "open"
  /\ listener = "running"
  /\ task = [s \in Streams |-> "none"]
  /\ read = [s \in Streams |-> 0]
  /\ sees = [s \in Streams |-> FALSE]
  /\ datagramTask = "reading"
  /\ datagram = None
  /\ queue = <<>>
  /\ closed = FALSE
  /\ dropped = FALSE
  /\ state = "open"
  /\ buffers = <<>>
  /\ received = [x \in Sources |-> <<>>]
  /\ refused = {}
  /\ cleared = {}

-----------------------------------------------------------------------------
(* The peer and the network.                                               *)

PeerSends(s) ==
  /\ conn = "open"
  /\ peer[s] < Lengths[s]
  /\ peer' = [peer EXCEPT ![s] = @ + 1]
  /\ UNCHANGED <<flying, conn, async, queue, closed, dropped, state, buffers, history>>

ConnectionLost ==
  /\ conn = "open"
  /\ conn' = "lost"
  /\ UNCHANGED <<peer, flying, async, queue, closed, dropped, state, buffers, history>>

-----------------------------------------------------------------------------
(* The task that accepts streams.                                          *)

(* The stream's task gets a receiver that sees only a close from now on.   *)
Accept(s) ==
  /\ listener = "running"
  /\ conn = "open"
  /\ task[s] = "none"
  /\ peer[s] > 0
  /\ task' = [task EXCEPT ![s] = "reading"]
  /\ sees' = [sees EXCEPT ![s] = ~closed]
  /\ UNCHANGED <<network, listener, read, datagramTask, datagram, queue, closed,
                 dropped, state, buffers, history>>

ListenerEnds ==
  /\ listener = "running"
  /\ closed \/ dropped \/ conn = "lost"
  /\ listener' = "ended"
  /\ UNCHANGED <<network, task, read, sees, datagramTask, datagram, queue, closed,
                 dropped, state, buffers, history>>

-----------------------------------------------------------------------------
(* The task of a stream.                                                   *)

(* A frame is decoded; a frame the decoder refuses ends the task.          *)
Reads(s) ==
  /\ task[s] = "reading"
  /\ read[s] < peer[s]
  /\ IF <<s, read[s] + 1>> \in Refused
     THEN /\ task' = [task EXCEPT ![s] = "ended"]
          /\ UNCHANGED read
     ELSE /\ task' = [task EXCEPT ![s] = "holding"]
          /\ read' = [read EXCEPT ![s] = @ + 1]
  /\ UNCHANGED <<network, listener, sees, datagramTask, datagram, queue, closed,
                 dropped, state, buffers, history>>

(* Mutant: the task does not wait for a place in the queue. *)
EnqueuesOrDrops(s) ==
  /\ task[s] = "holding"
  /\ ~dropped
  /\ queue' = IF Len(queue) < QueueSize THEN Append(queue, Payload(s, read[s])) ELSE queue
  /\ task' = [task EXCEPT ![s] = "reading"]
  /\ UNCHANGED <<network, listener, read, sees, datagramTask, datagram, closed,
                 dropped, state, buffers, history>>

(* The queue has a place. *)
Enqueues(s) ==
  /\ task[s] = "holding"
  /\ ~dropped
  /\ Len(queue) < QueueSize
  /\ queue' = Append(queue, Payload(s, read[s]))
  /\ task' = [task EXCEPT ![s] = "reading"]
  /\ UNCHANGED <<network, listener, read, sees, datagramTask, datagram, closed,
                 dropped, state, buffers, history>>

(* Mutant: the task ends with the close only. *)
StreamEndsByCloseOnly(s) ==
  /\ task[s] \in {"reading", "holding"}
  /\ \/ sees[s] /\ closed
     \/ task[s] = "reading" /\ (conn = "lost" \/ read[s] = Lengths[s])
  /\ task' = [task EXCEPT ![s] = "ended"]
  /\ UNCHANGED <<network, listener, read, sees, datagramTask, datagram, queue,
                 closed, dropped, state, buffers, history>>

(* The close cancels the task, with the payload it holds; the end of the   *)
(* stream or of the connection is seen while reading.  Without its         *)
(* receiver the queue makes a task that holds a payload panic.             *)
StreamEnds(s) ==
  /\ task[s] \in {"reading", "holding"}
  /\ \/ sees[s] /\ closed
     \/ dropped
     \/ task[s] = "reading" /\ (conn = "lost" \/ read[s] = Lengths[s])
  /\ task' = [task EXCEPT ![s] = "ended"]
  /\ UNCHANGED <<network, listener, read, sees, datagramTask, datagram, queue,
                 closed, dropped, state, buffers, history>>

-----------------------------------------------------------------------------
(* The task of the datagrams.                                              *)

ReadsDatagram(d) ==
  /\ datagramTask = "reading"
  /\ conn = "open"
  /\ d \in flying
  /\ flying' = flying \ {d}
  /\ datagramTask' = "holding"
  /\ datagram' = d
  /\ UNCHANGED <<peer, conn, listener, task, read, sees, queue, closed,
                 dropped, state, buffers, history>>

EnqueuesDatagram ==
  /\ datagramTask = "holding"
  /\ ~dropped
  /\ Len(queue) < QueueSize
  /\ queue' = Append(queue, Payload(datagram, 1))
  /\ datagramTask' = "reading"
  /\ datagram' = None
  /\ UNCHANGED <<network, listener, task, read, sees, closed, dropped, state,
                 buffers, history>>

DatagramTaskEnds ==
  /\ datagramTask # "ended"
  /\ \/ closed \/ dropped
     \/ datagramTask = "reading" /\ conn = "lost"
  /\ datagramTask' = "ended"
  /\ datagram' = None
  /\ UNCHANGED <<network, listener, task, read, sees, queue, closed, dropped,
                 state, buffers, history>>

-----------------------------------------------------------------------------
(* The application thread.                                                 *)

(* The buffers up to the i-th, which gets this first payload. *)
WithBuffer(bs, i, p) ==
  [k \in 1..i |-> IF k <= Len(bs) THEN bs[k] ELSE IF k = i THEN <<p>> ELSE <<>>]

(* Mutant: the payload of a full buffer takes the place of the oldest. *)
DispatchOverwrites(d, p) ==
  LET i == ChannelOf[p.from] + 1
  IN IF i <= Len(d.buffers)
     THEN IF Len(d.buffers[i]) < MaxBuffered
          THEN [d EXCEPT !.buffers[i] = Append(@, p)]
          ELSE [d EXCEPT !.buffers[i] = Append(Tail(@), p)]
     ELSE IF i <= MaxChannels
          THEN [d EXCEPT !.buffers = WithBuffer(@, i, p)]
          ELSE [d EXCEPT !.refused = @ \cup {p}]

(* Mutant: a payload is added to a buffer without a look at its length. *)
DispatchUnlimited(d, p) ==
  LET i == ChannelOf[p.from] + 1
  IN IF i <= Len(d.buffers)
     THEN [d EXCEPT !.buffers[i] = Append(@, p)]
     ELSE IF i <= MaxChannels
          THEN [d EXCEPT !.buffers = WithBuffer(@, i, p)]
          ELSE [d EXCEPT !.refused = @ \cup {p}]

(* One turn of the loop of dispatch_received_payloads_to_channel_buffers:  *)
(* the buffer of the channel, which is made if it is the first one so far. *)
Dispatched(d, p) ==
  LET i == ChannelOf[p.from] + 1
  IN IF i <= Len(d.buffers)
     THEN IF Len(d.buffers[i]) < MaxBuffered
          THEN [d EXCEPT !.buffers[i] = Append(@, p)]
          ELSE [d EXCEPT !.refused = @ \cup {p}]
     ELSE IF i <= MaxChannels
          THEN [d EXCEPT !.buffers = WithBuffer(@, i, p)]
          ELSE [d EXCEPT !.refused = @ \cup {p}]

(* What the loop makes of the payloads of a queue, one after the other.    *)
AfterAll(d, q) ==
  LET after[k \in 0..Len(q)] == IF k = 0 THEN d ELSE Dispatched(after[k - 1], q[k])
  IN after[Len(q)]

(* The whole queue is dispatched; a disconnected connection is skipped.    *)
Dispatch ==
  /\ ~dropped
  /\ state = "open"
  /\ queue # <<>>
  /\ LET after == AfterAll([buffers |-> buffers, refused |-> refused], queue)
     IN /\ buffers' = after.buffers
        /\ refused' = after.refused
  /\ queue' = <<>>
  /\ UNCHANGED <<network, async, closed, dropped, state, received, cleared>>

Taken(p) == [received EXCEPT ![p.from] = Append(@, p.n)]

(* Mutant: the last payload comes first. *)
TakeNewest(i) ==
  /\ received' = Taken(Last(buffers[i]))
  /\ buffers' = [buffers EXCEPT ![i] = Front(@)]

TakeOldest(i) ==
  /\ received' = Taken(Head(buffers[i]))
  /\ buffers' = [buffers EXCEPT ![i] = Tail(@)]

(* receive_payload *)
Receive(id) ==
  /\ ~dropped
  /\ state = "open"
  /\ id + 1 <= Len(buffers)
  /\ buffers[id + 1] # <<>>
  /\ TakeOldest(id + 1)
  /\ UNCHANGED <<network, async, queue, closed, dropped, state, refused, cleared>>

Buffered == UNION {ToSet(buffers[i]) : i \in DOMAIN buffers}

(* clear_received_payloads, which the end of a frame calls too if the      *)
(* connection is so configured.                                            *)
ClearReceivedPayloads ==
  /\ ~dropped
  /\ Buffered # {}
  /\ cleared' = cleared \cup Buffered
  /\ buffers' = [i \in DOMAIN buffers |-> <<>>]
  /\ UNCHANGED <<network, async, queue, closed, dropped, state, received, refused>>

Disconnect ==
  /\ state = "open"
  /\ state' = "disconnected"
  /\ closed' = TRUE
  /\ UNCHANGED <<network, async, queue, dropped, buffers, history>>

(* The PeerConnection is dropped, or reset by reconnect. *)
DropConnection ==
  /\ state = "disconnected"
  /\ ~dropped
  /\ dropped' = TRUE
  /\ queue' = <<>>
  /\ buffers' = <<>>
  /\ UNCHANGED <<network, async, closed, state, history>>

-----------------------------------------------------------------------------

StreamNext(s) == Reads(s) \/ Enqueues(s) \/ StreamEnds(s)

DatagramNext ==
  (\E d \in Datagrams : ReadsDatagram(d)) \/ EnqueuesDatagram \/ DatagramTaskEnds

ApplicationNext ==
  \/ Dispatch
  \/ \E id \in 0..(MaxChannels - 1) : Receive(id)
  \/ ClearReceivedPayloads
  \/ Disconnect
  \/ DropConnection

NetworkNext ==
  \/ \E s \in Streams : PeerSends(s)
  \/ ConnectionLost

Next ==
  \/ NetworkNext
  \/ \E s \in Streams : Accept(s) \/ StreamNext(s)
  \/ ListenerEnds
  \/ DatagramNext
  \/ ApplicationNext

Spec == Init /\ [][Next]_vars

(* The runtime polls the tasks; a task that waits for a place in the queue *)
(* gets one in its turn, hence the strong fairness of what the tasks do;   *)
(* and the application dispatches on every frame.                          *)
Fairness ==
  /\ \A s \in Streams : WF_vars(Accept(s)) /\ SF_vars(StreamNext(s))
  /\ WF_vars(ListenerEnds)
  /\ SF_vars(DatagramNext)
  /\ WF_vars(Dispatch)

FairSpec == Spec /\ Fairness

-----------------------------------------------------------------------------
(* Properties.                                                             *)

Payloads == UNION {{Payload(x, n) : n \in Numbers(x)} : x \in Sources}

TypeOK ==
  /\ peer \in [Streams -> Nat] /\ read \in [Streams -> Nat]
  /\ \A s \in Streams : read[s] <= peer[s] /\ peer[s] <= Lengths[s]
  /\ flying \in SUBSET Datagrams
  /\ conn \in {"open", "lost"}
  /\ listener \in {"running", "ended"}
  /\ task \in [Streams -> {"none", "reading", "holding", "ended"}]
  /\ sees \in [Streams -> BOOLEAN]
  /\ datagramTask \in {"reading", "holding", "ended"}
  /\ datagram \in Datagrams \cup {None}
  /\ queue \in Seq(Payloads) /\ Len(queue) <= QueueSize
  /\ closed \in BOOLEAN /\ dropped \in BOOLEAN
  /\ state \in {"open", "disconnected"}
  /\ buffers \in Seq(Seq(Payloads)) /\ Len(buffers) <= MaxChannels
  /\ \A i \in DOMAIN buffers : Len(buffers[i]) <= MaxBuffered \/ Len(buffers[i]) = 1
  /\ received \in [Sources -> Seq(Nat)]
  /\ \A x \in Sources : received[x] \in Seq(Numbers(x))
  /\ refused \in SUBSET Payloads /\ cleared \in SUBSET Payloads

(* The payloads that the tasks hold. *)
Held == {Payload(s, read[s]) : s \in {t \in Streams : task[t] = "holding"}}

(* The payloads on their way from the tasks to the application. *)
Kept == Held \cup ToSet(queue) \cup Buffered

(* Where a payload that was read is by now. *)
Places(p) ==
  {<<"queue", i>> : i \in {k \in DOMAIN queue : queue[k] = p}}
    \cup {<<"received", i>> : i \in {k \in DOMAIN received[p.from] : received[p.from][k] = p.n}}
    \cup (UNION {{<<"buffer", i, j>> : j \in {k \in DOMAIN buffers[i] : buffers[i][k] = p}}
                  : i \in DOMAIN buffers})
    \cup {<<"refused">> : x \in refused \cap {p}}
    \cup {<<"cleared">> : x \in cleared \cap {p}}
    \cup {<<"held">> : x \in Held \cap {p}}

(* A payload that was read from a stream is in one place: until the        *)
(* connection is closed none vanishes without an error event, and none is  *)
(* ever there twice (recv.rs, the send that waits for a place;             *)
(* dispatch_received_payloads_to_channel_buffers, its RecvChannelErrors).  *)
EachInOnePlace ==
  \A s \in Streams : \A n \in 1..read[s] :
    LET places == Cardinality(Places(Payload(s, n)))
    IN places <= 1 /\ (~closed => places = 1)

(* The application takes the payloads of a stream in the order in which    *)
(* they were sent, and a gap is one it was told of or made itself          *)
(* (channels.rs, "processed by the receiving end in the same order").      *)
OrderIsKept ==
  \A x \in Sources : \A j \in DOMAIN received[x] :
    LET n == received[x][j]
        earlier == {received[x][i] : i \in 1..(j - 1)}
    IN /\ \A k \in earlier : k < n
       /\ \A k \in 1..(n - 1) : k \in earlier \/ Payload(x, k) \in refused \cup cleared

(* The receiving half is a Transfer of each stream to the application,     *)
(* which is told of the payloads that were refused, and knows of those it  *)
(* cleared.  Streams break when the connection is closed on this side.     *)
(* (Datagrams are excluded: the network may lose them unseen.)             *)
ToApplication == INSTANCE Transfer WITH
  Channels <- Streams,
  Payloads <- UNION {Numbers(s) : s \in Streams},
  ordered <- Streams,
  broken <- IF closed THEN Streams ELSE {},
  pending <- [s \in Streams |->
    {n \in 1..peer[s] : n <= read[s] => Payload(s, n) \in Kept}],
  delivered <- [s \in Streams |-> received[s]],
  told <- [s \in Streams |-> {n \in 1..peer[s] : Payload(s, n) \in refused \cup cleared}],
  lost <- [s \in Streams |-> 
    {n \in 1..read[s] : /\ Payload(s, n) \notin Kept \cup refused \cup cleared
                        /\ ~Contains(received[s], n)}]

(* The application takes one payload of a stream at a time, the oldest     *)
(* that is left; what it was told of, and what got lost as the connection  *)
(* closed, never turns up later; and before that nothing gets lost.        *)
Transfers == ToApplication!Spec

(* The payload reached its buffer, or the application was told that it did *)
(* not; behind a frame that the decoder refuses nothing is read.           *)
Settled(s, n) ==
  \/ Payload(s, n) \in Buffered \cup refused \cup cleared
  \/ Contains(received[s], n)
  \/ \E m \in 1..n : <<s, m>> \in Refused

(* What the peer sent on a stream is buffered for the application, or the  *)
(* application is told that it is not, as long as the connection lasts:    *)
(* neither a full queue nor the full buffer of another channel holds it up *)
(* for good.  (The peer sends finitely often.)                             *)
EverythingIsDispatched ==
  []<>(closed \/ conn = "lost" \/ \A s \in Streams : \A n \in 1..peer[s] : Settled(s, n))

(* With the PeerConnection the tasks end, also those of streams that were  *)
(* accepted after the close was broadcast.                                 *)
DroppedIsReleased ==
  dropped ~> /\ listener = "ended" /\ datagramTask = "ended"
             /\ \A s \in Streams : task[s] \in {"none", "ended"}

=============================================================================
