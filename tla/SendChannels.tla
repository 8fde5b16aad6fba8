---------------------------- MODULE SendChannels ----------------------------
(***************************************************************************)
(* The sending half of ONE connection to a peer, from the application's    *)
(* calls on a PeerConnection to the frames handed to QUIC.                 *)
(*                                                                         *)
(* The application thread owns the PeerConnection: the slots of the opened *)
(* channels, the pool of channel ids, and the sender of the connection's   *)
(* close signal.  On the async side run the spawner task, which creates a  *)
(* task for every channel, these channel tasks, and the short-lived tasks  *)
(* that an unordered channel starts for each message.  The two sides share *)
(* only queues: CreateChannel messages, one payload queue per channel, a   *)
(* broadcast close signal and the LostConnection reports.                  *)
(*                                                                         *)
(* The two flavours of the connection differ where Side is mentioned: the  *)
(* client keeps its PeerConnection after disconnecting, becomes Connected  *)
(* by a message even then, and its spawner subscribes to the close signal  *)
(* only when it starts; the server drops the PeerConnection at once and    *)
(* its spawner owns the first receiver.                                    *)
(*                                                                         *)
(* The peer reads when it likes, or never.  A write waits while the peer   *)
(* has not read what was written before, and a new stream waits while the  *)
(* peer has not read old ones to their end.                                *)
(***************************************************************************)
EXTENDS Integers, Sequences, FiniteSets

CONSTANTS
  Side,             \* "client" or "server"
  ChannelIds,       \* the ids of the pool, 0..255 in the code
  Channels,         \* the channels opened over time, 1..n: a bound of the model
  Kinds,            \* the channel types the application opens
  MaxPayloads,      \* how many payloads the application sends: a bound of the model
  Oversized,        \* the payloads too large for a frame or a datagram
  QueueSize,        \* capacity of a channel's payload queue
  CreateQueueSize,  \* capacity of the queue of CreateChannel messages
  MaxStreams,       \* streams that the peer allows before it has read one to its end
  Window,           \* payloads of a channel that QUIC takes before the peer reads any
  None              \* an empty slot

Payloads == 1..MaxPayloads

ASSUME SideAssumption == Side \in {"client", "server"}
ASSUME IdsAssumption == ChannelIds \subseteq Nat
ASSUME ChannelsAssumption == Channels \subseteq Nat /\ None \notin Channels
ASSUME KindsAssumption ==
  /\ Kinds \subseteq {"OrderedReliable", "UnorderedReliable", "Unreliable"}
  /\ None \notin {"OrderedReliable", "UnorderedReliable", "Unreliable"}
ASSUME PayloadsAssumption == MaxPayloads \in Nat /\ Oversized \subseteq Payloads
ASSUME QueuesAssumption == QueueSize \in Nat /\ CreateQueueSize \in Nat
ASSUME StreamsAssumption == MaxStreams \in Nat \ {0} /\ Window \in Nat \ {0}

VARIABLES
  (* owned by the application thread *)
  state,         \* "open" (Connecting or Connected) or "disconnected"
  dropped,       \* the PeerConnection is gone, and every sender it owned with it
  available,     \* ids in the pool
  sendChannels,  \* the channel registered at each id, or None
  nextPayload,   \* the next payload to send
  (* shared *)
  toChannels,    \* queued CreateChannel messages: the channels they create
  queue,         \* payloads accepted for a channel and not yet taken by its task
  lostReported,  \* a LostConnection message waits for the application
  announced,     \* the Connected or ConnectionFailed message was handled
  endHandled,    \* the ConnectionClosed message was handled
  (* owned by the async tasks *)
  spawner,       \* "absent", "select", "waiting", "gone"
  spawnerSignalled,  \* a close was broadcast to its receiver
  kind,          \* the type of each channel
  task,          \* what the task of each channel is doing
  taskSignal,    \* the reason first broadcast to each task, or "no"
  buf,           \* frames a task encoded and has not handed to QUIC yet
  inflight,      \* messages of an unordered channel, each in a task of its own
  quic,          \* "open", "lost", "failed" to connect, "closed" by this side
  wire,          \* frames and datagrams handed to QUIC, per channel
  unread,        \* what the peer has not read yet of each channel: payloads and
                 \* the end of its stream, or the streams of an unordered channel
  (* history *)
  accepted,      \* sendable payloads for which the application was told Ok, per channel
  late           \* those accepted when the channel's task had found its queue empty

app == <<state, dropped, available, sendChannels, nextPayload>>
inbox == <<lostReported, announced, endHandled>>
signals == <<spawnerSignalled, taskSignal>>
tasks == <<kind, task, buf, inflight>>
network == <<quic, wire, unread>>
history == <<accepted, late>>
vars == <<app, toChannels, queue, inbox, spawner, signals, tasks, network, history>>

-----------------------------------------------------------------------------

(* The task has its stream, if it needs one, and takes payloads. *)
Active == {"running", "flushing", "finishing"}

(* Mutant: the tasks of an unordered channel do not clone the keepalive. *)
LiveWithoutMessages(c) == task[c] \in {"opening"} \cup Active

(* Mutant: the keepalive is cloned into the CreateChannel message. *)
LiveWhenQueued(c) == task[c] \in {"queued", "opening"} \cup Active \/ inflight[c] # {}

(* A task that holds a clone of the spawner's keepalive sender. *)
Live(c) == task[c] \in {"opening"} \cup Active \/ inflight[c] # {}

(* Somebody still owns the receiving end of the channel's payload queue. *)
Receiving(c) == task[c] \in {"queued", "opening"} \cup Active

(* The Channel was taken out of its slot, or dropped with its connection:  *)
(* the task finds its senders gone.                                        *)
Abandoned(c) == \A id \in ChannelIds : sendChannels[id] # c

Lowest(ids) == {i \in ids : \A j \in ids : i <= j}

(* Mutant: the range of the ids goes one too far. *)
NewPoolTooLong == ChannelIds \cup {1 + CHOOSE m \in ChannelIds : \A i \in ChannelIds : i <= m}

NewPool == ChannelIds

Init ==
  /\ state = "open"
  /\ dropped = FALSE
  /\ available = NewPool
  /\ sendChannels = [id \in ChannelIds |-> None]
  /\ nextPayload = 1
  /\ toChannels = <<>>
  /\ queue = [c \in Channels |-> <<>>]
  /\ lostReported = FALSE
  /\ announced = FALSE
  /\ endHandled = FALSE
  /\ spawner = "absent"
  /\ spawnerSignalled = FALSE
  /\ kind = [c \in Channels |-> None]
  /\ task = [c \in Channels |-> "none"]
  /\ taskSignal = [c \in Channels |-> "no"]
  /\ buf = [c \in Channels |-> <<>>]
  /\ inflight = [c \in Channels |-> {}]
  /\ quic = "open"
  /\ wire = [c \in Channels |-> <<>>]
  /\ unread = [c \in Channels |-> 0]
  /\ accepted = [c \in Channels |-> <<>>]
  /\ late = [c \in Channels |-> {}]

-----------------------------------------------------------------------------
(* The application thread.                                                 *)

(* The channel is a fresh one, and channels are used in order. *)
Fresh(c) == task[c] = "none" /\ \A d \in Channels : d < c => task[d] # "none"

(* open_channel: the lowest free id, then a CreateChannel message.  The    *)
(* receiver of these messages lives until the spawner returns.  The server *)
(* reaches only connected clients, the client does not look at its state.  *)
MayOpen == ~dropped /\ (Side = "server" => state = "open")

OpenChannel(c, k) ==
  /\ MayOpen
  /\ Fresh(c)
  /\ spawner # "gone"
  /\ Len(toChannels) < CreateQueueSize
  /\ \E id \in Lowest(available) :
       /\ available' = available \ {id}
       /\ sendChannels' = [sendChannels EXCEPT ![id] = c]
  /\ toChannels' = Append(toChannels, c)
  /\ kind' = [kind EXCEPT ![c] = k]
  /\ task' = [task EXCEPT ![c] = "queued"]
  /\ UNCHANGED <<state, dropped, nextPayload, queue, inbox, spawner, signals,
                 buf, inflight, network, history>>

(* open_channel when the CreateChannel message cannot be queued: the       *)
(* endpoint gives the id back, the client does not.                        *)
OpenChannelFails ==
  /\ MayOpen
  /\ spawner = "gone" \/ Len(toChannels) >= CreateQueueSize
  /\ Side = "client"
  /\ \E id \in Lowest(available) : available' = available \ {id}
  /\ UNCHANGED <<state, dropped, sendChannels, nextPayload, toChannels, queue,
                 inbox, spawner, signals, tasks, network, history>>

(* send_payload_on, when it returns Ok. *)
SendPayload(id) ==
  /\ state = "open"
  /\ nextPayload \in Payloads
  /\ sendChannels[id] # None
  /\ LET c == sendChannels[id]
     IN /\ Receiving(c)
        /\ Len(queue[c]) < QueueSize
        /\ queue' = [queue EXCEPT ![c] = Append(@, nextPayload)]
        /\ IF nextPayload \in Oversized
           THEN UNCHANGED history
           ELSE /\ accepted' = [accepted EXCEPT ![c] = Append(@, nextPayload)]
                /\ late' = IF task[c] = "finishing"
                           THEN [late EXCEPT ![c] = @ \cup {nextPayload}] ELSE late
  /\ nextPayload' = nextPayload + 1
  /\ UNCHANGED <<state, dropped, available, sendChannels, toChannels, inbox,
                 spawner, signals, tasks, network>>

(* close_channel: the slot is emptied first; the id goes back to the pool  *)
(* only when the channel's task was still there to be signalled.           *)
CloseChannel(id) ==
  /\ MayOpen
  /\ sendChannels[id] # None
  /\ sendChannels' = [sendChannels EXCEPT ![id] = None]
  /\ available' = IF Receiving(sendChannels[id]) THEN available \cup {id}
                                                 ELSE available
  /\ UNCHANGED <<state, dropped, nextPayload, toChannels, queue, inbox, spawner,
                 signals, tasks, network, history>>

(* internal_disconnect: no more payloads, then the broadcast, which        *)
(* reaches the receivers that exist: the server's spawner owns one from    *)
(* the start.  A select! takes the first reason it gets.                   *)
BroadcastClose(reason) ==
  /\ state = "open"
  /\ state' = "disconnected"
  /\ spawnerSignalled' = (spawnerSignalled \/ Side = "server" \/ spawner # "absent")
  /\ taskSignal' = [c \in Channels |->
       IF task[c] \in {"opening", "running"} /\ taskSignal[c] = "no" THEN reason
                                                                     ELSE taskSignal[c]]
  /\ UNCHANGED <<dropped, available, sendChannels, nextPayload, toChannels,
                 queue, spawner, tasks, network, history>>

(* What disconnects a connection leaves one that is not open alone. *)
StaysDisconnected ==
  /\ state = "disconnected"
  /\ UNCHANGED <<app, toChannels, queue, spawner, signals, tasks, network, history>>

(* disconnect, disconnect_client *)
Disconnect == BroadcastClose("LocalOrder") /\ UNCHANGED inbox

(* A LostConnection message is handled: the client takes the connection    *)
(* for closed by the peer, the server disconnects the client.              *)
HandleLostConnection ==
  /\ lostReported
  /\ ~dropped
  /\ lostReported' = FALSE
  /\ UNCHANGED <<announced, endHandled>>
  /\ \/ BroadcastClose(IF Side = "client" THEN "PeerClosed" ELSE "LocalOrder")
     \/ StaysDisconnected

(* The task that watches the connection tells the application once of its  *)
(* end, whoever ended it.                                                  *)
HandleConnectionClosed ==
  /\ quic \in {"lost", "closed"}
  /\ ~endHandled
  /\ ~dropped
  /\ endHandled' = TRUE
  /\ UNCHANGED <<lostReported, announced>>
  /\ BroadcastClose("PeerClosed") \/ StaysDisconnected

(* The client's connecting task sends one message at most: Connected or    *)
(* ConnectionFailed, or none if a close signal interrupts its wait for the *)
(* client id.                                                              *)
Announced ==
  /\ Side = "client"
  /\ ~announced
  /\ ~dropped
  /\ announced' = TRUE
  /\ UNCHANGED <<dropped, available, sendChannels, nextPayload, toChannels, queue,
                 lostReported, endHandled, spawner, signals, tasks, network, history>>

(* Connected sets the state whatever it was, so that a disconnected client *)
(* sends, and disconnects, once more.                                      *)
HandleConnected ==
  /\ spawner # "absent" /\ quic # "failed"
  /\ state' = "open"
  /\ Announced

(* ConnectionFailed, of the attempt to connect or of the client id, only   *)
(* changes the state: nothing is broadcast.                                *)
HandleConnectionFailed ==
  /\ spawner # "absent"
  /\ state' = "disconnected"
  /\ Announced

(* The PeerConnection goes away with its channels, senders and receivers:  *)
(* at the end of disconnect_client on the server; on the client only if    *)
(* the application calls close_connection or reconnect.                    *)
DropConnection ==
  /\ state = "disconnected"
  /\ ~dropped
  /\ dropped' = TRUE
  /\ sendChannels' = [id \in ChannelIds |-> None]
  /\ lostReported' = FALSE
  /\ UNCHANGED <<state, available, nextPayload, toChannels, queue, announced,
                 endHandled, spawner, signals, tasks, network, history>>

-----------------------------------------------------------------------------
(* The spawner task.                                                       *)

(* The connection is established; on the client the receiver is made now   *)
(* by resubscribe, on the server it was made with the sender.              *)
SpawnerStarts ==
  /\ spawner = "absent"
  /\ spawner' = "select"
  /\ UNCHANGED <<app, toChannels, queue, inbox, signals, tasks, network, history>>

(* The channels whose CreateChannel message is dropped with the queue. *)
Discarded == [c \in Channels |-> IF task[c] = "queued" THEN "discarded" ELSE task[c]]

(* The client's connection attempt fails: the spawner never exists. *)
ConnectFails ==
  /\ Side = "client"
  /\ spawner = "absent"
  /\ quic = "open"
  /\ quic' = "failed"
  /\ spawner' = "gone"
  /\ toChannels' = <<>>
  /\ task' = Discarded
  /\ UNCHANGED <<app, queue, inbox, signals, kind, buf, inflight, wire, unread,
                 history>>

(* One CreateChannel message: the new task gets a receiver that sees only  *)
(* a close broadcast from now on.                                          *)
SpawnerCreates ==
  /\ spawner = "select"
  /\ toChannels # <<>>
  /\ toChannels' = Tail(toChannels)
  /\ LET c == Head(toChannels)
     IN task' = [task EXCEPT ![c] =
                   IF kind[c] = "OrderedReliable" THEN "opening" ELSE "running"]
  /\ UNCHANGED <<app, queue, inbox, spawner, signals, kind, buf, inflight,
                 network, history>>

(* Mutant: the end of the broadcast does not end the wait. *)
CloseVisibleOnlyAsReason == spawnerSignalled

(* The spawner's close receiver has something to return: a reason, or the  *)
(* end of the broadcast.                                                   *)
CloseVisible == spawnerSignalled \/ dropped

(* The close receiver returns, or the queue of CreateChannel messages has  *)
(* ended, which the drop of the PeerConnection causes too.  Either branch  *)
(* of the select! leaves the messages that are queued where they are.      *)
SpawnerStops ==
  /\ spawner = "select"
  /\ CloseVisible
  /\ spawner' = "waiting"
  /\ UNCHANGED <<app, toChannels, queue, inbox, signals, tasks, network, history>>

(* Every clone of the keepalive sender is gone: connection.close. *)
SpawnerCloses ==
  /\ spawner = "waiting"
  /\ \A c \in Channels : ~Live(c)
  /\ spawner' = "gone"
  /\ quic' = IF quic = "open" THEN "closed" ELSE quic
  /\ unread' = [c \in Channels |-> 0]
  /\ toChannels' = <<>>
  /\ task' = Discarded
  /\ UNCHANGED <<app, queue, inbox, signals, kind, buf, inflight, wire, history>>

-----------------------------------------------------------------------------
(* The channel tasks.                                                      *)

(* A reliable task reports a send error: the message is queued, or the     *)
(* task panics because the application dropped the receiver.               *)
ReportLost(c) ==
  IF dropped THEN /\ task' = [task EXCEPT ![c] = "ended"]
                  /\ UNCHANGED lostReported
             ELSE /\ lostReported' = TRUE
                  /\ UNCHANGED task

(* An error of a send outside of the drain is reported, in it only logged. *)
SendFails(c) ==
  IF task[c] = "running" THEN ReportLost(c) ELSE UNCHANGED <<task, lostReported>>

(* How many streams a channel uses: a sender holds them, or the peer has   *)
(* not read them to their end.                                             *)
Streams(c) ==
  IF kind[c] = "OrderedReliable"
  THEN IF task[c] \in Active \/ unread[c] > 0 THEN 1 ELSE 0
  ELSE Cardinality({m \in inflight[c] : m.opened}) + unread[c]

(* open_uni waits for a stream while the peer allows no more; it returns   *)
(* an error as soon as the connection is gone.                             *)
StreamIsFree ==
  \/ quic # "open"
  \/ Cardinality(UNION {{c} \X (1..Streams(c)) : c \in Channels}) < MaxStreams

(* A write ends when QUIC takes the data, which it does while the peer is  *)
(* not too far behind.                                                     *)
HasRoom(c) == unread[c] < Window

(* An ordered channel opens its stream before it listens to anything, and  *)
(* panics when the connection is gone.                                     *)
TaskOpens(c) ==
  /\ task[c] = "opening"
  /\ StreamIsFree
  /\ task' = [task EXCEPT ![c] = IF quic = "open" THEN "running" ELSE "ended"]
  /\ UNCHANGED <<app, toChannels, queue, inbox, spawner, signals, kind, buf,
                 inflight, network, history>>

TakesHead(c) ==
  /\ task[c] \in {"running", "flushing"}
  /\ queue[c] # <<>>
  /\ queue' = [queue EXCEPT ![c] = Tail(@)]

(* An ordered channel encodes one payload; it takes the next one once the  *)
(* frame was written.  A payload above the limit is an error of the send.  *)
OrderedTakes(c) ==
  /\ kind[c] = "OrderedReliable"
  /\ TakesHead(c)
  /\ buf[c] = <<>>
  /\ LET p == Head(queue[c])
     IN IF p \notin Oversized
        THEN /\ buf' = [buf EXCEPT ![c] = <<p>>]
             /\ UNCHANGED <<task, lostReported>>
        ELSE /\ UNCHANGED buf
             /\ SendFails(c)
  /\ UNCHANGED <<app, toChannels, announced, endHandled, spawner, signals, kind,
                 inflight, network, history>>

(* The frame reaches QUIC, or the write fails. *)
OrderedWrites(c) ==
  /\ task[c] \in Active
  /\ buf[c] # <<>>
  /\ buf' = [buf EXCEPT ![c] = <<>>]
  /\ \/ /\ quic = "open"
        /\ HasRoom(c)
        /\ wire' = [wire EXCEPT ![c] = @ \o buf[c]]
        /\ unread' = [unread EXCEPT ![c] = @ + 1]
        /\ UNCHANGED <<task, lostReported>>
     \/ /\ quic # "open"
        /\ SendFails(c)
        /\ UNCHANGED <<wire, unread>>
  /\ UNCHANGED <<app, toChannels, queue, announced, endHandled, spawner, signals,
                 kind, inflight, quic, history>>

(* An unordered channel starts a task for each payload, which keeps the    *)
(* connection alive and reports an error only outside of the final drain.  *)
UnorderedTakes(c) ==
  /\ kind[c] = "UnorderedReliable"
  /\ TakesHead(c)
  /\ inflight' = [inflight EXCEPT ![c] = @ \cup
       {[payload |-> Head(queue[c]), reports |-> task[c] = "running", opened |-> FALSE]}]
  /\ UNCHANGED <<app, toChannels, inbox, spawner, signals, kind, task, buf,
                 network, history>>

(* That task opens a stream of its own, and panics silently if the         *)
(* connection is gone.                                                     *)
MessageOpens(c, m) ==
  /\ m \in inflight[c] /\ ~m.opened
  /\ StreamIsFree
  /\ inflight' = [inflight EXCEPT ![c] = (@ \ {m}) \cup
       (IF quic = "open" THEN {[m EXCEPT !.opened = TRUE]} ELSE {})]
  /\ UNCHANGED <<app, toChannels, queue, inbox, spawner, signals, kind, task,
                 buf, network, history>>

(* It sends, reports an error to the application if that still listens,    *)
(* ends its stream and returns.                                            *)
MessageSent(c, m) ==
  /\ m \in inflight[c] /\ m.opened
  /\ inflight' = [inflight EXCEPT ![c] = @ \ {m}]
  /\ unread' = [unread EXCEPT ![c] = IF quic = "open" THEN @ + 1 ELSE @]
  /\ \/ /\ quic = "open" /\ m.payload \notin Oversized
        /\ HasRoom(c)
        /\ wire' = [wire EXCEPT ![c] = Append(@, m.payload)]
        /\ UNCHANGED lostReported
     \/ /\ quic # "open" \/ m.payload \in Oversized
        /\ lostReported' = (lostReported \/ (m.reports /\ ~dropped))
        /\ UNCHANGED wire
  /\ UNCHANGED <<app, toChannels, queue, announced, endHandled, spawner, signals,
                 kind, task, buf, quic, history>>

(* An unreliable channel hands the datagram over at once.  Only a lost     *)
(* connection is reported, not a datagram that is too large.               *)
UnreliableTakes(c) ==
  /\ kind[c] = "Unreliable"
  /\ TakesHead(c)
  /\ LET p == Head(queue[c])
     IN IF quic = "open"
        THEN /\ wire' = IF p \in Oversized THEN wire
                        ELSE [wire EXCEPT ![c] = Append(@, p)]
             /\ UNCHANGED <<task, lostReported>>
        ELSE /\ UNCHANGED wire
             /\ SendFails(c)
  /\ UNCHANGED <<app, toChannels, announced, endHandled, spawner, signals, kind,
                 buf, inflight, quic, unread, history>>

(* The reasons with which a branch of the task's select! may end: the      *)
(* broadcast, the channel's own close signal, the end of its senders.      *)
StopReasons(c) ==
  ({taskSignal[c]} \ {"no"}) \cup (IF Abandoned(c) \/ dropped THEN {"LocalOrder"} ELSE {})

(* Mutant: every reason is taken for the peer's. *)
WithoutDrain(reason) == "ended"

(* With PeerClosed the task returns, and drops what is queued; otherwise   *)
(* it goes on to send what is left.                                        *)
AfterStop(reason) == IF reason = "PeerClosed" THEN "ended" ELSE "flushing"

(* The stream of an ordered channel ends with its task, which the peer is  *)
(* to read.                                                                *)
UnreadWhenOver(c) ==
  IF quic = "open" /\ kind[c] = "OrderedReliable"
  THEN [unread EXCEPT ![c] = @ + 1] ELSE unread

(* Mutant: the frame being written is lost with the cancelled branch. *)
TaskStopsMidFrame(c) ==
  /\ task[c] = "running"
  /\ \E reason \in StopReasons(c) :
       /\ task' = [task EXCEPT ![c] = AfterStop(reason)]
       /\ unread' = IF AfterStop(reason) = "ended" THEN UnreadWhenOver(c) ELSE unread
  /\ buf' = [buf EXCEPT ![c] = <<>>]
  /\ UNCHANGED <<app, toChannels, queue, inbox, spawner, signals, kind, inflight,
                 quic, wire, history>>

(* The other branches of the select! are cancelled: a frame that was being *)
(* written stays in the sink's buffer.                                     *)
TaskStops(c) ==
  /\ task[c] = "running"
  /\ \E reason \in StopReasons(c) :
       /\ task' = [task EXCEPT ![c] = AfterStop(reason)]
       /\ unread' = IF AfterStop(reason) = "ended" THEN UnreadWhenOver(c) ELSE unread
  /\ UNCHANGED <<app, toChannels, queue, inbox, spawner, signals, kind, buf,
                 inflight, quic, wire, history>>

(* The drain finds the queue empty, and does not look again. *)
TaskDrained(c) ==
  /\ task[c] = "flushing"
  /\ queue[c] = <<>>
  /\ task' = [task EXCEPT ![c] = "finishing"]
  /\ UNCHANGED <<app, toChannels, queue, inbox, spawner, signals, kind, buf,
                 inflight, network, history>>

(* What the sink still holds is flushed, then the task ends the stream and *)
(* returns; its queue goes with it.                                        *)
TaskEnds(c) ==
  /\ task[c] = "finishing"
  /\ buf[c] = <<>>
  /\ task' = [task EXCEPT ![c] = "ended"]
  /\ unread' = UnreadWhenOver(c)
  /\ UNCHANGED <<app, toChannels, queue, inbox, spawner, signals, kind, buf,
                 inflight, quic, wire, history>>

-----------------------------------------------------------------------------
(* The peer and the network.                                               *)

(* The peer reads a payload, or a stream to its end. *)
PeerReads(c) ==
  /\ unread[c] > 0
  /\ unread' = [unread EXCEPT ![c] = @ - 1]
  /\ UNCHANGED <<app, toChannels, queue, inbox, spawner, signals, tasks, quic,
                 wire, history>>

(* The peer, the network or a timeout ends the connection. *)
ConnectionLost ==
  /\ quic = "open"
  /\ quic' = "lost"
  /\ unread' = [c \in Channels |-> 0]
  /\ UNCHANGED <<app, toChannels, queue, inbox, spawner, signals, tasks, wire, history>>

-----------------------------------------------------------------------------

ApplicationNext ==
  \/ \E c \in Channels, k \in Kinds : OpenChannel(c, k)
  \/ OpenChannelFails
  \/ \E id \in ChannelIds : SendPayload(id) \/ CloseChannel(id)
  \/ Disconnect
  \/ HandleLostConnection
  \/ HandleConnectionClosed
  \/ HandleConnected
  \/ HandleConnectionFailed
  \/ DropConnection

SpawnerNext ==
  SpawnerStarts \/ ConnectFails \/ SpawnerCreates \/ SpawnerStops \/ SpawnerCloses

TaskNext(c) ==
  \/ TaskOpens(c)
  \/ OrderedTakes(c)
  \/ OrderedWrites(c)
  \/ UnorderedTakes(c)
  \/ \E m \in inflight[c] : MessageOpens(c, m) \/ MessageSent(c, m)
  \/ UnreliableTakes(c)
  \/ TaskStops(c)
  \/ TaskDrained(c)
  \/ TaskEnds(c)

PeerNext == (\E c \in Channels : PeerReads(c)) \/ ConnectionLost

Next ==
  ApplicationNext \/ SpawnerNext \/ (\E c \in Channels : TaskNext(c)) \/ PeerNext

Spec == Init /\ [][Next]_vars

(* The runtime polls every task that can go on; the application handles    *)
(* the messages of the async side on every frame, and on the server a      *)
(* disconnected client is dropped before disconnect_client returns.  The   *)
(* peer owes nothing: it may never read.                                   *)
Fairness ==
  /\ WF_vars(SpawnerNext)
  /\ \A c \in Channels : WF_vars(TaskNext(c))
  /\ WF_vars(HandleLostConnection \/ HandleConnectionClosed)
  /\ Side = "server" => WF_vars(DropConnection)

FairSpec == Spec /\ Fairness

-----------------------------------------------------------------------------
(* Properties.                                                             *)

States == {"none", "queued", "discarded", "opening", "ended"} \cup Active

Messages == [payload : Payloads, reports : BOOLEAN, opened : BOOLEAN]

TypeOK ==
  /\ state \in {"open", "disconnected"}
  /\ dropped \in BOOLEAN
  /\ available \in SUBSET ChannelIds
  /\ sendChannels \in [ChannelIds -> Channels \cup {None}]
  /\ nextPayload \in 1..(MaxPayloads + 1)
  /\ toChannels \in Seq(Channels)
  /\ queue \in [Channels -> Seq(Payloads)]
  /\ lostReported \in BOOLEAN
  /\ announced \in BOOLEAN
  /\ endHandled \in BOOLEAN
  /\ spawner \in {"absent", "select", "waiting", "gone"}
  /\ spawnerSignalled \in BOOLEAN
  /\ kind \in [Channels -> Kinds \cup {None}]
  /\ task \in [Channels -> States]
  /\ taskSignal \in [Channels -> {"no", "LocalOrder", "PeerClosed"}]
  /\ buf \in [Channels -> Seq(Payloads)]
  /\ inflight \in [Channels -> SUBSET Messages]
  /\ quic \in {"open", "lost", "failed", "closed"}
  /\ wire \in [Channels -> Seq(Payloads)]
  /\ unread \in [Channels -> Nat]
  /\ accepted \in [Channels -> Seq(Payloads)]
  /\ late \in [Channels -> SUBSET Payloads]

Elements(s) == {s[i] : i \in DOMAIN s}

Increasing(s) == \A i, j \in DOMAIN s : i < j => s[i] < s[j]

(* Nothing but the application's own orders interferes with the sending:   *)
(* the transport works, and no payload was too large.                      *)
Healthy ==
  /\ quic \in {"open", "closed"}
  /\ \A p \in Oversized : p >= nextPayload

(* The payloads of a channel that are on their way: taken by its tasks,    *)
(* or queued while a task will still come to take them.                    *)
Underway(c) ==
  Elements(buf[c]) \cup {m.payload : m \in inflight[c]}
    \cup (IF Receiving(c) THEN Elements(queue[c]) ELSE {})

(* The payloads that came too late for a task which has ended since. *)
Missed(c) == IF task[c] = "ended" THEN late[c] ELSE {}

(* An ordered channel hands QUIC its payloads in the order in which they   *)
(* were accepted (payloads are numbered in that order) and without a gap,  *)
(* whatever cancels its task and whenever the transport fails              *)
(* (channels.rs, "processed by the receiving end in the same order").      *)
OrderedDelivery ==
  \A c \in Channels : kind[c] = "OrderedReliable" =>
    /\ Increasing(wire[c])
    /\ \A p \in Elements(accepted[c]), w \in Elements(wire[c]) :
         p < w => p \in Elements(wire[c])

(* As long as the transport is healthy, every accepted payload of a        *)
(* channel whose task was created is with QUIC or under way to it: closing *)
(* a channel, disconnecting and dropping the connection lose nothing.  The *)
(* one exception is a client that a Connected message reopened after a     *)
(* disconnect, and a payload that it accepts while the channel's task is   *)
(* between the last look at its queue and its end.  It has no match on the *)
(* server.                                                                 *)
NothingLost ==
  /\ Healthy => \A c \in Channels : task[c] # "discarded" =>
       Elements(accepted[c]) = Elements(wire[c]) \cup Underway(c) \cup Missed(c)
  /\ Side = "server" => \A c \in Channels : late[c] = {}

(* connection.close waits for every task that may still send: closing the  *)
(* connection is the last thing that happens to it (tasks.rs, "Wait for    *)
(* all the channels to have flushed/finished").                            *)
ClosedAfterTasks ==
  quic = "closed" => \A c \in Channels :
    task[c] \notin {"opening"} \cup Active /\ inflight[c] = {}

(* The sending half is a Transfer to QUIC.  A channel breaks when the      *)
(* transport fails or a payload was too large, and when it misses payloads *)
(* of a reopened client; one whose CreateChannel message is dropped has    *)
(* never been more than a promise.                                         *)
ToQuic == INSTANCE Transfer WITH
  ordered <- {c \in Channels : kind[c] = "OrderedReliable"},
  broken <- {c \in Channels : ~Healthy \/ task[c] = "discarded" \/ Missed(c) # {}},
  pending <- [c \in Channels |-> Elements(accepted[c]) \cap Underway(c)],
  delivered <- wire,
  told <- [c \in Channels |-> {}],
  lost <- [c \in Channels |->
            Elements(accepted[c]) \ (Elements(wire[c]) \cup Underway(c))]

(* Whatever cancels the tasks, closes channels or drops the connection, a  *)
(* step hands over one payload, the next one if the channel is ordered, or *)
(* none; what is accepted is handed over once, and what was lost, on a     *)
(* channel that broke, never turns up later.                               *)
Transfers == ToQuic!Spec

-----------------------------------------------------------------------------
(* What must happen, if the peer reads.  A drain listens to no close       *)
(* signal, and the keep-alive of the server keeps an idle connection       *)
(* alive: with a peer that stops reading, a task, the spawner and the      *)
(* connection may stay for ever.                                           *)

(* Again and again, the peer has read all that was sent on a channel. *)
PeerReadsAll == \A c \in Channels : []<>(unread[c] = 0)

(* A dropped connection releases its tasks: the spawner returns, even if   *)
(* channels or messages still waited for a stream when it was dropped.     *)
DroppedIsReleased == PeerReadsAll => (dropped ~> spawner = "gone")

(* The channel's own task, or one of its messages, waits for a stream.      *)
WaitsForStream(c) == task[c] = "opening" \/ \E m \in inflight[c] : ~m.opened

(* The spawner has stopped before it came to the CreateChannel message. *)
PassedOver(c) == task[c] = "queued" /\ spawner = "waiting"

(* An accepted payload reaches QUIC, unless the connection ends first,     *)
(* even if its channel is closed or its connection disconnected meanwhile, *)
(* and even if other channels wait for a stream.  A payload that is too    *)
(* large is another matter, see ReliableIsDelivered.  (Payloads are        *)
(* finitely many, and what has become of one does not change again.)       *)
AcceptedIsSent ==
  PeerReadsAll =>
    \A c \in Channels :
      []<>( \/ quic # "open" \/ ~Healthy
            \/ WaitsForStream(c) \/ PassedOver(c)
            \/ Elements(accepted[c]) \subseteq Elements(wire[c]) \cup Missed(c) )

(* What the comment of ClientSideConnection::disconnect promises: the      *)
(* background tasks are told to close, and the connection closes; unless a *)
(* message of the connecting task overtakes it.                            *)
DisconnectedIsClosed ==
  PeerReadsAll => (state = "disconnected" /\ ~announced ~> quic # "open" \/ announced)

(* What the same comment says of the messages: the connection waits for    *)
(* all buffered messages of all its opened channels to be sent.            *)
DisconnectFlushesAll ==
  quic = "closed" /\ Healthy =>
    \A c \in Channels : kind[c] \in {"OrderedReliable", "UnorderedReliable"} =>
      Elements(accepted[c]) = Elements(wire[c])

(* What the comment of ChannelConfig says of reliable channels: messages   *)
(* sent are delivered, unless the transport fails.                         *)
ReliableIsDelivered ==
  quic = "closed" =>
    \A c \in Channels :
      task[c] # "discarded" /\ kind[c] \in {"OrderedReliable", "UnorderedReliable"} =>
        Elements(accepted[c]) = Elements(wire[c])

=============================================================================
