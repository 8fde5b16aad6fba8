--------------------------- MODULE ServerEndpoint ---------------------------
(***************************************************************************)
(* A server Endpoint and the connections of its clients: the task that     *)
(* accepts them, a client_connection_task for each, the watcher that waits *)
(* for the end of its QUIC connection, and the application thread, which   *)
(* owns the clients, hands out their ids, opens and closes channels on all *)
(* of them, and raises the events.                                         *)
(*                                                                         *)
(* A new connection's PeerConnection travels to the application in a       *)
(* ClientConnected message; the tasks of the connection are spawned when   *)
(* the acknowledgement comes back.  What happens inside of the channels is *)
(* the subject of SendChannels; here a channel is registered, has a task,  *)
(* or has lost it.  Payloads and the statistics are left out.              *)
(***************************************************************************)
EXTENDS Integers, Sequences, FiniteSets

CONSTANTS
  Peers,            \* the connections that come in over time
  ChannelIds,       \* the ids of the pool, 0..255 in the code
  InboxSize,        \* capacity of the queue of ServerAsyncMessages
  None

ASSUME PeersAssumption == IsFiniteSet(Peers) /\ None \notin Peers
ASSUME IdsAssumption == ChannelIds \subseteq Nat
ASSUME InboxAssumption == InboxSize \in Nat \ {0}

ClientIds == 1..Cardinality(Peers)

VARIABLES
  (* the QuinnetServer *)
  listening,    \* it has its endpoint
  clients,      \* the peer connected under each client id
  clientIdGen,  \* the last client id given
  available,    \* channel ids in the pool
  opened,       \* opened_channels
  defaultChannel, \* its id, in a set; {} for None
  slot,         \* the channel of a peer at each id: "none", "queued", "running", "dead"
  (* messages *)
  inbox,        \* ServerAsyncMessages
  ack,          \* ClientConnectedAck waits for the connection's task
  clientId,     \* the id it carries, which the task keeps; 0 before
  (* async side *)
  accepting,    \* endpoint_task runs
  phase,        \* how far each peer's connection has come
  holder,       \* who has its PeerConnection: "none", "inbox", "server", "nobody"
  watcher,
  quic,
  (* history *)
  raised,       \* the events raised about each peer
  disconnected, \* the application disconnected it
  chosen        \* the default channel, if the application named it when it was not open

server == <<listening, clients, clientIdGen, available, opened, defaultChannel, slot>>
async == <<accepting, phase, watcher, quic>>
history == <<raised, disconnected, chosen>>
vars == <<server, inbox, ack, clientId, holder, async, history>>

NoChannel == [id \in ChannelIds |-> "none"]

Init ==
  /\ listening = TRUE
  /\ clients = [i \in ClientIds |-> None]
  /\ clientIdGen = 0
  /\ available = ChannelIds
  /\ opened = {}
  /\ defaultChannel = {}
  /\ slot = [p \in Peers |-> NoChannel]
  /\ inbox = <<>>
  /\ ack = [p \in Peers |-> FALSE]
  /\ clientId = [p \in Peers |-> 0]
  /\ accepting = TRUE
  /\ phase = [p \in Peers |-> "none"]
  /\ holder = [p \in Peers |-> "none"]
  /\ watcher = [p \in Peers |-> "none"]
  /\ quic = [p \in Peers |-> "none"]
  /\ raised = [p \in Peers |-> <<>>]
  /\ disconnected = [p \in Peers |-> FALSE]
  /\ chosen = {}

Connected == {p \in Peers : \E i \in ClientIds : clients[i] = p}

Becomes(p, ph) == phase' = [phase EXCEPT ![p] = ph]

-----------------------------------------------------------------------------
(* The task that accepts connections, one handshake at a time.             *)

Arrives(p) ==
  /\ phase[p] = "none"
  /\ Becomes(p, "incoming")
  /\ UNCHANGED <<server, inbox, ack, clientId, holder, accepting, watcher, quic, history>>

Accept(p) ==
  /\ accepting
  /\ phase[p] = "incoming"
  /\ \A q \in Peers : phase[q] # "handshake"
  /\ Becomes(p, "handshake")
  /\ UNCHANGED <<server, inbox, ack, clientId, holder, accepting, watcher, quic, history>>

HandshakeSucceeds(p) ==
  /\ phase[p] = "handshake"
  /\ Becomes(p, "announcing")
  /\ quic' = [quic EXCEPT ![p] = "open"]
  /\ UNCHANGED <<server, inbox, ack, clientId, holder, accepting, watcher, history>>

(* Mutant: the loop ends with the first handshake that fails. *)
HandshakeFailureEndsLoop(p) ==
  /\ phase[p] = "handshake"
  /\ Becomes(p, "gone")
  /\ accepting' = FALSE
  /\ UNCHANGED <<server, inbox, ack, clientId, holder, watcher, quic, history>>

HandshakeFails(p) ==
  /\ phase[p] = "handshake"
  /\ Becomes(p, "gone")
  /\ UNCHANGED <<server, inbox, ack, clientId, holder, accepting, watcher, quic, history>>

(* The close signal of stop_endpoint ends the loop, and whatever handshake *)
(* it awaits.                                                              *)
AcceptingEnds ==
  /\ accepting
  /\ ~listening
  /\ accepting' = FALSE
  /\ phase' = [p \in Peers |-> IF phase[p] = "handshake" THEN "gone" ELSE phase[p]]
  /\ UNCHANGED <<server, inbox, ack, clientId, holder, watcher, quic, history>>

-----------------------------------------------------------------------------
(* client_connection_task and the tasks it spawns.                         *)

HandleDropped(p) == quic' = [quic EXCEPT ![p] = IF @ = "open" THEN "closed" ELSE @]

(* Mutant: the queue has no capacity. *)
AnnounceUnbounded(p) ==
  /\ phase[p] = "announcing"
  /\ listening
  /\ inbox' = Append(inbox, [type |-> "ClientConnected", peer |-> p])
  /\ Becomes(p, "waiting")
  /\ holder' = [holder EXCEPT ![p] = "inbox"]
  /\ UNCHANGED <<server, ack, clientId, accepting, watcher, quic, history>>

(* The new connection is announced; without an endpoint the task panics    *)
(* and drops the connection.                                               *)
Announce(p) ==
  /\ phase[p] = "announcing"
  /\ \/ /\ listening
        /\ Len(inbox) < InboxSize
        /\ inbox' = Append(inbox, [type |-> "ClientConnected", peer |-> p])
        /\ Becomes(p, "waiting")
        /\ holder' = [holder EXCEPT ![p] = "inbox"]
        /\ UNCHANGED quic
     \/ /\ ~listening
        /\ Becomes(p, "gone")
        /\ holder' = [holder EXCEPT ![p] = "nobody"]
        /\ HandleDropped(p)
        /\ UNCHANGED inbox
  /\ UNCHANGED <<server, ack, clientId, accepting, watcher, history>>

(* The acknowledgement: the client id is sent, the watcher and the tasks   *)
(* of the channels are spawned.                                            *)
Acknowledged(p) ==
  /\ phase[p] = "waiting"
  /\ ack[p]
  /\ ack' = [ack EXCEPT ![p] = FALSE]
  /\ Becomes(p, "running")
  /\ watcher' = [watcher EXCEPT ![p] = "watching"]
  /\ UNCHANGED <<server, inbox, clientId, holder, accepting, quic, history>>

(* The PeerConnection was dropped before it was acknowledged. *)
Refused(p) ==
  /\ phase[p] = "waiting"
  /\ ~ack[p]
  /\ holder[p] = "nobody"
  /\ Becomes(p, "gone")
  /\ HandleDropped(p)
  /\ UNCHANGED <<server, inbox, ack, clientId, holder, accepting, watcher, history>>

(* Mutant: the message is lost when the queue is full. *)
WatchTries(p) ==
  /\ watcher[p] = "watching"
  /\ quic[p] # "open"
  /\ watcher' = [watcher EXCEPT ![p] = "done"]
  /\ inbox' = IF listening /\ Len(inbox) < InboxSize
              THEN Append(inbox, [type |-> "ClientConnectionClosed", id |-> clientId[p]])
              ELSE inbox
  /\ UNCHANGED <<server, ack, clientId, holder, accepting, phase, quic, history>>

(* The end of the QUIC connection, told under the client's id. *)
Watch(p) ==
  /\ watcher[p] = "watching"
  /\ quic[p] # "open"
  /\ watcher' = [watcher EXCEPT ![p] = "done"]
  /\ \/ /\ listening
        /\ Len(inbox) < InboxSize
        /\ inbox' = Append(inbox, [type |-> "ClientConnectionClosed", id |-> clientId[p]])
     \/ /\ ~listening
        /\ UNCHANGED inbox
  /\ UNCHANGED <<server, ack, clientId, holder, accepting, phase, quic, history>>

(* The spawner creates the task of a channel.  An ordered channel's task   *)
(* panics if it cannot open its stream, which takes its receivers with it. *)
ChannelStarts(p, id) ==
  /\ phase[p] = "running"
  /\ slot[p][id] = "queued"
  /\ \E s \in IF quic[p] = "open" THEN {"running"} ELSE {"running", "dead"} :
       slot' = [slot EXCEPT ![p][id] = s]
  /\ UNCHANGED <<listening, clients, clientIdGen, available, opened, defaultChannel,
                 inbox, ack, clientId, holder, async, history>>

(* The PeerConnection is gone: the channels end and the spawner closes the *)
(* QUIC connection.                                                        *)
TasksClose(p) ==
  /\ phase[p] = "running"
  /\ holder[p] = "nobody"
  /\ Becomes(p, "gone")
  /\ HandleDropped(p)
  /\ UNCHANGED <<server, inbox, ack, clientId, holder, accepting, watcher, history>>

ConnectionLost(p) ==
  /\ quic[p] = "open"
  /\ quic' = [quic EXCEPT ![p] = "lost"]
  /\ UNCHANGED <<server, inbox, ack, clientId, holder, accepting, phase, watcher, history>>

-----------------------------------------------------------------------------
(* The application thread: the messages, handled once per frame.           *)

Raise(p, event) == raised' = [raised EXCEPT ![p] = Append(@, event)]

(* Mutant: the smallest id that is not in use. *)
SmallestFreeId ==
  CHOOSE i \in ClientIds : clients[i] = None /\ \A j \in 1..(i - 1) : clients[j] # None

NextId == clientIdGen + 1

(* Mutant: a new connection starts without the endpoint's channels. *)
NoChannelCreated == NoChannel

(* The channels of a new connection. *)
ChannelsOpened == [id \in ChannelIds |-> IF id \in opened THEN "queued" ELSE "none"]

(* handle_new_connection: every opened channel is created, the connection  *)
(* is acknowledged, the client gets its id.                                *)
HandleClientConnected ==
  /\ listening
  /\ inbox # <<>>
  /\ Head(inbox).type = "ClientConnected"
  /\ inbox' = Tail(inbox)
  /\ LET p == Head(inbox).peer
     IN /\ slot' = [slot EXCEPT ![p] = ChannelsOpened]
        /\ clientIdGen' = clientIdGen + 1
        /\ clients' = [clients EXCEPT ![NextId] = p]
        /\ ack' = [ack EXCEPT ![p] = TRUE]
        /\ clientId' = [clientId EXCEPT ![p] = NextId]
        /\ holder' = [holder EXCEPT ![p] = "server"]
        /\ Raise(p, "Connection")
  /\ UNCHANGED <<listening, available, opened, defaultChannel, async, disconnected,
                 chosen>>

(* internal_disconnect_client: out of the clients, the close signal, the   *)
(* drop of the PeerConnection.                                             *)
Removed(i) ==
  LET p == clients[i]
  IN /\ clients' = [clients EXCEPT ![i] = None]
     /\ holder' = [holder EXCEPT ![p] = "nobody"]
     /\ slot' = [slot EXCEPT ![p] = NoChannel]

(* Mutant: the event does not depend on the client being there. *)
ClosedUnchecked(i) ==
  /\ IF clients[i] # None THEN Removed(i) ELSE UNCHANGED <<clients, holder, slot>>
  /\ Raise(CHOOSE p \in Peers : clientId[p] = i, "Lost")

Closed(i) ==
  IF clients[i] # None THEN Removed(i) /\ Raise(clients[i], "Lost")
                       ELSE UNCHANGED <<clients, holder, slot, raised>>

HandleClientConnectionClosed ==
  /\ listening
  /\ inbox # <<>>
  /\ Head(inbox).type = "ClientConnectionClosed"
  /\ inbox' = Tail(inbox)
  /\ Closed(Head(inbox).id)
  /\ UNCHANGED <<listening, clientIdGen, available, opened, defaultChannel, ack,
                 clientId, async, disconnected, chosen>>

(* The channels of a client, or the task that sends its id, report that    *)
(* they could not send: from the time they run such a message may wait.    *)
(* The event comes first, the client is removed at the end of the system.  *)
HandleLostConnection(i) ==
  /\ listening
  /\ clients[i] # None
  /\ phase[clients[i]] = "running"
  /\ Removed(i)
  /\ Raise(clients[i], "Lost")
  /\ UNCHANGED <<listening, clientIdGen, available, opened, defaultChannel, inbox, ack,
                 clientId, async, disconnected, chosen>>

-----------------------------------------------------------------------------
(* The application thread: its own orders.                                 *)

DisconnectClient(i) ==
  /\ listening
  /\ clients[i] # None
  /\ Removed(i)
  /\ disconnected' = [disconnected EXCEPT ![clients[i]] = TRUE]
  /\ UNCHANGED <<listening, clientIdGen, available, opened, defaultChannel, inbox, ack,
                 clientId, async, raised, chosen>>

DisconnectAllClients ==
  /\ listening
  /\ Connected # {}
  /\ clients' = [i \in ClientIds |-> None]
  /\ holder' = [p \in Peers |-> IF p \in Connected THEN "nobody" ELSE holder[p]]
  /\ slot' = [p \in Peers |-> NoChannel]
  /\ disconnected' = [p \in Peers |-> disconnected[p] \/ p \in Connected]
  /\ UNCHANGED <<listening, clientIdGen, available, opened, defaultChannel, inbox, ack,
                 clientId, async, raised, chosen>>

(* Mutant: the connections that still wait in the queue are not dropped. *)
LetGoOfClients == [p \in Peers |-> IF p \in Connected THEN "nobody" ELSE holder[p]]

LetGoOfAll ==
  [p \in Peers |-> IF holder[p] \in {"inbox", "server"} THEN "nobody" ELSE holder[p]]

(* stop_endpoint: disconnect_all_clients, the close signal to the loop,    *)
(* and the endpoint is dropped with its queue and the connections in it.   *)
StopEndpoint ==
  /\ listening
  /\ listening' = FALSE
  /\ clients' = [i \in ClientIds |-> None]
  /\ holder' = LetGoOfAll
  /\ slot' = [p \in Peers |-> NoChannel]
  /\ disconnected' = [p \in Peers |-> disconnected[p] \/ p \in Connected]
  /\ inbox' = <<>>
  /\ UNCHANGED <<clientIdGen, available, opened, defaultChannel, ack, clientId, async,
                 raised, chosen>>

Lowest(ids) == {i \in ids : \A j \in ids : i <= j}

(* The clients P get the channel that was created for them. *)
Registered(id, P) ==
  slot' = [p \in Peers |-> IF p \in P THEN [slot[p] EXCEPT ![id] = "queued"] ELSE slot[p]]

(* open_channel: the channel is created for every client, then registered  *)
(* for every client.  The first one becomes the default channel.           *)
OpenChannel ==
  /\ listening
  /\ \E id \in Lowest(available) :
       /\ available' = available \ {id}
       /\ defaultChannel' = IF defaultChannel = {} THEN {id} ELSE defaultChannel
       /\ opened' = opened \cup {id}
       /\ Registered(id, Connected)
       /\ chosen' = chosen \ {id}
  /\ UNCHANGED <<listening, clients, clientIdGen, inbox, ack, clientId, holder, async,
                 raised, disconnected>>

(* Mutant: each channel is registered as soon as it is created. *)
RegisteredAtOnce(id, P) == Registered(id, P)

(* What remains of the channels created for the clients P when an open     *)
(* fails at the next client: none was registered yet, and they are dropped *)
(* (to their tasks, an open followed by a close).                          *)
LeftOver(id, P) == UNCHANGED slot

(* open_channel when a client's queue of CreateChannel messages is full or *)
(* closed: the id is taken and goes back, and is not the default channel   *)
(* any more.                                                               *)
OpenChannelFails ==
  /\ listening
  /\ \E id \in Lowest(available), P \in SUBSET Connected :
       /\ P # Connected
       /\ LeftOver(id, P)
       /\ defaultChannel' = defaultChannel \ {id}
  /\ UNCHANGED <<listening, clients, clientIdGen, available, opened, inbox, ack,
                 clientId, holder, async, history>>

(* The clients P lose their channel. *)
Unregistered(id, P) ==
  slot' = [p \in Peers |-> IF p \in P THEN [slot[p] EXCEPT ![id] = "none"] ELSE slot[p]]

(* set_default_channel takes any id, that of a closed channel or of none.  *)
SetDefaultChannel(id) ==
  /\ listening
  /\ defaultChannel' = {id}
  /\ chosen' = {id} \ opened
  /\ UNCHANGED <<listening, clients, clientIdGen, available, opened, slot, inbox, ack,
                 clientId, holder, async, raised, disconnected>>

(* A client whose channel can be signalled. *)
Closable(p, id) == slot[p][id] \in {"queued", "running"}

(* Mutant: the id that is given back stays the default channel. *)
ReleasedButDefault(id) ==
  /\ available' = available \cup {id}
  /\ UNCHANGED defaultChannel

(* release_id *)
Released(id) ==
  /\ available' = available \cup {id}
  /\ defaultChannel' = defaultChannel \ {id}

(* close_channel, when the channel of every client can be signalled. *)
CloseChannel(id) ==
  /\ listening
  /\ id \in opened
  /\ \A p \in Connected : Closable(p, id)
  /\ opened' = opened \ {id}
  /\ Released(id)
  /\ Unregistered(id, Connected)
  /\ UNCHANGED <<listening, clients, clientIdGen, inbox, ack, clientId, holder, async,
                 history>>

(* Mutant: the id goes back to the pool all the same. *)
CloseChannelReleases(id) ==
  /\ listening
  /\ id \in opened
  /\ opened' = opened \ {id}
  /\ Released(id)
  /\ \E p \in Connected, P \in SUBSET Connected :
       /\ ~Closable(p, id)
       /\ \A q \in P : Closable(q, id)
       /\ Unregistered(id, P \cup {p})
  /\ UNCHANGED <<listening, clients, clientIdGen, inbox, ack, clientId, holder, async,
                 history>>

(* close_channel gives up at the first client whose channel has no task    *)
(* any more, after those that come before it in the order of the map.  The *)
(* id does not return, and may remain the default channel.                 *)
CloseChannelFails(id) ==
  /\ listening
  /\ id \in opened
  /\ opened' = opened \ {id}
  /\ \E p \in Connected, P \in SUBSET Connected :
       /\ ~Closable(p, id)
       /\ \A q \in P : Closable(q, id)
       /\ Unregistered(id, P \cup {p})
  /\ UNCHANGED <<listening, clients, clientIdGen, available, defaultChannel, inbox, ack,
                 clientId, holder, async, history>>

-----------------------------------------------------------------------------

HandleMessages ==
  HandleClientConnected \/ HandleClientConnectionClosed

ApplicationNext ==
  \/ HandleMessages
  \/ \E i \in ClientIds : HandleLostConnection(i) \/ DisconnectClient(i)
  \/ DisconnectAllClients
  \/ StopEndpoint
  \/ OpenChannel
  \/ OpenChannelFails
  \/ \E id \in ChannelIds :
       CloseChannel(id) \/ CloseChannelFails(id) \/ SetDefaultChannel(id)

AcceptNext(p) == Accept(p) \/ HandshakeSucceeds(p) \/ HandshakeFails(p)

(* The steps of a connection that nothing but a full queue holds up. *)
ConnectionNext(p) ==
  Announce(p) \/ Acknowledged(p) \/ Refused(p) \/ Watch(p) \/ TasksClose(p)

Next ==
  \/ ApplicationNext
  \/ \E p \in Peers : \/ Arrives(p)
                     \/ AcceptNext(p)
                     \/ ConnectionNext(p)
                     \/ \E id \in ChannelIds : ChannelStarts(p, id)
                     \/ ConnectionLost(p)
  \/ AcceptingEnds

Spec == Init /\ [][Next]_vars

(* handle_server_events runs on every frame; the runtime polls the tasks,  *)
(* and QUIC ends a handshake that stalls.  A task that waits for a place   *)
(* in the queue gets one in its turn, so that its fairness is strong.      *)
(* TasksClose stands for what DisconnectedIsClosed of SendChannels shows   *)
(* of the server: its fairness is that of a peer that reads.               *)
Fairness ==
  /\ WF_vars(HandleMessages)
  /\ WF_vars(AcceptingEnds)
  /\ \A p \in Peers : WF_vars(AcceptNext(p)) /\ SF_vars(ConnectionNext(p))

FairSpec == Spec /\ Fairness

-----------------------------------------------------------------------------
(* Properties.                                                             *)

Messages ==
  [type : {"ClientConnected"}, peer : Peers]
    \cup [type : {"ClientConnectionClosed"}, id : ClientIds]

TypeOK ==
  /\ listening \in BOOLEAN
  /\ clients \in [ClientIds -> Peers \cup {None}]
  /\ clientIdGen \in 0..Cardinality(Peers)
  /\ available \in SUBSET ChannelIds
  /\ opened \in SUBSET ChannelIds
  /\ defaultChannel \in SUBSET ChannelIds /\ Cardinality(defaultChannel) <= 1
  /\ slot \in [Peers -> [ChannelIds -> {"none", "queued", "running", "dead"}]]
  /\ inbox \in Seq(Messages) /\ Len(inbox) <= InboxSize
  /\ ack \in [Peers -> BOOLEAN]
  /\ clientId \in [Peers -> ClientIds \cup {0}]
  /\ accepting \in BOOLEAN
  /\ phase \in [Peers -> {"none", "incoming", "handshake", "announcing", "waiting",
                          "running", "gone"}]
  /\ holder \in [Peers -> {"none", "inbox", "server", "nobody"}]
  /\ watcher \in [Peers -> {"none", "watching", "done"}]
  /\ quic \in [Peers -> {"none", "open", "lost", "closed"}]
  /\ raised \in [Peers -> Seq({"Connection", "Lost"})]
  /\ disconnected \in [Peers -> BOOLEAN]
  /\ chosen \in SUBSET ChannelIds

(* An opened channel exists on the connection of every client, whether it  *)
(* came before or after the channel.                                       *)
OpenedForAll ==
  \A p \in Connected, id \in opened : slot[p][id] # "none"

(* A channel id in the pool is used by no client, and not by default:      *)
(* reopening it never mixes the new channel with what is left of an old    *)
(* one, nor sends payloads on it that were meant for the old one, even     *)
(* after an open or a close that failed half-way (create_endpoint_channel, *)
(* close_channel, release_id).  Only the application itself can make such  *)
(* an id the default, by naming it when no channel is open under it.       *)
FreeIdsAreUnregistered ==
  /\ \A p \in Connected, id \in available : slot[p][id] = "none"
  /\ defaultChannel \cap available \subseteq chosen

(* A ClientConnectionClosed message that is still on its way never hits    *)
(* another connection that got the same id meanwhile.                      *)
ClosedIsOwn ==
  \A k \in DOMAIN inbox : inbox[k].type = "ClientConnectionClosed" =>
    LET p == clients[inbox[k].id]
    IN p # None => quic[p] # "open"

(* The events about a client: it is announced once; it is lost at most     *)
(* once although its watcher and each of its channels may report it; never *)
(* while it is still a client, and never after the application itself      *)
(* disconnected it.                                                        *)
EventsMakeSense ==
  \A p \in Peers :
    /\ raised[p] \in {<<>>, <<"Connection">>, <<"Connection", "Lost">>}
    /\ p \in Connected => raised[p] = <<"Connection">>
    /\ disconnected[p] => raised[p] = <<"Connection">>

(* A client whose connection ended is removed, even if the message about   *)
(* it had to wait for a place in the queue.                                *)
LostClientIsRemoved ==
  \A p \in Peers : p \in Connected /\ quic[p] # "open" ~> p \notin Connected

(* A connection that came in gets its handshake, however those before it   *)
(* in the loop end.                                                        *)
EveryoneIsServed ==
  \A p \in Peers : phase[p] = "incoming" ~> phase[p] # "incoming" \/ ~listening

(* Once its PeerConnection is dropped, by a disconnect or a refusal, or    *)
(* the endpoint is stopped, however far the connection has come by then,   *)
(* its task ends and its QUIC connection with it.                          *)
DroppedIsClosed ==
  \A p \in Peers :
    (holder[p] = "nobody" \/ ~listening) /\ phase[p] \notin {"none", "incoming"}
      ~> phase[p] = "gone" /\ quic[p] # "open"

(* What the comment of close_channel promises: no new message can be sent  *)
(* on a channel after it, successful or not, to any client.                *)
ClosedForAll ==
  \A p \in Connected, id \in ChannelIds \ opened : slot[p][id] = "none"

=============================================================================
