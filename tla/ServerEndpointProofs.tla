------------------------ MODULE ServerEndpointProofs ------------------------
(***************************************************************************)
(* What ServerEndpoint keeps true for any number of connections and of     *)
(* channel ids and any capacity of the queue of messages.                  *)
(***************************************************************************)
EXTENDS ServerEndpoint, FiniteSetTheorems, DataFacts

(* The peers that were given a client id. *)
Announced == {p \in Peers : clientId[p] # 0}

(* Client ids are given once, in order; a client is found under its own.   *)
IdsInv ==
  /\ clientIdGen = Cardinality(Announced)
  /\ \A p \in Peers : clientId[p] <= clientIdGen
  /\ \A p, q \in Announced : clientId[p] = clientId[q] => p = q
  /\ \A i \in ClientIds :
       clients[i] # None => clientId[clients[i]] = i /\ holder[clients[i]] = "server"

(* How far a connection must have come for the rest of its state: no QUIC  *)
(* connection before the handshake, no PeerConnection before it is         *)
(* announced, no client id before it was handled, no watcher before it was *)
(* acknowledged.                                                           *)
StagesInv ==
  \A p \in Peers :
    /\ phase[p] \in {"none", "incoming", "handshake", "announcing"} => holder[p] = "none"
    /\ holder[p] \in {"none", "inbox"} => clientId[p] = 0
    /\ ack[p] => clientId[p] # 0
    /\ watcher[p] # "none" => clientId[p] # 0 /\ phase[p] \in {"running", "gone"}
    /\ watcher[p] = "done" => quic[p] # "open"

(* A connection is announced before it is handled; the end of one is told  *)
(* by its watcher, which is done.                                          *)
Accounted(m) ==
  IF m.type = "ClientConnected" THEN holder[m.peer] = "inbox"
  ELSE \E p \in Peers : clientId[p] = m.id /\ watcher[p] = "done"

(* No connection is announced twice. *)
OneEach(queue) ==
  \A k, l \in DOMAIN queue :
    /\ queue[k].type = "ClientConnected" /\ queue[l].type = "ClientConnected"
    /\ queue[k].peer = queue[l].peer
    => k = l

MessagesInv ==
  /\ \A k \in DOMAIN inbox : Accounted(inbox[k])
  /\ OneEach(inbox)

(* No event is raised about a connection before it has a client id. *)
EventsInv ==
  /\ EventsMakeSense
  /\ \A p \in Peers : /\ clientId[p] = 0 => raised[p] = <<>> /\ ~disconnected[p]
                      /\ p \in Connected => ~disconnected[p]

(* The pool and the opened channels are apart; there is one default        *)
(* channel at most.                                                        *)
ChannelsInv ==
  /\ OpenedForAll
  /\ FreeIdsAreUnregistered
  /\ opened \cap available = {}
  /\ defaultChannel = {} \/ \E id \in ChannelIds : defaultChannel = {id}

(* The inductive invariant. *)
IInv == TypeOK /\ IdsInv /\ StagesInv /\ MessagesInv /\ EventsInv /\ ChannelsInv

-----------------------------------------------------------------------------

LEMMA PeersFacts ==
  /\ Cardinality(Peers) \in Nat
  /\ ClientIds \subseteq Nat \ {0}
  /\ \A P \in SUBSET Peers : /\ IsFiniteSet(P) /\ Cardinality(P) \in Nat
                              /\ Cardinality(P) <= Cardinality(Peers)
<1>1. Cardinality(Peers) \in Nat
  BY PeersAssumption, FS_CardinalityType
<1>2. ASSUME NEW P \in SUBSET Peers
      PROVE  IsFiniteSet(P) /\ Cardinality(P) \in Nat /\ Cardinality(P) <= Cardinality(Peers)
  BY PeersAssumption, FS_Subset, FS_CardinalityType
<1> QED
  BY <1>1, <1>2 DEF ClientIds

LEMMA IInvInit == Init => IInv
<1> SUFFICES ASSUME Init PROVE IInv
  OBVIOUS
<1>1. TypeOK
  <2>1. Cardinality(defaultChannel) <= 1
    BY FS_EmptySet DEF Init
  <2>2. Cardinality(Peers) \in Nat /\ clientIdGen \in 0..Cardinality(Peers)
    BY PeersFacts DEF Init
  <2>3. inbox \in Seq(Messages) /\ Len(inbox) <= InboxSize
    BY InboxAssumption DEF Init
  <2>4. /\ listening \in BOOLEAN /\ accepting \in BOOLEAN
        /\ ack \in [Peers -> BOOLEAN] /\ disconnected \in [Peers -> BOOLEAN]
    BY DEF Init
  <2>5. raised \in [Peers -> Seq({"Connection", "Lost"})]
    BY DEF Init
  <2>6. /\ slot \in [Peers -> [ChannelIds -> {"none", "queued", "running", "dead"}]]
        /\ clients \in [ClientIds -> Peers \cup {None}]
        /\ available \in SUBSET ChannelIds /\ opened \in SUBSET ChannelIds
        /\ defaultChannel \in SUBSET ChannelIds
        /\ clientId \in [Peers -> ClientIds \cup {0}]
    BY DEF Init, NoChannel
  <2> QED
    BY <2>1, <2>2, <2>3, <2>4, <2>5, <2>6 DEF Init, TypeOK
<1>2. IdsInv
  <2>1. Announced = {}
    BY DEF Init, Announced
  <2> QED
    BY <2>1, FS_EmptySet DEF Init, IdsInv
<1>3. Connected = {}
  BY PeersAssumption DEF Init, Connected
<1>4. StagesInv /\ MessagesInv
  BY DEF Init, StagesInv, MessagesInv, OneEach
<1>5. EventsInv
  BY <1>3 DEF Init, EventsInv, EventsMakeSense
<1>6. ChannelsInv
  BY <1>3 DEF Init, ChannelsInv, OpenedForAll, FreeIdsAreUnregistered
<1> QED
  BY <1>1, <1>2, <1>4, <1>5, <1>6 DEF IInv

-----------------------------------------------------------------------------

(* A client is found under its own id and no other. *)
LEMMA ConnectedIndex ==
  ASSUME TypeOK, IdsInv, NEW p
  PROVE  p \in Connected <=>
           p \in Peers /\ clientId[p] # 0 /\ clients[clientId[p]] = p
<1>1. ASSUME p \in Connected
      PROVE  p \in Peers /\ clientId[p] # 0 /\ clients[clientId[p]] = p
  <2>1. p \in Peers /\ p # None
    BY <1>1, PeersAssumption DEF Connected
  <2>2. PICK i \in ClientIds : clients[i] = p
    BY <1>1 DEF Connected
  <2>3. clientId[p] = i /\ i # 0
    BY <2>1, <2>2, PeersFacts DEF IdsInv
  <2> QED
    BY <2>1, <2>2, <2>3
<1>2. ASSUME p \in Peers, clientId[p] # 0, clients[clientId[p]] = p
      PROVE  p \in Connected
  BY <1>2 DEF Connected, TypeOK
<1> QED
  BY <1>1, <1>2

(* internal_disconnect_client takes one client out. *)
LEMMA RemovedFacts ==
  ASSUME TypeOK, IdsInv, NEW i \in ClientIds, clients[i] # None, Removed(i)
  PROVE  /\ clients[i] \in Connected /\ clientId[clients[i]] = i
         /\ holder[clients[i]] = "server"
         /\ Connected' = Connected \ {clients[i]}
         /\ clients' = [clients EXCEPT ![i] = None]
         /\ holder' = [holder EXCEPT ![clients[i]] = "nobody"]
         /\ slot' = [slot EXCEPT ![clients[i]] = NoChannel]
<1> DEFINE p == clients[i]
<1>1. /\ p \in Peers /\ clientId[p] = i /\ holder[p] = "server"
      /\ p \in Connected
  BY DEF TypeOK, IdsInv, Connected
<1>2. clients' = [clients EXCEPT ![i] = None]
  BY DEF Removed
<1>3. ASSUME NEW q \in Peers PROVE q \in Connected' <=> q \in Connected /\ q # p
  <2>1. q \in Connected' <=> \E j \in ClientIds : j # i /\ clients[j] = q
    BY <1>2, PeersAssumption DEF Connected, TypeOK
  <2>2. \A j \in ClientIds : clients[j] = q => clientId[q] = j
    BY PeersAssumption DEF IdsInv
  <2> QED
    BY <1>1, <2>1, <2>2 DEF Connected
<1> QED
  BY <1>1, <1>2, <1>3 DEF Removed, Connected

(* The tasks leave what the application owns as it is, but for the channel *)
(* they start.                                                             *)
AsyncNext ==
  \/ \E p \in Peers : \/ Arrives(p)
                     \/ AcceptNext(p)
                     \/ ConnectionNext(p)
                     \/ \E id \in ChannelIds : ChannelStarts(p, id)
                     \/ ConnectionLost(p)
  \/ AcceptingEnds

LEMMA AsyncLocal ==
  AsyncNext => UNCHANGED <<listening, clients, clientIdGen, available, opened,
                           defaultChannel, clientId, history>>
BY DEF AsyncNext, Arrives, AcceptNext, Accept, HandshakeSucceeds, HandshakeFails,
       ConnectionNext, Announce, Acknowledged, Refused, Watch, TasksClose,
       ChannelStarts, ConnectionLost, AcceptingEnds, server, async, history

(* Every step is of one of these kinds. *)
LEMMA StepCases ==
  ASSUME TypeOK, [Next]_vars
  PROVE  \/ AsyncNext
         \/ HandleClientConnected
         \/ \E i \in ClientIds :
              /\ clients[i] # None
              /\ Removed(i)
              /\ \/ HandleClientConnectionClosed /\ Head(inbox).id = i /\ Raise(clients[i], "Lost")
                 \/ HandleLostConnection(i)
                 \/ DisconnectClient(i)
         \/ /\ HandleClientConnectionClosed
            /\ UNCHANGED <<clients, holder, slot, raised>>
         \/ DisconnectAllClients \/ StopEndpoint
         \/ OpenChannel \/ OpenChannelFails
         \/ \E id \in ChannelIds :
              CloseChannel(id) \/ CloseChannelFails(id) \/ SetDefaultChannel(id)
         \/ UNCHANGED vars
<1>1. CASE HandleClientConnectionClosed
  <2> DEFINE i == Head(inbox).id
  <2>1. i \in ClientIds
    <3>1. Head(inbox) \in Messages /\ Head(inbox).type = "ClientConnectionClosed"
      BY <1>1, TailIndex DEF HandleClientConnectionClosed, TypeOK
    <3> QED
      BY <3>1 DEF Messages
  <2>2. Closed(i)
    BY <1>1 DEF HandleClientConnectionClosed
  <2> QED
    BY <1>1, <2>1, <2>2 DEF Closed
<1>2. ASSUME NEW i \in ClientIds, HandleLostConnection(i) \/ DisconnectClient(i)
      PROVE  clients[i] # None /\ Removed(i)
  BY <1>2 DEF HandleLostConnection, DisconnectClient
<1> QED
  BY <1>1, <1>2 DEF Next, ApplicationNext, HandleMessages, AsyncNext

(* handle_new_connection gives an id that nobody had, to a connection that *)
(* had none; there are enough.                                             *)
LEMMA NewClient ==
  ASSUME TypeOK, IdsInv, StagesInv, MessagesInv, HandleClientConnected
  PROVE  LET p == Head(inbox).peer
         IN /\ p \in Peers /\ holder[p] = "inbox" /\ clientId[p] = 0 /\ p \notin Connected
            /\ inbox \in Seq(Messages) /\ inbox # <<>>
            /\ Head(inbox) = inbox[1] /\ inbox[1].type = "ClientConnected"
            /\ NextId \in ClientIds /\ clients[NextId] = None
            /\ Cardinality(Announced \cup {p}) = NextId
            /\ Connected' = Connected \cup {p}
<1> DEFINE p == Head(inbox).peer
<1>1. /\ inbox \in Seq(Messages) /\ inbox # <<>> /\ 1 \in DOMAIN inbox
      /\ Head(inbox) = inbox[1] /\ inbox[1].type = "ClientConnected"
      /\ inbox[1] \in Messages
  BY TailIndex DEF HandleClientConnected, TypeOK
<1>2. p \in Peers /\ holder[p] = "inbox"
  BY <1>1 DEF Messages, MessagesInv, Accounted
<1>3. clientId[p] = 0 /\ p \notin Connected
  BY <1>2, ConnectedIndex DEF StagesInv
<1>4. Announced \subseteq Peers /\ p \notin Announced
  BY <1>3 DEF Announced
<1>5. Cardinality(Announced \cup {p}) = NextId
  BY <1>4, PeersFacts, FS_AddElement DEF IdsInv, NextId
<1>6. NextId \in ClientIds
  <2>1. Announced \cup {p} \subseteq Peers
    BY <1>2, <1>4
  <2>2. NextId <= Cardinality(Peers)
    BY <1>5, <2>1, PeersFacts
  <2> QED
    BY <2>2, PeersFacts DEF NextId, ClientIds, TypeOK
<1>7. clients[NextId] = None
  <2> SUFFICES ASSUME clients[NextId] # None PROVE FALSE
    OBVIOUS
  <2>1. clients[NextId] \in Peers /\ clientId[clients[NextId]] = clientIdGen + 1
    BY <1>6 DEF TypeOK, IdsInv, NextId
  <2>2. clientIdGen + 1 <= clientIdGen
    BY <2>1 DEF IdsInv
  <2> QED
    BY <2>2, PeersFacts DEF TypeOK
<1>8. Connected' = Connected \cup {p}
  <2>1. clients' = [clients EXCEPT ![NextId] = p]
    BY DEF HandleClientConnected
  <2> QED
    BY <1>2, <1>6, <1>7, <2>1, PeersAssumption DEF Connected, TypeOK
<1> QED
  BY <1>1, <1>2, <1>3, <1>5, <1>6, <1>7, <1>8

-----------------------------------------------------------------------------

LEMMA AsyncTypes ==
  ASSUME TypeOK, StagesInv, AsyncNext
  PROVE  /\ slot' \in [Peers -> [ChannelIds -> {"none", "queued", "running", "dead"}]]
         /\ inbox' \in Seq(Messages) /\ Len(inbox') <= InboxSize
         /\ ack' \in [Peers -> BOOLEAN]
         /\ accepting' \in BOOLEAN
         /\ phase' \in [Peers -> {"none", "incoming", "handshake", "announcing",
                                  "waiting", "running", "gone"}]
         /\ holder' \in [Peers -> {"none", "inbox", "server", "nobody"}]
         /\ watcher' \in [Peers -> {"none", "watching", "done"}]
         /\ quic' \in [Peers -> {"none", "open", "lost", "closed"}]
<1> USE DEF TypeOK
<1>1. ASSUME NEW m \in Messages, Len(inbox) < InboxSize
      PROVE  Append(inbox, m) \in Seq(Messages) /\ Len(Append(inbox, m)) <= InboxSize
  BY <1>1, AppendProperties, LenProperties, InboxAssumption
<1>2. ASSUME NEW p \in Peers
      PROVE  /\ watcher[p] = "watching" =>
                  [type |-> "ClientConnectionClosed", id |-> clientId[p]] \in Messages
             /\ [type |-> "ClientConnected", peer |-> p] \in Messages
  BY <1>2 DEF Messages, StagesInv
<1>3. ASSUME NEW p \in Peers, Arrives(p) \/ AcceptNext(p) \/ ConnectionLost(p)
      PROVE  /\ UNCHANGED <<slot, inbox, ack, accepting, holder, watcher>>
             /\ phase' \in [Peers -> {"none", "incoming", "handshake", "announcing",
                                      "waiting", "running", "gone"}]
             /\ quic' \in [Peers -> {"none", "open", "lost", "closed"}]
  BY <1>3 DEF Arrives, AcceptNext, Accept, HandshakeSucceeds, HandshakeFails, Becomes,
              ConnectionLost, server
<1>9. CASE AcceptingEnds
  BY <1>9 DEF AcceptingEnds, server
<1>4. ASSUME NEW p \in Peers, NEW id \in ChannelIds, ChannelStarts(p, id)
      PROVE  slot' \in [Peers -> [ChannelIds -> {"none", "queued", "running", "dead"}]]
  <2>1. PICK s \in {"running", "dead"} : slot' = [slot EXCEPT ![p][id] = s]
    BY <1>4 DEF ChannelStarts
  <2> QED
    BY <2>1
<1>5. CASE \E p \in Peers : \E id \in ChannelIds : ChannelStarts(p, id)
  BY <1>4, <1>5 DEF ChannelStarts, async
<1>6. ASSUME NEW p \in Peers, Announce(p)
      PROVE  /\ UNCHANGED <<slot, ack, accepting, watcher>>
             /\ inbox' \in Seq(Messages) /\ Len(inbox') <= InboxSize
             /\ phase' \in [Peers -> {"none", "incoming", "handshake", "announcing",
                                      "waiting", "running", "gone"}]
             /\ holder' \in [Peers -> {"none", "inbox", "server", "nobody"}]
             /\ quic' \in [Peers -> {"none", "open", "lost", "closed"}]
  <2>1. inbox' \in Seq(Messages) /\ Len(inbox') <= InboxSize
    <3>1. \/ UNCHANGED inbox
          \/ /\ Len(inbox) < InboxSize
             /\ inbox' = Append(inbox, [type |-> "ClientConnected", peer |-> p])
      BY <1>6 DEF Announce
    <3> QED
      BY <1>1, <1>2, <3>1
  <2> QED
    BY <1>6, <2>1 DEF Announce, Becomes, HandleDropped, server
<1>7. ASSUME NEW p \in Peers, Watch(p)
      PROVE  /\ UNCHANGED <<slot, ack, accepting, phase, holder, quic>>
             /\ inbox' \in Seq(Messages) /\ Len(inbox') <= InboxSize
             /\ watcher' \in [Peers -> {"none", "watching", "done"}]
  <2>1. inbox' \in Seq(Messages) /\ Len(inbox') <= InboxSize
    BY <1>1, <1>2, <1>7 DEF Watch
  <2> QED
    BY <1>7, <2>1 DEF Watch, server
<1>8. CASE \E p \in Peers : Acknowledged(p) \/ Refused(p) \/ TasksClose(p)
  BY <1>8, ZenonT(60) DEF Acknowledged, Refused, TasksClose, Becomes, HandleDropped, server
<1> QED
  BY <1>3, <1>5, <1>6, <1>7, <1>8, <1>9 DEF AsyncNext, ConnectionNext

(* At most one element, in the form the type invariant states it. *)
LEMMA AtMostOne ==
  ASSUME NEW S, S = {} \/ \E id \in ChannelIds : S = {id}
  PROVE  Cardinality(S) <= 1
<1>1. CASE S = {}
  BY <1>1, FS_EmptySet
<1>2. ASSUME NEW id \in ChannelIds, S = {id} PROVE Cardinality(S) <= 1
  BY <1>2, FS_Singleton
<1> QED
  BY <1>1, <1>2

LEMMA DefaultStep ==
  ASSUME TypeOK, ChannelsInv, [Next]_vars
  PROVE  /\ defaultChannel' = {} \/ \E id \in ChannelIds : defaultChannel' = {id}
         /\ chosen' \in SUBSET ChannelIds
<1>1. CASE UNCHANGED <<defaultChannel, chosen>>
  BY <1>1 DEF ChannelsInv, TypeOK
<1>2. CASE OpenChannel
  BY <1>2 DEF OpenChannel, ChannelsInv, Lowest, TypeOK
<1>3. ASSUME NEW id \in ChannelIds, CloseChannel(id)
      PROVE  /\ defaultChannel' = {} \/ \E j \in ChannelIds : defaultChannel' = {j}
             /\ chosen' \in SUBSET ChannelIds
  <2>1. defaultChannel' = defaultChannel \ {id}
    BY <1>3 DEF CloseChannel, Released
  <2>2. chosen' = chosen
    BY <1>3 DEF CloseChannel, history
  <2> QED
    BY <2>1, <2>2 DEF ChannelsInv, TypeOK
<1>4. ASSUME NEW id \in ChannelIds, SetDefaultChannel(id)
      PROVE  /\ defaultChannel' = {} \/ \E j \in ChannelIds : defaultChannel' = {j}
             /\ chosen' \in SUBSET ChannelIds
  BY <1>4 DEF SetDefaultChannel, TypeOK
<1>5. CASE OpenChannelFails
  BY <1>5 DEF OpenChannelFails, ChannelsInv, TypeOK, history
<1> QED
  BY <1>1, <1>2, <1>3, <1>4, <1>5, StepCases, AsyncLocal
  DEF HandleClientConnected, HandleClientConnectionClosed, HandleLostConnection,
      DisconnectClient, DisconnectAllClients, StopEndpoint, CloseChannelFails, vars,
      server, history

LEMMA UnregisteredType ==
  ASSUME TypeOK, NEW id, NEW P, Unregistered(id, P)
  PROVE  slot' \in [Peers -> [ChannelIds -> {"none", "queued", "running", "dead"}]]
BY DEF Unregistered, TypeOK

LEMMA TypeStep == IInv /\ [Next]_vars => TypeOK'
<1> SUFFICES ASSUME IInv, [Next]_vars PROVE TypeOK'
  OBVIOUS
<1> USE DEF IInv
<1>0. /\ Cardinality(defaultChannel') <= 1 /\ defaultChannel' \in SUBSET ChannelIds
      /\ chosen' \in SUBSET ChannelIds
  BY DefaultStep, AtMostOne
<1>a. NoChannel \in [ChannelIds -> {"none", "queued", "running", "dead"}]
  BY DEF NoChannel
<1>b. inbox # <<>> =>
        /\ Tail(inbox) \in Seq(Messages) /\ Len(Tail(inbox)) <= InboxSize
        /\ Len(Tail(inbox)) = Len(inbox) - 1
  BY HeadTailProperties, LenProperties, EmptySeq, InboxAssumption DEF TypeOK
<1>1. CASE AsyncNext
  BY <1>0, <1>1, AsyncLocal, AsyncTypes DEF TypeOK, history
<1>2. CASE HandleClientConnected
  <2> DEFINE p == Head(inbox).peer
  <2>1. p \in Peers /\ NextId \in ClientIds
    BY <1>2, NewClient
  <2>2. clientIdGen' \in 0..Cardinality(Peers)
    BY <1>2, <2>1, PeersFacts DEF HandleClientConnected, NextId, ClientIds, TypeOK
  <2>3. ChannelsOpened \in [ChannelIds -> {"none", "queued", "running", "dead"}]
    BY DEF ChannelsOpened
  <2>4. raised' \in [Peers -> Seq({"Connection", "Lost"})]
    BY <1>2, <2>1, AppendProperties DEF HandleClientConnected, Raise, TypeOK
  <2> QED
    BY <1>0, <1>2, <1>b, <2>1, <2>2, <2>3, <2>4 DEF HandleClientConnected, TypeOK, async
<1>3. ASSUME NEW i \in ClientIds, clients[i] # None, Removed(i),
             \/ HandleClientConnectionClosed /\ Raise(clients[i], "Lost")
             \/ HandleLostConnection(i)
             \/ DisconnectClient(i)
      PROVE  TypeOK'
  <2>1. clients[i] \in Peers
    BY <1>3 DEF TypeOK
  <2>2. /\ clients' \in [ClientIds -> Peers \cup {None}]
        /\ slot' \in [Peers -> [ChannelIds -> {"none", "queued", "running", "dead"}]]
        /\ holder' \in [Peers -> {"none", "inbox", "server", "nobody"}]
    <3>1. /\ clients' = [clients EXCEPT ![i] = None]
          /\ slot' = [slot EXCEPT ![clients[i]] = NoChannel]
          /\ holder' = [holder EXCEPT ![clients[i]] = "nobody"]
      BY <1>3 DEF Removed
    <3> QED
      BY <1>a, <2>1, <3>1 DEF TypeOK
  <2>3. raised' \in [Peers -> Seq({"Connection", "Lost"})]
    <3>1. Append(raised[clients[i]], "Lost") \in Seq({"Connection", "Lost"})
      BY <2>1, AppendProperties DEF TypeOK
    <3>2. UNCHANGED raised \/ Raise(clients[i], "Lost")
      BY <1>3 DEF HandleLostConnection, DisconnectClient
    <3> QED
      BY <3>1, <3>2 DEF Raise, TypeOK
  <2> QED
    BY <1>0, <1>3, <1>b, <2>1, <2>2, <2>3, ZenonT(60)
    DEF HandleClientConnectionClosed, HandleLostConnection, DisconnectClient, TypeOK, async
<1>4. CASE HandleClientConnectionClosed /\ UNCHANGED <<clients, holder, slot, raised>>
  BY <1>0, <1>4, <1>b DEF HandleClientConnectionClosed, TypeOK, async
<1>5. CASE DisconnectAllClients \/ StopEndpoint
  <2>1. <<>> \in Seq(Messages) /\ Len(<<>>) <= InboxSize
    BY InboxAssumption
  <2>2. clients' \in [ClientIds -> Peers \cup {None}]
    BY <1>5 DEF DisconnectAllClients, StopEndpoint
  <2>3. /\ holder' \in [Peers -> {"none", "inbox", "server", "nobody"}]
        /\ slot' \in [Peers -> [ChannelIds -> {"none", "queued", "running", "dead"}]]
    BY <1>5, <1>a DEF DisconnectAllClients, StopEndpoint, LetGoOfAll, TypeOK
  <2>4. disconnected' \in [Peers -> BOOLEAN]
    BY <1>5 DEF DisconnectAllClients, StopEndpoint, TypeOK
  <2>5. /\ UNCHANGED <<clientIdGen, available, opened, ack, clientId, async, raised>>
        /\ listening' \in BOOLEAN
        /\ inbox' \in {inbox, <<>>}
    BY <1>5 DEF DisconnectAllClients, StopEndpoint, TypeOK
  <2> QED
    BY <1>0, <2>1, <2>2, <2>3, <2>4, <2>5 DEF TypeOK, async
<1>6. CASE OpenChannel \/ OpenChannelFails
  <2>1. \/ slot' = slot
        \/ \E id \in ChannelIds : Registered(id, Connected)
    BY <1>6 DEF OpenChannel, OpenChannelFails, LeftOver, Lowest, TypeOK
  <2>2. slot' \in [Peers -> [ChannelIds -> {"none", "queued", "running", "dead"}]]
    BY <2>1 DEF Registered, TypeOK
  <2> QED
    BY <1>0, <1>6, <2>2 DEF OpenChannel, OpenChannelFails, Lowest, TypeOK, async, history
<1>7. ASSUME NEW id \in ChannelIds, CloseChannel(id) PROVE TypeOK'
  BY <1>0, <1>7, UnregisteredType DEF CloseChannel, Released, TypeOK, async, history
<1>8. ASSUME NEW id \in ChannelIds, CloseChannelFails(id) PROVE TypeOK'
  BY <1>0, <1>8, UnregisteredType DEF CloseChannelFails, TypeOK, async, history
<1>9. CASE (\E id \in ChannelIds : SetDefaultChannel(id)) \/ UNCHANGED vars
  BY <1>0, <1>9 DEF SetDefaultChannel, TypeOK, vars, server, async, history
<1> QED
  BY <1>1, <1>2, <1>3, <1>4, <1>5, <1>6, <1>7, <1>8, <1>9, StepCases

-----------------------------------------------------------------------------

(* Announcing gives a PeerConnection away that nobody had before; no other *)
(* step of the tasks moves one.                                            *)
LEMMA AsyncHolder ==
  ASSUME TypeOK, StagesInv, AsyncNext, NEW p \in Peers
  PROVE  \/ holder'[p] = holder[p]
         \/ /\ holder[p] = "none" /\ phase[p] = "announcing"
            /\ \/ /\ holder'[p] = "inbox" /\ phase'[p] = "waiting"
                  /\ inbox' = Append(inbox, [type |-> "ClientConnected", peer |-> p])
               \/ holder'[p] = "nobody" /\ phase'[p] = "gone" /\ inbox' = inbox
<1>1. ASSUME NEW q \in Peers, Announce(q)
      PROVE  \/ holder' = [holder EXCEPT ![q] = "inbox"]
                /\ inbox' = Append(inbox, [type |-> "ClientConnected", peer |-> q])
                /\ phase' = [phase EXCEPT ![q] = "waiting"]
             \/ holder' = [holder EXCEPT ![q] = "nobody"] /\ inbox' = inbox
                /\ phase' = [phase EXCEPT ![q] = "gone"]
  BY <1>1 DEF Announce, Becomes
<1>2. ASSUME NEW q \in Peers, Announce(q)
      PROVE  phase[q] = "announcing" /\ holder[q] = "none"
  BY <1>2 DEF Announce, StagesInv
<1>3. CASE \E q \in Peers : Announce(q)
  <2>1. PICK q \in Peers : Announce(q)
    BY <1>3
  <2>2. CASE q # p
    BY <1>1, <2>1, <2>2, ZenonT(60) DEF TypeOK
  <2>3. CASE q = p
    BY <1>1, <1>2, <2>1, <2>3 DEF TypeOK
  <2> QED
    BY <2>2, <2>3
<1>4. CASE UNCHANGED holder
  BY <1>4
<1> QED
  BY <1>3, <1>4
  DEF AsyncNext, Arrives, AcceptNext, Accept, HandshakeSucceeds, HandshakeFails,
      ConnectionNext, Acknowledged, Refused, Watch, TasksClose, ChannelStarts,
      ConnectionLost, AcceptingEnds

LEMMA IdsStep == IInv /\ [Next]_vars => IdsInv'
<1> SUFFICES ASSUME IInv, [Next]_vars PROVE IdsInv'
  OBVIOUS
<1> USE DEF IInv
<1>a. \A i \in ClientIds : clients[i] # None => clients[i] \in Peers
  BY DEF TypeOK
<1>1. CASE AsyncNext
  <2>1. UNCHANGED <<clients, clientIdGen, clientId>>
    BY <1>1, AsyncLocal
  <2>2. \A p \in Peers : holder[p] = "server" => holder'[p] = "server"
    BY <1>1, AsyncHolder
  <2>3. Announced' = Announced
    BY <2>1 DEF Announced
  <2> QED
    BY <1>a, <2>1, <2>2, <2>3 DEF IdsInv
<1>2. CASE HandleClientConnected
  <2> DEFINE p == Head(inbox).peer
  <2>1. /\ p \in Peers /\ holder[p] = "inbox" /\ clientId[p] = 0
        /\ NextId \in ClientIds /\ clients[NextId] = None
        /\ Cardinality(Announced \cup {p}) = NextId
    BY <1>2, NewClient
  <2>2. /\ clientIdGen' = NextId /\ NextId = clientIdGen + 1
        /\ clients' = [clients EXCEPT ![NextId] = p]
        /\ clientId' = [clientId EXCEPT ![p] = NextId]
        /\ holder' = [holder EXCEPT ![p] = "server"]
    BY <1>2 DEF HandleClientConnected, NextId
  <2> HIDE DEF p
  <2>3. Announced' = Announced \cup {p}
    BY <2>1, <2>2, PeersFacts DEF Announced, TypeOK
  <2>4. clientIdGen' = Cardinality(Announced')
    BY <2>1, <2>2, <2>3
  <2>n. /\ clientIdGen \in Nat
        /\ clientId \in [Peers -> Nat] /\ \A q \in Peers : clientId[q] <= clientIdGen
    <3>1. clientIdGen \in Nat
      BY PeersFacts DEF TypeOK
    <3>2. clientId \in [Peers -> Nat]
      <4>1. clientId \in [Peers -> ClientIds \cup {0}] /\ ClientIds \cup {0} \subseteq Nat
        BY PeersFacts DEF TypeOK
      <4> QED
        BY <4>1
    <3> QED
      BY <3>1, <3>2 DEF IdsInv
  <2>5. \A q \in Peers : clientId'[q] <= clientIdGen'
    BY <2>1, <2>2, <2>n
  <2>6. \A q, r \in Announced' : clientId'[q] = clientId'[r] => q = r
    <3>1. \A q \in Announced : clientId'[q] = clientId[q] /\ clientId'[q] # NextId
      BY <2>1, <2>2, <2>n DEF Announced
    <3>2. clientId'[p] = NextId
      BY <2>1, <2>2 DEF TypeOK
    <3> QED
      BY <2>3, <3>1, <3>2 DEF IdsInv
  <2>7. ASSUME NEW i \in ClientIds, clients'[i] # None
        PROVE  clientId'[clients'[i]] = i /\ holder'[clients'[i]] = "server"
    <3>1. CASE i = NextId
      BY <2>1, <2>2, <3>1 DEF TypeOK
    <3>2. CASE i # NextId
      <4>1. clients'[i] = clients[i] /\ clients[i] \in Peers
        BY <1>a, <2>2, <2>7, <3>2 DEF TypeOK
      <4>2. clientId[clients[i]] = i /\ i # 0 /\ clients[i] # p
        BY <2>1, <2>7, <4>1, PeersFacts DEF IdsInv
      <4> QED
        BY <2>2, <2>7, <4>1, <4>2 DEF IdsInv, TypeOK
    <3> QED
      BY <3>1, <3>2
  <2> QED
    BY <2>4, <2>5, <2>6, <2>7 DEF IdsInv
<1>3. ASSUME NEW i \in ClientIds, clients[i] # None, Removed(i),
             UNCHANGED <<clientIdGen, clientId>>
      PROVE  IdsInv'
  <2>1. /\ clientId[clients[i]] = i
        /\ clients' = [clients EXCEPT ![i] = None]
        /\ holder' = [holder EXCEPT ![clients[i]] = "nobody"]
    BY <1>3, RemovedFacts
  <2>2. Announced' = Announced
    BY <1>3 DEF Announced
  <2>3. ASSUME NEW j \in ClientIds, clients'[j] # None
        PROVE  clientId'[clients'[j]] = j /\ holder'[clients'[j]] = "server"
    <3>1. j # i /\ clients'[j] = clients[j] /\ clients[j] \in Peers
      BY <1>a, <2>1, <2>3 DEF TypeOK
    <3>2. clientId[clients[j]] = j /\ clients[j] # clients[i]
      BY <2>1, <3>1, PeersAssumption DEF IdsInv
    <3> QED
      BY <1>3, <2>1, <3>1, <3>2, PeersAssumption DEF IdsInv, TypeOK
  <2> QED
    BY <1>3, <2>2, <2>3 DEF IdsInv
<1>4. CASE DisconnectAllClients \/ StopEndpoint
  <2>1. Announced' = Announced
    BY <1>4 DEF Announced, DisconnectAllClients, StopEndpoint
  <2> QED
    BY <1>4, <2>1 DEF IdsInv, DisconnectAllClients, StopEndpoint
<1>5. CASE UNCHANGED <<clients, clientIdGen, clientId, holder>>
  BY <1>5 DEF IdsInv, Announced
<1> QED
  BY <1>1, <1>2, <1>3, <1>4, <1>5, StepCases
  DEF HandleClientConnectionClosed, HandleLostConnection, DisconnectClient, OpenChannel,
      OpenChannelFails, CloseChannel, CloseChannelFails, SetDefaultChannel, vars, server

LEMMA StagesStep == IInv /\ [Next]_vars => StagesInv'
<1> SUFFICES ASSUME IInv, [Next]_vars PROVE StagesInv'
  OBVIOUS
<1> USE DEF IInv
<1>1. CASE AsyncNext
  <2>1. UNCHANGED clientId
    BY <1>1, AsyncLocal
  <2> SUFFICES ASSUME NEW p \in Peers
      PROVE  /\ phase'[p] \in {"none", "incoming", "handshake", "announcing"}
                   => holder'[p] = "none"
             /\ holder'[p] \in {"none", "inbox"} => clientId[p] = 0
             /\ ack'[p] => clientId[p] # 0
             /\ watcher'[p] # "none" => clientId[p] # 0 /\ phase'[p] \in {"running", "gone"}
             /\ watcher'[p] = "done" => quic'[p] # "open"
    BY <2>1 DEF StagesInv
  <2>2. holder'[p] \in {"none", "inbox"} => clientId[p] = 0
    BY <1>1, AsyncHolder DEF StagesInv
  <2>3. CASE \/ \E q \in Peers : \/ Arrives(q) \/ AcceptNext(q) \/ Refused(q)
                                \/ TasksClose(q) \/ ConnectionLost(q)
                                \/ \E id \in ChannelIds : ChannelStarts(q, id)
             \/ AcceptingEnds
    <3>1. UNCHANGED <<holder, ack, watcher>>
      BY <2>3
      DEF Arrives, AcceptNext, Accept, HandshakeSucceeds, HandshakeFails, Refused,
          TasksClose, ChannelStarts, ConnectionLost, AcceptingEnds, async
    <3>2. ASSUME NEW q \in Peers, Arrives(q) \/ AcceptNext(q)
          PROVE  /\ phase'[p] = phase[p] \/ phase[p] \in {"none", "incoming", "handshake"}
                 /\ quic'[p] = quic[p] \/ phase[p] = "handshake"
      BY <3>2 DEF Arrives, AcceptNext, Accept, HandshakeSucceeds, HandshakeFails,
                  Becomes, TypeOK
    <3>3. ASSUME NEW q \in Peers, Refused(q) \/ TasksClose(q) \/ ConnectionLost(q)
          PROVE  /\ phase'[p] \in {phase[p], "gone"}
                 /\ quic'[p] = quic[p] \/ quic'[p] # "open"
      BY <3>3 DEF Refused, TasksClose, ConnectionLost, Becomes, HandleDropped, TypeOK
    <3>4. ASSUME AcceptingEnds \/ \E q \in Peers, id \in ChannelIds : ChannelStarts(q, id)
          PROVE  /\ phase'[p] \in {phase[p], "gone"}
                 /\ quic'[p] = quic[p]
      BY <3>4 DEF AcceptingEnds, ChannelStarts, async
    <3> QED
      BY <2>2, <2>3, <3>1, <3>2, <3>3, <3>4 DEF StagesInv
  <2>4. ASSUME NEW q \in Peers, Announce(q)
        PROVE  /\ UNCHANGED <<ack, watcher>>
               /\ quic'[p] # "open" \/ quic'[p] = quic[p]
               /\ \/ q = p /\ watcher[p] = "none" /\ phase'[p] \in {"waiting", "gone"}
                  \/ q # p /\ phase'[p] = phase[p] /\ holder'[p] = holder[p]
    BY <2>4 DEF Announce, Becomes, HandleDropped, StagesInv, TypeOK
  <2>5. ASSUME NEW q \in Peers, Acknowledged(q)
        PROVE  /\ UNCHANGED <<holder, quic>>
               /\ ack'[p] => ack[p]
               /\ \/ q = p /\ ack[p] /\ watcher'[p] = "watching" /\ phase'[p] = "running"
                  \/ q # p /\ phase'[p] = phase[p] /\ watcher'[p] = watcher[p]
    BY <2>5 DEF Acknowledged, Becomes, TypeOK
  <2>6. ASSUME NEW q \in Peers, Watch(q)
        PROVE  /\ UNCHANGED <<holder, quic, phase, ack>>
               /\ \/ q = p /\ watcher[p] = "watching" /\ quic[p] # "open"
                  \/ q # p /\ watcher'[p] = watcher[p]
    BY <2>6 DEF Watch, TypeOK
  <2> QED
    BY <1>1, <2>2, <2>3, <2>4, <2>5, <2>6 DEF StagesInv, AsyncNext, ConnectionNext
<1>2. CASE HandleClientConnected
  <2> DEFINE p == Head(inbox).peer
  <2>1. p \in Peers /\ holder[p] = "inbox" /\ NextId \in ClientIds
    BY <1>2, NewClient
  <2>2. /\ ack' = [ack EXCEPT ![p] = TRUE]
        /\ clientId' = [clientId EXCEPT ![p] = NextId]
        /\ holder' = [holder EXCEPT ![p] = "server"]
        /\ UNCHANGED <<phase, watcher, quic>>
    BY <1>2 DEF HandleClientConnected, async
  <2> HIDE DEF p
  <2> QED
    BY <2>1, <2>2, PeersFacts DEF StagesInv, TypeOK
<1>3. ASSUME NEW i \in ClientIds, clients[i] # None, Removed(i),
             UNCHANGED <<clientId, ack, async>>
      PROVE  StagesInv'
  <2>1. /\ clientId[clients[i]] = i /\ i # 0 /\ holder[clients[i]] = "server"
        /\ holder' = [holder EXCEPT ![clients[i]] = "nobody"]
        /\ clients[i] \in Peers
    BY <1>3, RemovedFacts, PeersFacts DEF TypeOK
  <2> QED
    BY <1>3, <2>1 DEF StagesInv, TypeOK, async
<1>4. CASE DisconnectAllClients \/ StopEndpoint
  <2>1. UNCHANGED <<clientId, ack, phase, watcher, quic>>
    BY <1>4 DEF DisconnectAllClients, StopEndpoint, async
  <2>2. ASSUME NEW p \in Peers
        PROVE  holder'[p] = holder[p] \/ (holder'[p] = "nobody" /\ holder[p] # "none")
    <3>1. p \in Connected => holder[p] = "server"
      BY ConnectedIndex, PeersAssumption DEF IdsInv, TypeOK
    <3> QED
      BY <1>4, <3>1 DEF DisconnectAllClients, StopEndpoint, LetGoOfAll
  <2> QED
    BY <2>1, <2>2 DEF StagesInv, TypeOK
<1>5. CASE UNCHANGED <<clientId, holder, ack, async>>
  BY <1>5 DEF StagesInv, async
<1> QED
  BY <1>1, <1>2, <1>3, <1>4, <1>5, StepCases
  DEF HandleClientConnectionClosed, HandleLostConnection, DisconnectClient, OpenChannel,
      OpenChannelFails, CloseChannel, CloseChannelFails, SetDefaultChannel, vars, server

-----------------------------------------------------------------------------

LEMMA MessagesTail ==
  ASSUME NEW s \in Seq(Messages), s # <<>>, OneEach(s)
  PROVE  /\ OneEach(Tail(s))
         /\ 1 \in DOMAIN s /\ Head(s) = s[1]
         /\ \A k \in DOMAIN Tail(s) :
              k + 1 \in DOMAIN s /\ k + 1 # 1 /\ Tail(s)[k] = s[k + 1]
<1> DEFINE t == Tail(s)
<1>1. /\ Len(s) \in Nat \ {0} /\ DOMAIN s = 1..Len(s) /\ Head(s) = s[1]
      /\ DOMAIN t = 1..(Len(s) - 1)
      /\ \A k \in 1..(Len(s) - 1) : t[k] = s[k + 1]
  BY TailIndex
<1> HIDE DEF t
<1>2. \A k \in DOMAIN t : k \in Nat /\ k + 1 \in DOMAIN s /\ k + 1 # 1 /\ t[k] = s[k + 1]
  BY <1>1
<1>3. OneEach(t)
  <2> SUFFICES ASSUME NEW k \in DOMAIN t, NEW l \in DOMAIN t,
                      t[k].type = "ClientConnected", t[l].type = "ClientConnected",
                      t[k].peer = t[l].peer
               PROVE  k = l
    BY DEF OneEach
  <2>1. k + 1 = l + 1
    BY <1>2 DEF OneEach
  <2> QED
    BY <1>2, <2>1
<1> QED
  BY <1>1, <1>2, <1>3 DEF t

LEMMA MessagesAppend ==
  ASSUME NEW s \in Seq(Messages), NEW m \in Messages, OneEach(s),
         \A k \in DOMAIN s : ~(/\ m.type = "ClientConnected"
                               /\ s[k].type = "ClientConnected" /\ s[k].peer = m.peer)
  PROVE  /\ OneEach(Append(s, m))
         /\ \A k \in DOMAIN Append(s, m) :
              Append(s, m)[k] = m \/ (k \in DOMAIN s /\ Append(s, m)[k] = s[k])
<1> DEFINE t == Append(s, m)
<1>1. /\ Len(s) \in Nat /\ DOMAIN s = 1..Len(s)
      /\ DOMAIN t = 1..(Len(s) + 1)
      /\ \A k \in 1..Len(s) : t[k] = s[k]
      /\ t[Len(s) + 1] = m
  BY AppendIndex
<1> HIDE DEF t
<1>2. \A k \in DOMAIN t :
        (k = Len(s) + 1 /\ t[k] = m) \/ (k \in DOMAIN s /\ t[k] = s[k])
  BY <1>1
<1>3. OneEach(t)
  BY <1>2 DEF OneEach
<1> QED
  BY <1>2, <1>3 DEF t

(* Where the messages that stay in the queue stay accounted for, a step    *)
(* that takes the head or nothing keeps the invariant.                     *)
LEMMA MessagesKept ==
  ASSUME IInv,
         inbox' = inbox \/ (inbox # <<>> /\ inbox' = Tail(inbox)),
         \A m \in Messages, k \in DOMAIN inbox :
           m = inbox[k] /\ (inbox' = inbox \/ k # 1) => Accounted(m)'
  PROVE  MessagesInv'
<1>1. /\ inbox \in Seq(Messages) /\ OneEach(inbox)
      /\ \A k \in DOMAIN inbox : inbox[k] \in Messages
  BY LenProperties, ElementOfSeq DEF IInv, TypeOK, MessagesInv
<1> SUFFICES /\ OneEach(inbox')
             /\ \A k \in DOMAIN inbox', m \in Messages : m = inbox'[k] => Accounted(m)'
             /\ \A k \in DOMAIN inbox' : inbox'[k] \in Messages
  BY DEF MessagesInv
<1>2. CASE inbox' = inbox
  BY <1>1, <1>2
<1>3. CASE inbox # <<>> /\ inbox' = Tail(inbox)
  <2>1. /\ OneEach(inbox')
        /\ \A k \in DOMAIN inbox' :
             k + 1 \in DOMAIN inbox /\ k + 1 # 1 /\ inbox'[k] = inbox[k + 1]
    BY <1>1, <1>3, MessagesTail
  <2> QED
    BY <1>1, <2>1
<1> QED
  BY <1>2, <1>3

LEMMA MessagesStep == IInv /\ [Next]_vars => MessagesInv'
<1> SUFFICES ASSUME IInv, [Next]_vars PROVE MessagesInv'
  OBVIOUS
<1> USE DEF IInv
<1>a. /\ inbox \in Seq(Messages) /\ OneEach(inbox)
      /\ \A k \in DOMAIN inbox : inbox[k] \in Messages /\ Accounted(inbox[k])
  BY LenProperties, ElementOfSeq DEF TypeOK, MessagesInv
<1>b. ASSUME NEW m \in Messages
      PROVE  IF m.type = "ClientConnected" THEN m.peer \in Peers ELSE m.id \in ClientIds
  BY DEF Messages
<1>1. CASE AsyncNext
  <2>1. /\ UNCHANGED clientId
        /\ \A p \in Peers : holder[p] = "inbox" => holder'[p] = "inbox"
    BY <1>1, AsyncLocal, AsyncHolder
  <2>2. \A p \in Peers : watcher[p] = "done" => watcher'[p] = "done"
    <3>1. ASSUME NEW p \in Peers, NEW q \in Peers, Acknowledged(p), watcher[q] = "done"
          PROVE  watcher'[q] = "done"
      BY <3>1 DEF Acknowledged, StagesInv, TypeOK
    <3>2. ASSUME NEW p \in Peers, NEW q \in Peers, Watch(p), watcher[q] = "done"
          PROVE  watcher'[q] = "done"
      BY <3>2 DEF Watch, TypeOK
    <3> QED
      BY <1>1, <3>1, <3>2
      DEF AsyncNext, Arrives, AcceptNext, Accept, HandshakeSucceeds, HandshakeFails,
          ConnectionNext, Announce, Refused, TasksClose, ChannelStarts,
          ConnectionLost, AcceptingEnds, async
  <2>3. \A m \in Messages, k \in DOMAIN inbox : m = inbox[k] => Accounted(m)'
    BY <1>a, <1>b, <2>1, <2>2 DEF Accounted
  <2>4. CASE inbox' = inbox
    BY <2>3, <2>4, MessagesKept
  <2>5. ASSUME NEW m \in Messages, inbox' = Append(inbox, m), Accounted(m)',
               \A k \in DOMAIN inbox :
                 ~(/\ m.type = "ClientConnected"
                   /\ inbox[k].type = "ClientConnected" /\ inbox[k].peer = m.peer)
        PROVE  MessagesInv'
    <3>1. /\ OneEach(inbox')
          /\ \A k \in DOMAIN inbox' :
               inbox'[k] = m \/ (k \in DOMAIN inbox /\ inbox'[k] = inbox[k])
      BY <1>a, <2>5, MessagesAppend
    <3>2. \A k \in DOMAIN inbox', n \in Messages : n = inbox'[k] => Accounted(n)'
      BY <2>3, <2>5, <3>1
    <3>3. \A k \in DOMAIN inbox' : inbox'[k] \in Messages
      BY <1>a, <3>1
    <3> QED
      BY <3>1, <3>2, <3>3 DEF MessagesInv
  <2>6. ASSUME NEW p \in Peers, Announce(p), inbox' # inbox PROVE MessagesInv'
    <3> DEFINE m == [type |-> "ClientConnected", peer |-> p]
    <3>1. m \in Messages /\ m.type = "ClientConnected" /\ m.peer = p
      BY DEF Messages
    <3>2. holder[p] = "none"
      BY <2>6 DEF Announce, StagesInv
    <3>3. inbox' = Append(inbox, m) /\ holder'[p] = "inbox"
      BY <2>6 DEF Announce, TypeOK
    <3>4. Accounted(m)'
      BY <3>3 DEF Accounted
    <3>5. \A k \in DOMAIN inbox : ~(inbox[k].type = "ClientConnected" /\ inbox[k].peer = p)
      BY <1>a, <3>2 DEF Accounted
    <3> HIDE DEF m
    <3> QED
      BY <2>5, <3>1, <3>3, <3>4, <3>5
  <2>7. ASSUME NEW p \in Peers, Watch(p), inbox' # inbox PROVE MessagesInv'
    <3> DEFINE m == [type |-> "ClientConnectionClosed", id |-> clientId[p]]
    <3>1. m \in Messages /\ m.type = "ClientConnectionClosed" /\ m.id = clientId[p]
      BY <2>7 DEF Messages, Watch, StagesInv, TypeOK
    <3>2. inbox' = Append(inbox, m) /\ watcher'[p] = "done" /\ clientId' = clientId
      BY <2>1, <2>7 DEF Watch, TypeOK
    <3> HIDE DEF m
    <3>3. \A n \in Messages : n = m => Accounted(n)'
      BY <3>1, <3>2 DEF Accounted
    <3>4. \A k \in DOMAIN inbox : ~(/\ m.type = "ClientConnected"
                                    /\ inbox[k].type = "ClientConnected"
                                    /\ inbox[k].peer = m.peer)
      BY <3>1
    <3>5. PICK n \in Messages : n = m
      BY <3>1
    <3> QED
      BY <2>5, <3>2, <3>3, <3>4, <3>5
  <2> QED
    BY <1>1, <2>4, <2>6, <2>7
    DEF AsyncNext, Arrives, AcceptNext, Accept, HandshakeSucceeds, HandshakeFails,
        ConnectionNext, Acknowledged, Refused, TasksClose, ChannelStarts,
        ConnectionLost, AcceptingEnds
<1>2. CASE HandleClientConnected
  <2> DEFINE p == Head(inbox).peer
  <2>1. /\ p \in Peers /\ clientId[p] = 0 /\ inbox # <<>>
        /\ Head(inbox) = inbox[1] /\ inbox[1].type = "ClientConnected" /\ p = inbox[1].peer
        /\ 1 \in DOMAIN inbox
    BY <1>2, <1>a, NewClient, MessagesTail
  <2>2. /\ inbox' = Tail(inbox)
        /\ clientId' = [clientId EXCEPT ![p] = NextId]
        /\ holder' = [holder EXCEPT ![p] = "server"]
        /\ UNCHANGED watcher
    BY <1>2 DEF HandleClientConnected, async
  <2>3. ASSUME NEW m \in Messages, NEW k \in DOMAIN inbox, m = inbox[k], k # 1
        PROVE  Accounted(m)'
    <3>1. Accounted(m)
      BY <1>a, <2>3
    <3>2. CASE m.type = "ClientConnected"
      <4>1. m.peer # p
        BY <1>a, <2>1, <2>3, <3>2 DEF OneEach
      <4> QED
        BY <1>b, <2>2, <3>1, <3>2, <4>1 DEF Accounted, TypeOK
    <3>3. CASE m.type # "ClientConnected"
      <4>1. PICK q \in Peers : clientId[q] = m.id /\ watcher[q] = "done"
        BY <3>1, <3>3 DEF Accounted
      <4>2. q # p
        BY <1>b, <2>1, <3>3, <4>1, PeersFacts
      <4> QED
        BY <2>2, <3>3, <4>1, <4>2 DEF Accounted, TypeOK
    <3> QED
      BY <3>2, <3>3
  <2>4. inbox' # inbox \/ \A k \in DOMAIN inbox, m \in Messages : m = inbox[k] => Accounted(m)'
    <3>1. Len(Tail(inbox)) = Len(inbox) - 1 /\ Len(inbox) \in Nat
      BY <1>a, <2>1, HeadTailProperties, LenProperties, EmptySeq
    <3> QED
      BY <2>2, <3>1
  <2> QED
    BY <2>1, <2>2, <2>3, <2>4, MessagesKept
<1>3. ASSUME NEW i \in ClientIds, clients[i] # None, Removed(i),
             UNCHANGED <<clientId, async>>,
             inbox' = inbox \/ (inbox # <<>> /\ inbox' = Tail(inbox))
      PROVE  MessagesInv'
  <2>1. /\ holder[clients[i]] = "server"
        /\ holder' = [holder EXCEPT ![clients[i]] = "nobody"]
        /\ watcher' = watcher
    BY <1>3, RemovedFacts DEF async
  <2>2. ASSUME NEW k \in DOMAIN inbox, NEW m \in Messages, m = inbox[k]
        PROVE  Accounted(m)'
    <3>1. Accounted(m)
      BY <1>a, <2>2
    <3>2. CASE m.type = "ClientConnected"
      <4>1. m.peer \in Peers /\ holder[m.peer] = "inbox"
        BY <1>b, <3>1, <3>2 DEF Accounted
      <4>2. m.peer # clients[i]
        BY <2>1, <4>1
      <4> QED
        BY <2>1, <3>2, <4>1, <4>2 DEF Accounted, TypeOK
    <3>3. CASE m.type # "ClientConnected"
      BY <1>3, <2>1, <3>1, <3>3 DEF Accounted
    <3> QED
      BY <3>2, <3>3
  <2> QED
    BY <1>3, <2>2, MessagesKept
<1>4. CASE DisconnectAllClients
  <2>1. /\ inbox' = inbox /\ clientId' = clientId /\ watcher' = watcher
        /\ holder' = [p \in Peers |-> IF p \in Connected THEN "nobody" ELSE holder[p]]
    BY <1>4 DEF DisconnectAllClients, async
  <2>2. \A p \in Peers : p \in Connected => holder[p] = "server"
    BY ConnectedIndex, PeersAssumption DEF IdsInv, TypeOK
  <2>3. \A k \in DOMAIN inbox, m \in Messages : m = inbox[k] => Accounted(m)'
    BY <1>a, <1>b, <2>1, <2>2 DEF Accounted
  <2> QED
    BY <2>1, <2>3, MessagesKept
<1>5. CASE StopEndpoint
  BY <1>5 DEF StopEndpoint, MessagesInv, OneEach
<1>6. CASE /\ UNCHANGED <<clientId, watcher, holder>>
           /\ inbox' = inbox \/ (inbox # <<>> /\ inbox' = Tail(inbox))
  <2>1. \A k \in DOMAIN inbox, m \in Messages : m = inbox[k] => Accounted(m)'
    BY <1>6, <1>a DEF Accounted
  <2> QED
    BY <1>6, <2>1, MessagesKept
<1> QED
  BY <1>1, <1>2, <1>3, <1>4, <1>5, <1>6, StepCases
  DEF HandleClientConnectionClosed, HandleLostConnection, DisconnectClient, OpenChannel,
      OpenChannelFails, CloseChannel, CloseChannelFails, SetDefaultChannel, vars, server, async

-----------------------------------------------------------------------------

LEMMA EventsStep == IInv /\ [Next]_vars => EventsInv'
<1> SUFFICES ASSUME IInv, [Next]_vars PROVE EventsInv'
  OBVIOUS
<1> USE DEF IInv
<1>0. /\ Connected \subseteq Peers
      /\ \A p \in Connected : raised[p] = <<"Connection">> /\ ~disconnected[p]
      /\ \A p \in Connected : clientId[p] # 0
  BY ConnectedIndex DEF EventsInv, EventsMakeSense
<1>1. CASE UNCHANGED <<clients, clientId, raised, disconnected>>
  <2>1. Connected' = Connected
    BY <1>1 DEF Connected
  <2> QED
    BY <1>1, <2>1 DEF EventsInv, EventsMakeSense
<1>2. CASE HandleClientConnected
  <2> DEFINE p == Head(inbox).peer
  <2>1. /\ p \in Peers /\ clientId[p] = 0 /\ p \notin Connected
        /\ Connected' = Connected \cup {p} /\ NextId \in ClientIds
    BY <1>2, NewClient
  <2>2. /\ clientId' = [clientId EXCEPT ![p] = NextId]
        /\ raised' = [raised EXCEPT ![p] = Append(@, "Connection")]
        /\ UNCHANGED disconnected
    BY <1>2 DEF HandleClientConnected, Raise
  <2> HIDE DEF p
  <2>3. raised'[p] = <<"Connection">> /\ ~disconnected[p] /\ clientId'[p] # 0
    <3>1. raised[p] = <<>> /\ ~disconnected[p]
      BY <2>1 DEF EventsInv
    <3>2. Append(<<>>, "Connection") = <<"Connection">>
      OBVIOUS
    <3> QED
      BY <2>1, <2>2, <3>1, <3>2, PeersFacts DEF TypeOK
  <2>4. \A q \in Peers \ {p} : raised'[q] = raised[q] /\ clientId'[q] = clientId[q]
    BY <2>2 DEF TypeOK
  <2> QED
    BY <2>1, <2>2, <2>3, <2>4 DEF EventsInv, EventsMakeSense
<1>3. ASSUME NEW i \in ClientIds, clients[i] # None, Removed(i), clientId' = clientId,
             \/ UNCHANGED disconnected /\ Raise(clients[i], "Lost")
             \/ disconnected' = [disconnected EXCEPT ![clients[i]] = TRUE] /\ UNCHANGED raised
      PROVE  EventsInv'
  <2> DEFINE p == clients[i]
  <2>1. /\ p \in Connected /\ p \in Peers /\ clientId[p] # 0
        /\ Connected' = Connected \ {p}
    BY <1>0, <1>3, RemovedFacts
  <2>2. raised[p] = <<"Connection">> /\ ~disconnected[p]
    BY <1>0, <2>1
  <2> HIDE DEF p
  <2>3. CASE UNCHANGED disconnected /\ Raise(p, "Lost")
    <3>1. Append(<<"Connection">>, "Lost") = <<"Connection", "Lost">>
      <4> DEFINE s == Append(<<"Connection">>, "Lost")
      <4>1. raised[p] \in Seq({"Connection", "Lost"}) /\ Len(raised[p]) = 1
        BY <2>1, <2>2 DEF TypeOK
      <4>2. /\ s \in Seq({"Connection", "Lost"})
            /\ Len(s) = 2 /\ s[1] = "Connection" /\ s[2] = "Lost"
        BY <2>2, <4>1, AppendProperties
      <4> HIDE DEF s
      <4>3. s = <<"Connection", "Lost">>
        BY <4>2, SeqEqual
      <4> QED
        BY <4>3 DEF s
    <3>2. raised'[p] = <<"Connection", "Lost">>
      BY <2>1, <2>2, <2>3, <3>1 DEF Raise, TypeOK
    <3>3. \A q \in Peers \ {p} : raised'[q] = raised[q]
      BY <2>3 DEF Raise, TypeOK
    <3> QED
      BY <1>3, <2>1, <2>2, <2>3, <3>2, <3>3 DEF EventsInv, EventsMakeSense
  <2>4. CASE disconnected' = [disconnected EXCEPT ![p] = TRUE] /\ UNCHANGED raised
    BY <1>3, <2>1, <2>2, <2>4 DEF EventsInv, EventsMakeSense, TypeOK
  <2> QED
    BY <1>3, <2>3, <2>4 DEF p
<1>4. CASE DisconnectAllClients \/ StopEndpoint
  <2>1. /\ clients' = [i \in ClientIds |-> None]
        /\ clientId' = clientId /\ raised' = raised
        /\ disconnected' = [p \in Peers |-> disconnected[p] \/ p \in Connected]
    BY <1>4 DEF DisconnectAllClients, StopEndpoint
  <2>2. Connected' = {}
    BY <2>1, PeersAssumption DEF Connected
  <2> QED
    BY <1>0, <2>1, <2>2 DEF EventsInv, EventsMakeSense
<1>5. AsyncNext => UNCHANGED <<clients, clientId, raised, disconnected>>
  BY AsyncLocal DEF history
<1> QED
  BY <1>1, <1>2, <1>3, <1>4, <1>5, StepCases
  DEF HandleClientConnectionClosed, HandleLostConnection, DisconnectClient, OpenChannel,
      OpenChannelFails, CloseChannel, CloseChannelFails, SetDefaultChannel, vars, server, async, history

-----------------------------------------------------------------------------

(* The channels of the clients that stay keep their registration. *)
LEMMA ChannelsStep == IInv /\ [Next]_vars => ChannelsInv'
<1> SUFFICES ASSUME IInv, [Next]_vars PROVE ChannelsInv'
  OBVIOUS
<1> USE DEF IInv
<1>0. /\ Connected \subseteq Peers
      /\ \A p \in Connected, id \in opened : slot[p][id] # "none"
      /\ \A p \in Connected, id \in available : slot[p][id] = "none"
      /\ defaultChannel \cap available \subseteq chosen /\ opened \cap available = {}
      /\ opened \subseteq ChannelIds /\ available \subseteq ChannelIds
      /\ slot \in [Peers -> [ChannelIds -> {"none", "queued", "running", "dead"}]]
  BY ConnectedIndex DEF ChannelsInv, OpenedForAll, FreeIdsAreUnregistered, TypeOK
<1>a. SUFFICES /\ \A p \in Connected', id \in opened' : slot'[p][id] # "none"
               /\ \A p \in Connected', id \in available' : slot'[p][id] = "none"
               /\ defaultChannel' \cap available' \subseteq chosen'
               /\ opened' \cap available' = {}
  BY DefaultStep DEF ChannelsInv, OpenedForAll, FreeIdsAreUnregistered
<1>1. CASE AsyncNext
  <2>1. /\ UNCHANGED <<clients, opened, available, defaultChannel, chosen>>
        /\ Connected' = Connected
    BY <1>1, AsyncLocal DEF Connected, history
  <2>2. \A p \in Peers, id \in ChannelIds : slot'[p][id] = "none" <=> slot[p][id] = "none"
    <3>1. ASSUME NEW q \in Peers, NEW j \in ChannelIds, ChannelStarts(q, j)
          PROVE  \A p \in Peers, id \in ChannelIds :
                   slot'[p][id] = "none" <=> slot[p][id] = "none"
      <4>1. PICK st \in {"running", "dead"} : slot' = [slot EXCEPT ![q][j] = st]
        BY <3>1 DEF ChannelStarts
      <4>2. slot[q][j] = "queued"
        BY <3>1 DEF ChannelStarts
      <4> QED
        BY <1>0, <4>1, <4>2
    <3> QED
      BY <1>1, <3>1
      DEF AsyncNext, Arrives, AcceptNext, Accept, HandshakeSucceeds, HandshakeFails,
          ConnectionNext, Announce, Acknowledged, Refused, Watch, TasksClose,
          ConnectionLost, AcceptingEnds, server
  <2> QED
    BY <1>0, <2>1, <2>2
<1>2. CASE HandleClientConnected
  <2> DEFINE p == Head(inbox).peer
  <2>1. p \in Peers /\ Connected' = Connected \cup {p}
    BY <1>2, NewClient
  <2>2. /\ slot' = [slot EXCEPT ![p] = ChannelsOpened]
        /\ UNCHANGED <<opened, available, defaultChannel, chosen>>
    BY <1>2 DEF HandleClientConnected
  <2> HIDE DEF p
  <2>3. \A id \in ChannelIds : slot'[p][id] = IF id \in opened THEN "queued" ELSE "none"
    BY <1>0, <2>1, <2>2 DEF ChannelsOpened
  <2>4. \A q \in Connected : q # p => slot'[q] = slot[q]
    BY <1>0, <2>2
  <2> QED
    BY <1>0, <2>1, <2>2, <2>3, <2>4
<1>3. ASSUME NEW i \in ClientIds, clients[i] # None, Removed(i),
             UNCHANGED <<opened, available, defaultChannel, chosen>>
      PROVE  ChannelsInv'
  <2>1. /\ Connected' = Connected \ {clients[i]}
        /\ slot' = [slot EXCEPT ![clients[i]] = NoChannel]
    BY <1>3, RemovedFacts
  <2>2. \A q \in Connected' : q \in Connected /\ slot'[q] = slot[q]
    BY <1>0, <2>1
  <2> QED
    BY <1>0, <1>3, <2>2, DefaultStep DEF ChannelsInv, OpenedForAll, FreeIdsAreUnregistered
<1>4. CASE DisconnectAllClients \/ StopEndpoint
  <2>1. /\ clients' = [i \in ClientIds |-> None]
        /\ UNCHANGED <<opened, available, defaultChannel, chosen>>
    BY <1>4 DEF DisconnectAllClients, StopEndpoint
  <2>2. Connected' = {}
    BY <2>1, PeersAssumption DEF Connected
  <2> QED
    BY <1>0, <2>1, <2>2
<1>5. CASE OpenChannel
  <2>1. PICK id \in Lowest(available) :
          /\ available' = available \ {id}
          /\ defaultChannel' = IF defaultChannel = {} THEN {id} ELSE defaultChannel
          /\ opened' = opened \cup {id}
          /\ chosen' = chosen \ {id}
          /\ slot' = [p \in Peers |-> IF p \in Connected
                                      THEN [slot[p] EXCEPT ![id] = "queued"] ELSE slot[p]]
    BY <1>5 DEF OpenChannel, Registered
  <2>2. Connected' = Connected /\ id \in ChannelIds
    BY <1>0, <1>5, <2>1 DEF OpenChannel, Connected, Lowest
  <2>3. \A p \in Connected, j \in ChannelIds :
          slot'[p][j] = IF j = id THEN "queued" ELSE slot[p][j]
    BY <1>0, <2>1, <2>2
  <2> QED
    BY <1>0, <2>1, <2>2, <2>3
<1>6. ASSUME NEW id \in ChannelIds, NEW P, Unregistered(id, P),
             UNCHANGED <<clients, chosen>>, id \in opened, opened' = opened \ {id},
             \/ UNCHANGED <<available, defaultChannel>>
             \/ Released(id) /\ P = Connected
      PROVE  ChannelsInv'
  <2>1. Connected' = Connected
    BY <1>6 DEF Connected
  <2>2. \A p \in Connected, j \in ChannelIds :
          slot'[p][j] = IF j = id /\ p \in P THEN "none" ELSE slot[p][j]
    BY <1>0, <1>6 DEF Unregistered
  <2> QED
    BY <1>0, <1>6, <2>1, <2>2, DefaultStep
    DEF Released, ChannelsInv, OpenedForAll, FreeIdsAreUnregistered
<1>7. ASSUME NEW id \in ChannelIds, SetDefaultChannel(id) PROVE ChannelsInv'
  <2>1. Connected' = Connected
    BY <1>7 DEF SetDefaultChannel, Connected
  <2> QED
    BY <1>0, <1>7, <2>1, DefaultStep
    DEF SetDefaultChannel, ChannelsInv, OpenedForAll, FreeIdsAreUnregistered
<1>8. CASE OpenChannelFails
  <2>1. /\ UNCHANGED <<clients, slot, opened, available, chosen>>
        /\ defaultChannel' \subseteq defaultChannel
    BY <1>8 DEF OpenChannelFails, LeftOver, history
  <2> QED
    BY <1>0, <2>1 DEF Connected
<1>9. CASE UNCHANGED <<clients, slot, opened, available, defaultChannel, chosen>>
  BY <1>0, <1>9 DEF Connected
<1> QED
  BY <1>1, <1>2, <1>3, <1>4, <1>5, <1>6, <1>7, <1>8, <1>9, StepCases
  DEF HandleClientConnectionClosed, HandleLostConnection, DisconnectClient,
      CloseChannel, CloseChannelFails, vars, server, history, ChannelsInv,
      OpenedForAll, FreeIdsAreUnregistered

-----------------------------------------------------------------------------

(* The inductive invariant.                                                *)
THEOREM Inductive == Spec => []IInv
<1>1. IInv /\ [Next]_vars => IInv'
  BY TypeStep, IdsStep, StagesStep, MessagesStep, EventsStep, ChannelsStep DEF IInv
<1> QED
  BY <1>1, IInvInit, PTL DEF Spec

(* The state keeps its type: there are ids enough for all the connections  *)
(* that come in, and the queue of messages never exceeds its capacity.     *)
THEOREM TypeCorrect == Spec => []TypeOK
<1>1. IInv => TypeOK
  BY DEF IInv
<1> QED
  BY <1>1, Inductive, PTL

(* Every client has every channel of the endpoint, in whatever order       *)
(* channels are opened and clients connect.                                *)
THEOREM ChannelsAreForAll == Spec => []OpenedForAll
<1>1. IInv => OpenedForAll
  BY DEF IInv, ChannelsInv
<1> QED
  BY <1>1, Inductive, PTL

(* An id that can be given again is used by nobody, and is not the default *)
(* unless the application named it itself, after every sequence of opens,  *)
(* closes and choices of a default, the failed ones included.              *)
THEOREM FreeIdsAreFree == Spec => []FreeIdsAreUnregistered
<1>1. IInv => FreeIdsAreUnregistered
  BY DEF IInv, ChannelsInv
<1> QED
  BY <1>1, Inductive, PTL

(* A message about the end of a connection, however late it is handled, is *)
(* about the connection that has the id, or nobody has it any more: ids    *)
(* are never given twice.                                                  *)
THEOREM LateMessagesAreOwn == Spec => []ClosedIsOwn
<1>1. IInv => ClosedIsOwn
  <2> SUFFICES ASSUME IInv, NEW k \in DOMAIN inbox,
                      inbox[k].type = "ClientConnectionClosed", clients[inbox[k].id] # None
               PROVE  quic[clients[inbox[k].id]] # "open"
    BY DEF ClosedIsOwn
  <2> DEFINE i == inbox[k].id
  <2>1. i \in ClientIds
    <3>1. inbox[k] \in Messages
      BY LenProperties, ElementOfSeq DEF IInv, TypeOK
    <3> QED
      BY <3>1 DEF Messages
  <2>2. clients[i] \in Peers /\ clientId[clients[i]] = i /\ i # 0
    <3>1. clients[i] # None
      OBVIOUS
    <3>2. clients[i] \in Peers
      BY <2>1, <3>1 DEF IInv, TypeOK
    <3> HIDE DEF i
    <3> QED
      BY <2>1, <3>1, <3>2, PeersFacts DEF IInv, IdsInv
  <2>3. PICK p \in Peers : clientId[p] = i /\ watcher[p] = "done"
    BY DEF IInv, MessagesInv, Accounted
  <2>4. p = clients[i]
    BY <2>2, <2>3 DEF IInv, IdsInv, Announced
  <2> QED
    BY <2>3, <2>4 DEF IInv, StagesInv
<1> QED
  BY <1>1, Inductive, PTL

(* Each connection is announced once and lost at most once, never after    *)
(* the application itself disconnected it, whoever reports the loss first. *)
THEOREM EventsAreSensible == Spec => []EventsMakeSense
<1>1. IInv => EventsMakeSense
  BY DEF IInv, EventsInv
<1> QED
  BY <1>1, Inductive, PTL

=============================================================================
