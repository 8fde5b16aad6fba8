------------------------- MODULE SendChannelsProofs -------------------------
(***************************************************************************)
(* What SendChannels keeps true for every number of channels, ids and      *)
(* payloads, every queue capacity and both sides.                          *)
(***************************************************************************)
EXTENDS SendChannels, DataFacts

(* CreateChannel messages are for channels that wait for their task, one   *)
(* message each.                                                           *)
CreateQueueInv ==
  /\ \A i \in DOMAIN toChannels : task[toChannels[i]] = "queued"
  /\ \A i, j \in DOMAIN toChannels : i # j => toChannels[i] # toChannels[j]

(* The spawner outlives its tasks, and closes the connection last.         *)
LifecycleInv ==
  /\ spawner = "absent" => \A c \in Channels : ~Live(c)
  /\ spawner = "gone" => /\ toChannels = <<>>
                         /\ \A c \in Channels : ~Live(c)
  /\ quic = "closed" => spawner = "gone"

(* What the tasks of a channel took from its queue so far. *)
Taken(c) ==
  Elements(wire[c]) \cup Elements(buf[c]) \cup {m.payload : m \in inflight[c]}

(* A channel that was never opened carries nothing.                        *)
UnusedInv ==
  \A c \in Channels : task[c] = "none" =>
    /\ queue[c] = <<>> /\ accepted[c] = <<>>
    /\ buf[c] = <<>> /\ wire[c] = <<>> /\ inflight[c] = {}

(* Payloads are numbered as they are accepted.                             *)
NumberedInv ==
  \A c \in Channels : \A p \in Taken(c) \cup Elements(queue[c]) : p < nextPayload

(* A healthy connection is never reported lost. *)
NotReportedInv ==
  Healthy => ~lostReported /\ \A c \in Channels : taskSignal[c] # "PeerClosed"

(* What is accepted after the task's last look at its queue is still in    *)
(* the queue when the task ends.  On the server nothing is: an open        *)
(* connection lets a task end only when its channel is closed.             *)
LateInv ==
  /\ \A c \in Channels :
       /\ task[c] \notin {"finishing", "ended"} => late[c] = {}
       /\ task[c] = "finishing" => late[c] = Elements(queue[c]) \ Oversized
  /\ Side = "server" /\ state = "open" =>
       /\ ~dropped
       /\ \A c \in Channels :
            /\ taskSignal[c] = "no"
            /\ task[c] \in {"flushing", "finishing"} => Abandoned(c)

(* The way of the payloads of an ordered channel: what is written, then at *)
(* most one frame being written, then the queue; nothing is left out while *)
(* the task can still write.                                               *)
Orderly(c) ==
  /\ Increasing(wire[c]) /\ Increasing(queue[c])
  /\ Len(buf[c]) <= 1
  /\ inflight[c] = {}
  /\ \A w \in Elements(wire[c]), p \in Elements(buf[c]) \cup Elements(queue[c]) : w < p
  /\ \A b \in Elements(buf[c]), p \in Elements(queue[c]) : b < p
  /\ Elements(accepted[c]) \cap Oversized = {}
  /\ \A p \in Elements(accepted[c]), w \in Elements(wire[c]) :
       p < w => p \in Elements(wire[c])
  /\ Receiving(c) /\ quic = "open" =>
       Elements(accepted[c])
         \subseteq Elements(wire[c]) \cup Elements(buf[c]) \cup Elements(queue[c])

OrderInv == \A c \in Channels : kind[c] = "OrderedReliable" => Orderly(c)

IInv == /\ TypeOK
        /\ CreateQueueInv
        /\ LifecycleInv
        /\ UnusedInv
        /\ NumberedInv
        /\ NotReportedInv
        /\ LateInv
        /\ NothingLost
        /\ OrderInv

-----------------------------------------------------------------------------

(* What the two operations and concatenation do to the set of elements.    *)
LEMMA ElementsAppend ==
  ASSUME NEW S, NEW s \in Seq(S), NEW x \in S
  PROVE  Elements(Append(s, x)) = Elements(s) \cup {x}
<1> DEFINE t == Append(s, x)
<1> SUFFICES \A e : e \in Elements(t) <=> e \in Elements(s) \/ e = x
  OBVIOUS
<1>1. /\ Len(s) \in Nat
      /\ DOMAIN s = 1..Len(s)
      /\ DOMAIN t = 1..(Len(s) + 1)
      /\ \A i \in 1..Len(s) : t[i] = s[i]
      /\ t[Len(s) + 1] = x
  BY AppendIndex
<1> HIDE DEF t
<1> QED
  BY <1>1 DEF Elements

LEMMA ElementsTail ==
  ASSUME NEW S, NEW s \in Seq(S), s # <<>>
  PROVE  Elements(s) = {Head(s)} \cup Elements(Tail(s))
<1> DEFINE t == Tail(s)
           h == Head(s)
<1> SUFFICES \A e : e \in Elements(s) <=> e \in Elements(t) \/ e = h
  OBVIOUS
<1>1. /\ Len(s) \in Nat \ {0}
      /\ DOMAIN s = 1..Len(s)
      /\ DOMAIN t = 1..(Len(s) - 1)
      /\ \A i \in 1..(Len(s) - 1) : t[i] = s[i + 1]
      /\ h = s[1]
  BY TailIndex
<1> HIDE DEF t, h
<1>2. ASSUME NEW e, e \in Elements(s) PROVE e \in Elements(t) \/ e = h
  <2>1. PICK i \in 1..Len(s) : e = s[i]
    BY <1>1, <1>2 DEF Elements
  <2>2. CASE i = 1
    BY <1>1, <2>1, <2>2
  <2>3. CASE i # 1
    <3>1. i - 1 \in 1..(Len(s) - 1) /\ s[i] = t[i - 1]
      BY <1>1, <2>3
    <3> QED
      BY <1>1, <2>1, <3>1 DEF Elements
  <2> QED
    BY <2>2, <2>3
<1>3. ASSUME NEW e, e \in Elements(t) \/ e = h PROVE e \in Elements(s)
  <2>1. 1 \in DOMAIN s /\ \A i \in DOMAIN t : i + 1 \in DOMAIN s
    BY <1>1
  <2> QED
    BY <1>1, <1>3, <2>1 DEF Elements
<1> QED
  BY <1>2, <1>3

LEMMA ElementsConcat ==
  ASSUME NEW S, NEW s \in Seq(S), NEW t \in Seq(S)
  PROVE  Elements(s \o t) = Elements(s) \cup Elements(t)
<1> DEFINE u == s \o t
<1> SUFFICES \A e : e \in Elements(u) <=> e \in Elements(s) \/ e \in Elements(t)
  OBVIOUS
<1>1. /\ Len(s) \in Nat /\ Len(t) \in Nat
      /\ DOMAIN s = 1..Len(s) /\ DOMAIN t = 1..Len(t)
      /\ DOMAIN u = 1..(Len(s) + Len(t))
      /\ \A i \in 1..(Len(s) + Len(t)) :
           u[i] = IF i <= Len(s) THEN s[i] ELSE t[i - Len(s)]
  BY ConcatProperties, LenProperties
<1> HIDE DEF u
<1>2. ASSUME NEW e, e \in Elements(u) PROVE e \in Elements(s) \/ e \in Elements(t)
  <2>1. PICK i \in 1..(Len(s) + Len(t)) : e = u[i]
    BY <1>1, <1>2 DEF Elements
  <2>2. CASE i <= Len(s)
    <3>1. i \in DOMAIN s /\ e = s[i]
      BY <1>1, <2>1, <2>2
    <3> QED
      BY <3>1 DEF Elements
  <2>3. CASE ~(i <= Len(s))
    <3>1. i - Len(s) \in DOMAIN t /\ e = t[i - Len(s)]
      BY <1>1, <2>1, <2>3
    <3> QED
      BY <3>1 DEF Elements
  <2> QED
    BY <2>2, <2>3
<1>3. ASSUME NEW e, e \in Elements(s) PROVE e \in Elements(u)
  <2>1. PICK i \in 1..Len(s) : e = s[i]
    BY <1>1, <1>3 DEF Elements
  <2>2. i \in DOMAIN u /\ u[i] = e
    BY <1>1, <2>1
  <2> QED
    BY <2>2 DEF Elements
<1>4. ASSUME NEW e, e \in Elements(t) PROVE e \in Elements(u)
  <2>1. PICK i \in 1..Len(t) : e = t[i]
    BY <1>1, <1>4 DEF Elements
  <2> DEFINE k == i + Len(s)
  <2>2. k \in 1..(Len(s) + Len(t)) /\ k - Len(s) = i /\ (k <= Len(s) <=> FALSE)
    BY <1>1, <2>1
  <2>3. k \in DOMAIN u /\ u[k] = e
    BY <1>1, <2>1, <2>2
  <2> QED
    BY <2>3 DEF Elements
<1> QED
  BY <1>2, <1>3, <1>4

(* Taking the head of a queue leaves every queue a sequence of payloads.   *)
LEMMA TakesHeadType ==
  ASSUME TypeOK, NEW c \in Channels, TakesHead(c)
  PROVE  /\ queue' \in [Channels -> Seq(Payloads)]
         /\ Head(queue[c]) \in Payloads
<1>1. queue[c] \in Seq(Payloads) /\ queue[c] # <<>>
  BY DEF TypeOK, TakesHead
<1>2. Tail(queue[c]) \in Seq(Payloads) /\ Head(queue[c]) \in Payloads
  BY <1>1
<1> QED
  BY <1>2 DEF TypeOK, TakesHead

(* The initial state is of its type.                                       *)
LEMMA TypeInit == Init => TypeOK
<1> SUFFICES ASSUME Init PROVE TypeOK
  OBVIOUS
<1>1. nextPayload \in 1..(MaxPayloads + 1)
  BY PayloadsAssumption DEF Init
<1>2. /\ toChannels \in Seq(Channels)
      /\ <<>> \in Seq(Payloads)
  BY DEF Init
<1> QED
  BY <1>1, <1>2 DEF Init, NewPool, TypeOK, States, Active

(* Every step keeps the state of its type.                                 *)
LEMMA TypeStep == TypeOK /\ [Next]_vars => TypeOK'
<1> SUFFICES ASSUME TypeOK, [Next]_vars PROVE TypeOK'
  OBVIOUS
<1> USE DEF States, Active, inbox, signals, tasks, network, history, app
<1>1. ASSUME NEW c \in Channels, NEW k \in Kinds, OpenChannel(c, k)
      PROVE  TypeOK'
  <2>1. toChannels' \in Seq(Channels)
    BY <1>1 DEF OpenChannel, TypeOK
  <2>2. available' \in SUBSET ChannelIds
        /\ sendChannels' \in [ChannelIds -> Channels \cup {None}]
    BY <1>1 DEF OpenChannel, TypeOK, Lowest
  <2>3. kind' \in [Channels -> Kinds \cup {None}] /\ task' \in [Channels -> States]
    BY <1>1 DEF OpenChannel, TypeOK
  <2> QED
    BY <1>1, <2>1, <2>2, <2>3 DEF OpenChannel, TypeOK
<1>2. CASE OpenChannelFails
  BY <1>2 DEF OpenChannelFails, TypeOK
<1>3. ASSUME NEW id \in ChannelIds, SendPayload(id) PROVE TypeOK'
  <2> DEFINE c == sendChannels[id]
  <2>1. c \in Channels /\ nextPayload \in Payloads
    BY <1>3 DEF SendPayload, TypeOK
  <2>2. queue' \in [Channels -> Seq(Payloads)]
    <3>1. Append(queue[c], nextPayload) \in Seq(Payloads)
      BY <2>1 DEF TypeOK
    <3> QED
      BY <1>3, <2>1, <3>1 DEF SendPayload, TypeOK
  <2>3. accepted' \in [Channels -> Seq(Payloads)]
    <3>1. Append(accepted[c], nextPayload) \in Seq(Payloads)
      BY <2>1 DEF TypeOK
    <3> QED
      BY <1>3, <2>1, <3>1 DEF SendPayload, TypeOK
  <2>4. nextPayload' \in 1..(MaxPayloads + 1)
    BY <1>3, <2>1, PayloadsAssumption DEF SendPayload, Payloads
  <2>5. late' \in [Channels -> SUBSET Payloads]
    <3>1. CASE nextPayload \in Oversized
      BY <1>3, <3>1 DEF SendPayload, TypeOK
    <3>2. CASE nextPayload \notin Oversized
      <4>1. late' = IF task[c] = "finishing"
                    THEN [late EXCEPT ![c] = @ \cup {nextPayload}] ELSE late
        BY <1>3, <3>2 DEF SendPayload
      <4> QED
        BY <2>1, <4>1 DEF TypeOK
    <3> QED
      BY <3>1, <3>2
  <2> QED
    BY <1>3, <2>2, <2>3, <2>4, <2>5 DEF SendPayload, TypeOK
<1>4. ASSUME NEW id \in ChannelIds, CloseChannel(id) PROVE TypeOK'
  BY <1>4 DEF CloseChannel, TypeOK
<1>5. ASSUME NEW reason \in {"LocalOrder", "PeerClosed"},
             BroadcastClose(reason) \/ StaysDisconnected,
             inbox' \in BOOLEAN \X BOOLEAN \X BOOLEAN
      PROVE  TypeOK'
  <2>1. taskSignal' \in [Channels -> {"no", "LocalOrder", "PeerClosed"}]
    BY <1>5 DEF BroadcastClose, StaysDisconnected, TypeOK
  <2>2. spawnerSignalled' \in BOOLEAN
    BY <1>5 DEF BroadcastClose, StaysDisconnected, TypeOK
  <2> QED
    BY <1>5, <2>1, <2>2, SMTT(30) DEF BroadcastClose, StaysDisconnected, TypeOK
<1>6. CASE Disconnect
  BY <1>5, <1>6 DEF Disconnect, TypeOK
<1>7. CASE HandleLostConnection
  BY <1>5, <1>7 DEF HandleLostConnection, TypeOK
<1>8. CASE HandleConnectionClosed
  BY <1>5, <1>8 DEF HandleConnectionClosed, TypeOK
<1>9. CASE HandleConnected \/ HandleConnectionFailed
  BY <1>9 DEF HandleConnected, HandleConnectionFailed, Announced, TypeOK
<1>10. CASE DropConnection
  BY <1>10 DEF DropConnection, TypeOK
<1>11. CASE SpawnerStarts
  BY <1>11 DEF SpawnerStarts, TypeOK
<1>12. CASE ConnectFails
  BY <1>12 DEF ConnectFails, Discarded, TypeOK
<1>13. CASE SpawnerCreates
  BY <1>13 DEF SpawnerCreates, TypeOK
<1>14. CASE SpawnerStops
  BY <1>14 DEF SpawnerStops, TypeOK
<1>15. CASE SpawnerCloses
  BY <1>15 DEF SpawnerCloses, Discarded, TypeOK
<1>16. ASSUME NEW c \in Channels, TaskOpens(c) PROVE TypeOK'
  BY <1>16 DEF TaskOpens, TypeOK
<1>17. ASSUME NEW c \in Channels, OrderedTakes(c) PROVE TypeOK'
  <2>1. queue' \in [Channels -> Seq(Payloads)] /\ Head(queue[c]) \in Payloads
    BY <1>17, TakesHeadType DEF OrderedTakes
  <2>2. buf' \in [Channels -> Seq(Payloads)]
    <3>1. <<Head(queue[c])>> \in Seq(Payloads)
      BY <2>1
    <3> QED
      BY <1>17, <3>1 DEF OrderedTakes, TypeOK
  <2>3. task' \in [Channels -> States] /\ lostReported' \in BOOLEAN
    BY <1>17 DEF OrderedTakes, SendFails, ReportLost, TypeOK
  <2> QED
    BY <1>17, <2>1, <2>2, <2>3 DEF OrderedTakes, TypeOK
<1>18. ASSUME NEW c \in Channels, OrderedWrites(c) PROVE TypeOK'
  <2>1. wire' \in [Channels -> Seq(Payloads)]
    <3>1. wire[c] \o buf[c] \in Seq(Payloads)
      BY DEF TypeOK
    <3>2. \/ wire' = wire
          \/ wire' = [wire EXCEPT ![c] = wire[c] \o buf[c]]
      BY <1>18 DEF OrderedWrites
    <3> QED
      BY <3>1, <3>2 DEF TypeOK
  <2>2. buf' \in [Channels -> Seq(Payloads)]
    BY <1>18 DEF OrderedWrites, TypeOK
  <2>4. unread' \in [Channels -> Nat]
    <3>1. unread' = unread \/ unread' = [unread EXCEPT ![c] = @ + 1]
      BY <1>18 DEF OrderedWrites
    <3>2. unread \in [Channels -> Nat] /\ unread[c] + 1 \in Nat
      BY DEF TypeOK
    <3> QED
      BY <3>1, <3>2
  <2>3. task' \in [Channels -> States] /\ lostReported' \in BOOLEAN
    BY <1>18 DEF OrderedWrites, SendFails, ReportLost, TypeOK
  <2> QED
    BY <1>18, <2>1, <2>2, <2>3, <2>4 DEF OrderedWrites, TypeOK
<1>19. ASSUME NEW c \in Channels, UnorderedTakes(c) PROVE TypeOK'
  <2>1. queue' \in [Channels -> Seq(Payloads)] /\ Head(queue[c]) \in Payloads
    BY <1>19, TakesHeadType DEF UnorderedTakes
  <2>2. inflight' \in [Channels -> SUBSET Messages]
    <3> DEFINE m == [payload |-> Head(queue[c]), reports |-> (task[c] = "running"),
                     opened |-> FALSE]
    <3>1. (task[c] = "running") \in BOOLEAN
      OBVIOUS
    <3>2. m \in Messages
      BY <2>1, <3>1, Zenon DEF Messages
    <3>3. inflight' = [inflight EXCEPT ![c] = @ \cup {m}]
      BY <1>19 DEF UnorderedTakes
    <3> HIDE DEF m
    <3> QED
      BY <3>2, <3>3 DEF TypeOK
  <2> QED
    BY <1>19, <2>1, <2>2 DEF UnorderedTakes, TypeOK
<1>20. ASSUME NEW c \in Channels, NEW m \in inflight[c], MessageOpens(c, m)
       PROVE  TypeOK'
  <2>1. m \in Messages
    BY DEF TypeOK
  <2>2. [m EXCEPT !.opened = TRUE] \in Messages
    BY <2>1 DEF Messages
  <2>3. inflight' \in [Channels -> SUBSET Messages]
    BY <1>20, <2>2 DEF MessageOpens, TypeOK
  <2> QED
    BY <1>20, <2>3 DEF MessageOpens, TypeOK
<1>21. ASSUME NEW c \in Channels, NEW m \in inflight[c], MessageSent(c, m)
       PROVE  TypeOK'
  <2>1. m.payload \in Payloads /\ m.reports \in BOOLEAN
    BY DEF TypeOK, Messages
  <2>2. wire' \in [Channels -> Seq(Payloads)]
    <3>1. Append(wire[c], m.payload) \in Seq(Payloads)
      BY <2>1 DEF TypeOK
    <3> QED
      BY <1>21, <3>1 DEF MessageSent, TypeOK
  <2>3. inflight' \in [Channels -> SUBSET Messages]
    BY <1>21 DEF MessageSent, TypeOK
  <2>5. unread' \in [Channels -> Nat]
    BY <1>21 DEF MessageSent, TypeOK
  <2>4. lostReported' \in BOOLEAN
    BY <1>21, Zenon DEF MessageSent, TypeOK
  <2> QED
    BY <1>21, <2>2, <2>3, <2>4, <2>5 DEF MessageSent, TypeOK
<1>22. ASSUME NEW c \in Channels, UnreliableTakes(c) PROVE TypeOK'
  <2>1. queue' \in [Channels -> Seq(Payloads)] /\ Head(queue[c]) \in Payloads
    BY <1>22, TakesHeadType DEF UnreliableTakes
  <2>2. wire' \in [Channels -> Seq(Payloads)]
    <3>1. Append(wire[c], Head(queue[c])) \in Seq(Payloads)
      BY <2>1 DEF TypeOK
    <3> QED
      BY <1>22, <3>1 DEF UnreliableTakes, TypeOK
  <2>3. task' \in [Channels -> States] /\ lostReported' \in BOOLEAN
    BY <1>22 DEF UnreliableTakes, SendFails, ReportLost, TypeOK
  <2> QED
    BY <1>22, <2>1, <2>2, <2>3 DEF UnreliableTakes, TypeOK
<1>23. ASSUME NEW c \in Channels, TaskStops(c) PROVE TypeOK'
  <2>1. task' \in [Channels -> States]
    BY <1>23 DEF TaskStops, AfterStop, TypeOK
  <2>2. unread' \in [Channels -> Nat]
    <3>1. unread' = unread \/ unread' = [unread EXCEPT ![c] = @ + 1]
      BY <1>23 DEF TaskStops, UnreadWhenOver
    <3>2. unread \in [Channels -> Nat] /\ unread[c] + 1 \in Nat
      BY DEF TypeOK
    <3> QED
      BY <3>1, <3>2
  <2> QED
    BY <1>23, <2>1, <2>2 DEF TaskStops, TypeOK
<1>24. ASSUME NEW c \in Channels, TaskDrained(c) PROVE TypeOK'
  BY <1>24 DEF TaskDrained, TypeOK
<1>25. ASSUME NEW c \in Channels, TaskEnds(c) PROVE TypeOK'
  <2>1. task' \in [Channels -> States]
    BY <1>25 DEF TaskEnds, TypeOK
  <2>2. unread' \in [Channels -> Nat]
    <3>1. unread' = unread \/ unread' = [unread EXCEPT ![c] = @ + 1]
      BY <1>25 DEF TaskEnds, UnreadWhenOver
    <3>2. unread \in [Channels -> Nat] /\ unread[c] + 1 \in Nat
      BY DEF TypeOK
    <3> QED
      BY <3>1, <3>2
  <2> QED
    BY <1>25, <2>1, <2>2 DEF TaskEnds, TypeOK
<1>26. ASSUME NEW c \in Channels, PeerReads(c) PROVE TypeOK'
  BY <1>26, SMTT(30) DEF PeerReads, TypeOK
<1>27. CASE ConnectionLost
  BY <1>27 DEF ConnectionLost, TypeOK
<1>28. CASE UNCHANGED vars
  BY <1>28 DEF vars, TypeOK
<1> QED
  BY <1>1, <1>2, <1>3, <1>4, <1>6, <1>7, <1>8, <1>9, <1>10, <1>11,
     <1>12, <1>13, <1>14, <1>15, <1>16, <1>17, <1>18, <1>19, <1>20, <1>21,
     <1>22, <1>23, <1>24, <1>25, <1>26, <1>27, <1>28
  DEF Next, ApplicationNext, SpawnerNext, TaskNext, PeerNext

(* The state is always of its type.                                        *)
THEOREM TypeCorrect == Spec => []TypeOK
BY TypeInit, TypeStep, PTL DEF Spec

-----------------------------------------------------------------------------

(* The application touches no task and no part of the transport, except    *)
(* that opening a channel queues it.                                       *)
LEMMA ApplicationLocal ==
  ASSUME ApplicationNext \/ UNCHANGED vars
  PROVE  \/ \E c \in Channels, k \in Kinds : OpenChannel(c, k)
         \/ UNCHANGED <<toChannels, kind, task, buf, inflight, quic, wire, spawner>>
BY DEF ApplicationNext, OpenChannelFails, SendPayload, CloseChannel, Disconnect,
       BroadcastClose, StaysDisconnected, HandleLostConnection,
       HandleConnectionClosed, HandleConnected, HandleConnectionFailed, Announced,
       DropConnection, vars, app, inbox, signals, tasks, network, history

(* A task that takes a step is alive, and changes only what belongs to its *)
(* channel; it does not come back to where it was before it was created.   *)
LEMMA TaskLocal ==
  ASSUME TypeOK, NEW c \in Channels, TaskNext(c)
  PROVE  /\ Live(c)
         /\ UNCHANGED <<app, toChannels, spawner, signals, kind, quic, history>>
         /\ task'[c] \in {task[c], "ended"} \cup Active
         /\ \A d \in Channels \ {c} :
              /\ task'[d] = task[d]
              /\ inflight'[d] = inflight[d]
              /\ queue'[d] = queue[d]
              /\ buf'[d] = buf[d]
              /\ wire'[d] = wire[d]
<1> USE DEF TypeOK, Live, Active, inbox, tasks, network
<1>1. CASE TaskOpens(c)
  BY <1>1 DEF TaskOpens
<1>2. CASE OrderedTakes(c)
  BY <1>2 DEF OrderedTakes, TakesHead, SendFails, ReportLost
<1>3. CASE OrderedWrites(c)
  BY <1>3 DEF OrderedWrites, SendFails, ReportLost
<1>4. CASE UnorderedTakes(c)
  BY <1>4 DEF UnorderedTakes, TakesHead
<1>5. ASSUME NEW m \in inflight[c], MessageOpens(c, m) \/ MessageSent(c, m)
      PROVE  /\ UNCHANGED <<app, toChannels, spawner, signals, kind, quic, history>>
             /\ UNCHANGED <<task, queue, buf>>
             /\ \A d \in Channels \ {c} :
                  inflight'[d] = inflight[d] /\ wire'[d] = wire[d]
  BY <1>5 DEF MessageOpens, MessageSent
<1>6. CASE UnreliableTakes(c)
  BY <1>6 DEF UnreliableTakes, TakesHead, SendFails, ReportLost
<1>7. CASE TaskStops(c)
  BY <1>7 DEF TaskStops, AfterStop
<1>8. CASE TaskDrained(c) \/ TaskEnds(c)
  BY <1>8 DEF TaskDrained, TaskEnds
<1> QED
  BY <1>1, <1>2, <1>3, <1>4, <1>5, <1>6, <1>7, <1>8 DEF TaskNext

(* The peer only reads, or the connection is lost.                         *)
LEMMA PeerLocal ==
  ASSUME PeerNext
  PROVE  /\ UNCHANGED <<app, toChannels, queue, inbox, spawner, signals, tasks,
                        wire, history>>
         /\ quic' = quic \/ (quic = "open" /\ quic' = "lost")
BY DEF PeerNext, PeerReads, ConnectionLost, inbox, network

(* The queue of CreateChannel messages and the spawner keep step with the  *)
(* tasks.                                                                  *)
LEMMA LifecycleStep ==
  ASSUME TypeOK, CreateQueueInv, LifecycleInv, [Next]_vars
  PROVE  CreateQueueInv' /\ LifecycleInv'
<1> USE DEF CreateQueueInv, LifecycleInv, Live, Active
<1>1. ASSUME NEW c \in Channels, NEW k \in Kinds, OpenChannel(c, k)
      PROVE  CreateQueueInv' /\ LifecycleInv'
  <2>1. /\ task[c] = "none"
        /\ task' = [task EXCEPT ![c] = "queued"]
        /\ toChannels' = Append(toChannels, c)
        /\ spawner # "gone"
        /\ UNCHANGED <<spawner, inflight, quic>>
    BY <1>1 DEF OpenChannel, Fresh, network
  <2>2. CreateQueueInv'
    <3>1. /\ Len(toChannels) \in Nat
          /\ DOMAIN toChannels = 1..Len(toChannels)
          /\ DOMAIN toChannels' = 1..(Len(toChannels) + 1)
          /\ \A i \in 1..Len(toChannels) :
               toChannels'[i] = toChannels[i] /\ toChannels[i] \in Channels
          /\ toChannels'[Len(toChannels) + 1] = c
      BY <2>1, AppendIndex DEF TypeOK
    <3>2. \A i \in DOMAIN toChannels' : i \in DOMAIN toChannels \/ i = Len(toChannels) + 1
      BY <3>1
    <3>3. \A i \in DOMAIN toChannels : toChannels[i] # c /\ task'[toChannels[i]] = "queued"
      BY <2>1, <3>1 DEF TypeOK
    <3>4. task'[c] = "queued"
      BY <2>1 DEF TypeOK
    <3> QED
      BY <3>1, <3>2, <3>3, <3>4
  <2> QED
    BY <2>1, <2>2 DEF TypeOK
<1>2. CASE UNCHANGED <<toChannels, task, inflight, quic, spawner>>
  BY <1>2
<1>3. CASE SpawnerStarts \/ SpawnerStops
  BY <1>3 DEF SpawnerStarts, SpawnerStops, tasks, network
<1>4. CASE ConnectFails
  BY <1>4 DEF ConnectFails, Discarded, TypeOK, States
<1>5. CASE SpawnerCreates
  <2> DEFINE c == Head(toChannels)
  <2>1. /\ toChannels # <<>> /\ toChannels' = Tail(toChannels)
        /\ task' = [task EXCEPT ![c] =
                      IF kind[c] = "OrderedReliable" THEN "opening" ELSE "running"]
        /\ spawner = "select"
        /\ UNCHANGED <<spawner, inflight, quic>>
    BY <1>5 DEF SpawnerCreates, network
  <2>2. /\ Len(toChannels) \in Nat \ {0}
        /\ DOMAIN toChannels = 1..Len(toChannels)
        /\ c = toChannels[1]
        /\ DOMAIN toChannels' = 1..(Len(toChannels) - 1)
        /\ \A i \in 1..(Len(toChannels) - 1) : toChannels'[i] = toChannels[i + 1]
        /\ \A i \in 1..Len(toChannels) : toChannels[i] \in Channels
    BY <2>1, TailIndex DEF TypeOK
  <2> HIDE DEF c
  <2>3. ASSUME NEW i \in DOMAIN toChannels'
        PROVE  /\ i + 1 \in DOMAIN toChannels
               /\ toChannels[i + 1] \in Channels
               /\ toChannels[i + 1] # c
    BY <2>2
  <2>4. ASSUME NEW i \in DOMAIN toChannels', NEW j \in DOMAIN toChannels', i # j
        PROVE  toChannels'[i] # toChannels'[j]
    BY <2>2, <2>3, <2>4
  <2>5. ASSUME NEW i \in DOMAIN toChannels'
        PROVE  task'[toChannels'[i]] = "queued"
    BY <2>1, <2>2, <2>3 DEF TypeOK
  <2> QED
    BY <2>1, <2>4, <2>5
<1>6. CASE SpawnerCloses
  BY <1>6 DEF SpawnerCloses, Discarded, TypeOK, States
<1>7. ASSUME NEW c \in Channels, TaskNext(c)
      PROVE  CreateQueueInv' /\ LifecycleInv'
  <2>1. /\ UNCHANGED <<toChannels, spawner, quic>>
        /\ \A d \in Channels \ {c} : task'[d] = task[d] /\ inflight'[d] = inflight[d]
        /\ task'[c] \in {task[c], "ended"} \cup Active
        /\ spawner \notin {"absent", "gone"}
    BY <1>7, TaskLocal
  <2>2. task[c] = "queued" => task'[c] = "queued"
    BY <1>7 DEF TaskNext, TaskOpens, OrderedTakes, OrderedWrites, UnorderedTakes,
                UnreliableTakes, MessageOpens, MessageSent, TaskStops, TaskDrained,
                TaskEnds, TakesHead, tasks
  <2>3. CreateQueueInv'
    <3>1. \A i \in DOMAIN toChannels : toChannels[i] \in Channels
      BY LenProperties, ElementOfSeq DEF TypeOK
    <3>2. \A d \in Channels : task[d] = "queued" => task'[d] = "queued"
      BY <2>1, <2>2
    <3> QED
      BY <2>1, <3>1, <3>2
  <2>4. LifecycleInv'
    BY <2>1
  <2> QED
    BY <2>3, <2>4
<1>8. CASE PeerNext
  <2>1. UNCHANGED <<toChannels, task, inflight, spawner>> /\ (quic' = "closed" => quic = "closed")
    BY <1>8, PeerLocal DEF tasks
  <2> QED
    BY <2>1
<1> QED
  BY <1>1, <1>2, <1>3, <1>4, <1>5, <1>6, <1>7, <1>8, ApplicationLocal
  DEF Next, SpawnerNext

(* connection.close is called once no task can send any more: the tasks    *)
(* hold the keepalive, and the spawner creates none after it stopped.      *)
THEOREM ClosedLast == Spec => []ClosedAfterTasks
<1>1. Init => CreateQueueInv /\ LifecycleInv
  BY DEF Init, CreateQueueInv, LifecycleInv, Live, Active
<1>2. CreateQueueInv /\ LifecycleInv /\ TypeOK /\ [Next]_vars
        => (CreateQueueInv /\ LifecycleInv)'
  BY LifecycleStep
<1>3. LifecycleInv => ClosedAfterTasks
  BY DEF LifecycleInv, ClosedAfterTasks, Live
<1> QED
  BY <1>1, <1>2, <1>3, TypeCorrect, PTL DEF Spec

-----------------------------------------------------------------------------

LEMMA TakesHeadElements ==
  ASSUME TypeOK, NEW c \in Channels, TakesHead(c)
  PROVE  Elements(queue[c]) = {Head(queue[c])} \cup Elements(queue'[c])
<1>1. queue[c] \in Seq(Payloads) /\ queue[c] # <<>> /\ queue'[c] = Tail(queue[c])
  BY DEF TypeOK, TakesHead
<1> QED
  BY <1>1, ElementsTail

(* What a task's step does to the payloads of its channel: none appears;   *)
(* and on an open connection, with payloads that fit, none disappears, the *)
(* task does not leave any behind unless the peer closed the connection,   *)
(* and no loss is reported.                                                *)
LEMMA TaskFlow ==
  ASSUME TypeOK, NEW c \in Channels, TaskNext(c)
  PROVE  /\ Taken(c)' \cup Elements(queue'[c]) \subseteq Taken(c) \cup Elements(queue[c])
         /\ quic = "open" /\ (Taken(c) \cup Elements(queue[c])) \cap Oversized = {} =>
              /\ Taken(c)' \cup Elements(queue'[c]) = Taken(c) \cup Elements(queue[c])
              /\ ~Receiving(c) => Taken(c)' = Taken(c)
              /\ Receiving(c) => \/ Receiving(c)'
                                 \/ taskSignal[c] = "PeerClosed"
                                 \/ TaskEnds(c)
              /\ lostReported' = lostReported
<1> DEFINE h == Head(queue[c])
           InFlight == {m.payload : m \in inflight[c]}
<1> USE DEF Taken, Receiving, Active, inbox, network
<1>0. /\ Elements(<<>>) = {} /\ \A p : Elements(<<p>>) = {p}
      /\ task \in [Channels -> States] /\ buf[c] \in Seq(Payloads)
      /\ wire[c] \in Seq(Payloads) /\ queue[c] \in Seq(Payloads)
  BY DEF Elements, TypeOK
<1>1. CASE TaskOpens(c)
  BY <1>0, <1>1 DEF TaskOpens
<1>2. CASE OrderedTakes(c)
  <2>1. /\ Elements(queue[c]) = {h} \cup Elements(queue'[c])
        /\ buf[c] = <<>> /\ task[c] \in {"running", "flushing"}
        /\ UNCHANGED <<wire, inflight>>
    BY <1>2, TakesHeadElements DEF OrderedTakes, TakesHead
  <2>2. CASE h \notin Oversized
    <3>1. buf'[c] = <<h>> /\ UNCHANGED <<task, lostReported>>
      BY <1>2, <2>2 DEF OrderedTakes, TypeOK
    <3> QED
      BY <1>0, <2>1, <3>1
  <2>3. CASE h \in Oversized
    <3>1. UNCHANGED buf
      BY <1>2, <2>3 DEF OrderedTakes
    <3> QED
      BY <2>1, <2>3, <3>1
  <2> QED
    BY <2>2, <2>3
<1>3. CASE OrderedWrites(c)
  <2>1. /\ buf'[c] = <<>> /\ task[c] \in Active
        /\ UNCHANGED <<queue, inflight>>
    BY <1>3 DEF OrderedWrites, TypeOK
  <2>2. CASE quic = "open"
    <3>1. wire'[c] = wire[c] \o buf[c] /\ UNCHANGED <<task, lostReported>>
      BY <1>3, <2>2 DEF OrderedWrites, TypeOK
    <3>2. Elements(wire'[c]) = Elements(wire[c]) \cup Elements(buf[c])
      BY <1>0, <3>1, ElementsConcat
    <3> QED
      BY <1>0, <2>1, <3>1, <3>2
  <2>3. CASE quic # "open"
    BY <1>0, <1>3, <2>1, <2>3 DEF OrderedWrites
  <2> QED
    BY <2>2, <2>3
<1>4. CASE UnorderedTakes(c)
  <2> DEFINE m == [payload |-> h, reports |-> task[c] = "running", opened |-> FALSE]
  <2>1. /\ Elements(queue[c]) = {h} \cup Elements(queue'[c])
        /\ task[c] \in {"running", "flushing"}
        /\ UNCHANGED <<wire, buf, task, lostReported>>
    BY <1>4, TakesHeadElements DEF UnorderedTakes, TakesHead
  <2>2. inflight'[c] = inflight[c] \cup {m} /\ m.payload = h
    BY <1>4 DEF UnorderedTakes, TypeOK
  <2> HIDE DEF m
  <2>3. {n.payload : n \in inflight'[c]} = InFlight \cup {h}
    BY <2>2
  <2> QED
    BY <2>1, <2>3
<1>5. ASSUME NEW m \in inflight[c], MessageSent(c, m)
      PROVE  /\ Taken(c)' \subseteq Taken(c)
             /\ quic = "open" /\ Taken(c) \cap Oversized = {} =>
                  Taken(c)' = Taken(c) /\ lostReported' = lostReported
             /\ UNCHANGED <<queue, task>>
  <2>1. /\ inflight'[c] = inflight[c] \ {m} /\ UNCHANGED <<buf, queue, task>>
        /\ m.payload \in Payloads /\ m.payload \in InFlight
    BY <1>5 DEF MessageSent, TypeOK, Messages
  <2>2. /\ {n.payload : n \in inflight'[c]} \subseteq InFlight
        /\ InFlight = {n.payload : n \in inflight'[c]} \cup {m.payload}
    BY <2>1
  <2>3. CASE quic = "open" /\ m.payload \notin Oversized
    <3>1. wire'[c] = Append(wire[c], m.payload) /\ UNCHANGED lostReported
      BY <1>5, <2>3 DEF MessageSent, TypeOK
    <3>2. Elements(wire'[c]) = Elements(wire[c]) \cup {m.payload}
      BY <1>0, <2>1, <3>1, ElementsAppend
    <3> QED
      BY <2>1, <2>2, <3>1, <3>2
  <2>4. CASE ~(quic = "open" /\ m.payload \notin Oversized)
    <3>1. UNCHANGED wire
      BY <1>5, <2>4 DEF MessageSent
    <3> QED
      BY <2>1, <2>2, <2>4, <3>1
  <2> QED
    BY <2>3, <2>4
<1>6. CASE UnreliableTakes(c)
  <2>1. /\ Elements(queue[c]) = {h} \cup Elements(queue'[c]) /\ h \in Payloads
        /\ task[c] \in {"running", "flushing"}
        /\ UNCHANGED <<buf, inflight>>
    BY <1>6, TakesHeadElements, TakesHeadType DEF UnreliableTakes, TakesHead
  <2>2. CASE quic = "open" /\ h \notin Oversized
    <3>1. wire'[c] = Append(wire[c], h) /\ UNCHANGED <<task, lostReported>>
      BY <1>6, <2>2 DEF UnreliableTakes, TypeOK
    <3>2. Elements(wire'[c]) = Elements(wire[c]) \cup {h}
      BY <1>0, <2>1, <3>1, ElementsAppend
    <3> QED
      BY <2>1, <3>1, <3>2
  <2>3. CASE ~(quic = "open" /\ h \notin Oversized)
    <3>1. UNCHANGED wire
      BY <1>6, <2>3 DEF UnreliableTakes
    <3> QED
      BY <2>1, <2>3, <3>1
  <2> QED
    BY <2>2, <2>3
<1>7. CASE TaskStops(c)
  <2>1. /\ task[c] = "running" /\ UNCHANGED <<queue, buf, inflight, wire, lostReported>>
        /\ task'[c] = "flushing" \/ taskSignal[c] = "PeerClosed"
    BY <1>7 DEF TaskStops, AfterStop, StopReasons, TypeOK
  <2> QED
    BY <2>1
<1>8. CASE TaskDrained(c)
  BY <1>0, <1>8 DEF TaskDrained
<1>9. CASE TaskEnds(c)
  BY <1>9 DEF TaskEnds
<1>10. ASSUME NEW m \in inflight[c], MessageOpens(c, m)
       PROVE  /\ Taken(c)' \subseteq Taken(c)
              /\ quic = "open" => Taken(c)' = Taken(c)
              /\ UNCHANGED <<queue, task, lostReported>>
  <2> DEFINE n == [m EXCEPT !.opened = TRUE]
  <2>1. /\ n.payload = m.payload
        /\ UNCHANGED <<buf, queue, task, wire, lostReported>>
    BY <1>10 DEF MessageOpens, TypeOK, Messages
  <2>2. /\ inflight'[c] \subseteq (inflight[c] \ {m}) \cup {n}
        /\ quic = "open" => inflight'[c] = (inflight[c] \ {m}) \cup {n}
    BY <1>10 DEF MessageOpens, TypeOK
  <2> HIDE DEF n
  <2>3. /\ {x.payload : x \in inflight'[c]} \subseteq InFlight
        /\ quic = "open" => {x.payload : x \in inflight'[c]} = InFlight
    BY <2>1, <2>2
  <2> QED
    BY <2>1, <2>3
<1> QED
  BY <1>1, <1>2, <1>3, <1>4, <1>5, <1>6, <1>7, <1>8, <1>9, <1>10 DEF TaskNext

(* The payloads of a channel are payloads, hence numbers.                  *)
LEMMA PayloadType ==
  ASSUME TypeOK, NEW c \in Channels, NEW p \in Taken(c) \cup Elements(queue[c])
  PROVE  p \in Payloads /\ p \in Int
<1>1. Payloads \subseteq Int
  BY PayloadsAssumption DEF Payloads
<1>2. ASSUME NEW s \in Seq(Payloads) PROVE Elements(s) \subseteq Payloads
  BY LenProperties, ElementOfSeq DEF Elements
<1>3. {m.payload : m \in inflight[c]} \subseteq Payloads
  BY DEF TypeOK, Messages
<1> QED
  BY <1>1, <1>2, <1>3 DEF Taken, TypeOK

(* A task that gave up the receiver of its queue does not get it back.     *)
LEMMA ReceivingStays ==
  ASSUME TypeOK, NEW c \in Channels, TaskNext(c)
  PROVE  /\ ~Receiving(c) => task'[c] = task[c] /\ ~Receiving(c)'
         /\ task'[c] = "discarded" <=> task[c] = "discarded"
<1>1. ASSUME NEW m \in inflight[c], MessageOpens(c, m) \/ MessageSent(c, m)
      PROVE  UNCHANGED task
  BY <1>1 DEF MessageOpens, MessageSent
<1> QED
  BY <1>1 DEF TaskNext, TaskOpens, OrderedTakes, OrderedWrites, UnorderedTakes,
     UnreliableTakes, TaskStops, AfterStop, TaskDrained, TaskEnds, TakesHead,
     SendFails, ReportLost, Receiving, TypeOK, States, Active

(* How a task comes to its end: something stops it, it finds its queue     *)
(* empty, and it takes nothing after that.                                 *)
LEMMA TaskDrains ==
  ASSUME TypeOK, NEW c \in Channels, TaskNext(c)
  PROVE  /\ task[c] \in {"finishing", "ended"} => task'[c] \in {"finishing", "ended"}
         /\ task'[c] = "finishing" =>
              \/ task[c] = "finishing" /\ queue'[c] = queue[c]
              \/ task[c] = "flushing" /\ queue'[c] = <<>>
         /\ task'[c] \in {"flushing", "finishing"} =>
              task[c] \in {"flushing", "finishing"} \/ StopReasons(c) # {}
<1> USE DEF TypeOK, inbox, tasks
<1>1. CASE TaskOpens(c)
  BY <1>1 DEF TaskOpens
<1>2. CASE OrderedTakes(c)
  BY <1>2 DEF OrderedTakes, TakesHead, SendFails, ReportLost
<1>3. CASE OrderedWrites(c)
  BY <1>3 DEF OrderedWrites, SendFails, ReportLost
<1>4. CASE UnorderedTakes(c)
  BY <1>4 DEF UnorderedTakes, TakesHead
<1>5. ASSUME NEW m \in inflight[c], MessageOpens(c, m) \/ MessageSent(c, m)
      PROVE  UNCHANGED <<task, queue>>
  BY <1>5 DEF MessageOpens, MessageSent
<1>6. CASE UnreliableTakes(c)
  BY <1>6 DEF UnreliableTakes, TakesHead, SendFails, ReportLost
<1>7. CASE TaskStops(c)
  <2>1. task[c] = "running" /\ StopReasons(c) # {} /\ task'[c] \in {"flushing", "ended"}
    BY <1>7 DEF TaskStops, AfterStop
  <2> QED
    BY <2>1
<1>8. CASE TaskDrained(c) \/ TaskEnds(c)
  BY <1>8 DEF TaskDrained, TaskEnds
<1> QED
  BY <1>1, <1>2, <1>3, <1>4, <1>5, <1>6, <1>7, <1>8 DEF TaskNext

(* Where late payloads are, and that a server has none.                    *)
LEMMA LateStep ==
  ASSUME TypeOK, CreateQueueInv, LateInv, [Next]_vars
  PROVE  LateInv'
<1> USE DEF LateInv
<1>1. ASSUME NEW c \in Channels, NEW k \in Kinds, OpenChannel(c, k) PROVE LateInv'
  <2>1. /\ task[c] = "none" /\ task' = [task EXCEPT ![c] = "queued"]
        /\ \E id \in ChannelIds : sendChannels' = [sendChannels EXCEPT ![id] = c]
        /\ UNCHANGED <<state, dropped, queue, taskSignal, late>>
    BY <1>1 DEF OpenChannel, Fresh, Lowest, TypeOK, signals, history
  <2>2. \A d \in Channels : d # c => /\ task'[d] = task[d]
                                     /\ Abandoned(d) => Abandoned(d)'
    BY <2>1 DEF Abandoned, TypeOK
  <2>3. task'[c] = "queued" /\ late[c] = {}
    BY <2>1 DEF TypeOK
  <2> QED
    BY <2>1, <2>2, <2>3
<1>2. ASSUME NEW id \in ChannelIds, SendPayload(id) PROVE LateInv'
  <2> DEFINE c == sendChannels[id]
  <2>1. /\ c \in Channels /\ nextPayload \in Payloads
        /\ queue' = [queue EXCEPT ![c] = Append(@, nextPayload)]
        /\ UNCHANGED <<state, dropped, sendChannels, task, taskSignal>>
    BY <1>2 DEF SendPayload, tasks, signals, TypeOK
  <2>2. late' = IF nextPayload \notin Oversized /\ task[c] = "finishing"
                THEN [late EXCEPT ![c] = @ \cup {nextPayload}] ELSE late
    BY <1>2 DEF SendPayload, history
  <2> HIDE DEF c
  <2>3. Elements(queue'[c]) = Elements(queue[c]) \cup {nextPayload}
    BY <2>1, ElementsAppend DEF TypeOK
  <2>4. \A d \in Channels \ {c} : queue'[d] = queue[d] /\ late'[d] = late[d]
    BY <2>1, <2>2 DEF TypeOK
  <2>5. late'[c] = IF nextPayload \notin Oversized /\ task[c] = "finishing"
                   THEN late[c] \cup {nextPayload} ELSE late[c]
    BY <2>1, <2>2 DEF TypeOK
  <2>6. \A d \in Channels : Abandoned(d)' <=> Abandoned(d)
    BY <2>1 DEF Abandoned
  <2> QED
    BY <2>1, <2>3, <2>4, <2>5, <2>6
<1>3. CASE \/ OpenChannelFails \/ (\E id \in ChannelIds : CloseChannel(id))
           \/ UNCHANGED vars
  <2>1. /\ UNCHANGED <<state, dropped, queue, task, taskSignal, late>>
        /\ \A id \in ChannelIds : sendChannels'[id] \in {sendChannels[id], None}
    BY <1>3 DEF OpenChannelFails, CloseChannel, vars, app, tasks, signals, history, TypeOK
  <2>2. \A d \in Channels : Abandoned(d) => Abandoned(d)'
    BY <2>1, ChannelsAssumption DEF Abandoned
  <2> QED
    BY <2>1, <2>2
<1>4. CASE \/ Disconnect \/ HandleLostConnection \/ HandleConnectionClosed
           \/ HandleConnected \/ HandleConnectionFailed \/ DropConnection
  <2>1. /\ UNCHANGED <<queue, task, late>>
        /\ Side = "server" => state' = "disconnected"
    BY <1>4, SideAssumption
    DEF Disconnect, BroadcastClose, StaysDisconnected, HandleLostConnection,
        HandleConnectionClosed, HandleConnected, HandleConnectionFailed, Announced,
        DropConnection, app, tasks, history
  <2> QED
    BY <2>1
<1>5. CASE SpawnerNext
  <2>1. UNCHANGED <<state, dropped, sendChannels, queue, taskSignal, late>>
    BY <1>5 DEF SpawnerNext, SpawnerStarts, ConnectFails, SpawnerCreates,
                SpawnerStops, SpawnerCloses, app, tasks, signals, history
  <2>2. ASSUME NEW d \in Channels
        PROVE  \/ task'[d] = task[d]
               \/ task[d] = "queued" /\ task'[d] \in {"opening", "running", "discarded"}
    <3>1. CASE SpawnerCreates
      <4> DEFINE c == Head(toChannels)
      <4>1. toChannels # <<>> /\ toChannels \in Seq(Channels)
        BY <3>1 DEF SpawnerCreates, TypeOK
      <4>2. task[c] = "queued"
        BY <4>1, TailIndex DEF CreateQueueInv
      <4>3. \/ d # c /\ task'[d] = task[d]
            \/ d = c /\ task'[d] \in {"opening", "running"}
        BY <3>1 DEF SpawnerCreates, TypeOK
      <4> QED
        BY <4>2, <4>3
    <3>2. CASE SpawnerStarts \/ SpawnerStops \/ ConnectFails \/ SpawnerCloses
      BY <3>2 DEF SpawnerStarts, SpawnerStops, ConnectFails, SpawnerCloses,
                  Discarded, tasks
    <3> QED
      BY <1>5, <3>1, <3>2 DEF SpawnerNext
  <2>3. \A d \in Channels : Abandoned(d)' <=> Abandoned(d)
    BY <2>1 DEF Abandoned
  <2> QED
    BY <2>1, <2>2, <2>3
<1>6. ASSUME NEW c \in Channels, TaskNext(c) PROVE LateInv'
  <2>1. /\ UNCHANGED <<state, dropped, sendChannels, taskSignal, late>>
        /\ \A d \in Channels \ {c} : task'[d] = task[d] /\ queue'[d] = queue[d]
    BY <1>6, TaskLocal DEF app, signals, history
  <2>2. \A d \in Channels : Abandoned(d)' <=> Abandoned(d)
    BY <2>1 DEF Abandoned
  <2>3. /\ task[c] \in {"finishing", "ended"} => task'[c] \in {"finishing", "ended"}
        /\ task'[c] = "finishing" =>
             \/ task[c] = "finishing" /\ queue'[c] = queue[c]
             \/ task[c] = "flushing" /\ queue'[c] = <<>>
        /\ task'[c] \in {"flushing", "finishing"} =>
             task[c] \in {"flushing", "finishing"} \/ StopReasons(c) # {}
    BY <1>6, TaskDrains
  <2>4. Elements(<<>>) = {}
    BY DEF Elements
  <2>5. /\ task'[c] \notin {"finishing", "ended"} => late'[c] = {}
        /\ task'[c] = "finishing" => late'[c] = Elements(queue'[c]) \ Oversized
    BY <2>1, <2>3, <2>4
  <2>6. Side = "server" /\ state = "open" /\ StopReasons(c) # {} => Abandoned(c)
    BY DEF StopReasons
  <2> QED
    BY <2>1, <2>2, <2>3, <2>5, <2>6
<1>7. CASE PeerNext
  <2>1. UNCHANGED <<state, dropped, sendChannels, queue, task, taskSignal, late>>
    BY <1>7, PeerLocal DEF app, signals, tasks, history
  <2> QED
    BY <2>1 DEF Abandoned
<1> QED
  BY <1>1, <1>2, <1>3, <1>4, <1>5, <1>6, <1>7 DEF Next, ApplicationNext

FlowInv == UnusedInv /\ NumberedInv /\ NotReportedInv /\ NothingLost

(* No step loses or renumbers a payload.                                   *)
LEMMA FlowStep ==
  ASSUME TypeOK, CreateQueueInv, LifecycleInv, LateInv, FlowInv, [Next]_vars
  PROVE  FlowInv'
<1> USE DEF FlowInv, inbox, signals, tasks, network, history
<1>1. ASSUME NEW c \in Channels, NEW k \in Kinds, OpenChannel(c, k)
      PROVE  FlowInv'
  <2>1. /\ task[c] = "none" /\ task' = [task EXCEPT ![c] = "queued"]
        /\ UNCHANGED <<queue, accepted, late, buf, wire, inflight, quic, nextPayload,
                       lostReported, taskSignal>>
    BY <1>1 DEF OpenChannel, Fresh
  <2>2. UnusedInv'
    BY <2>1 DEF UnusedInv, TypeOK
  <2>3. NumberedInv' /\ NotReportedInv' /\ (Healthy' <=> Healthy)
    BY <2>1 DEF NumberedInv, NotReportedInv, Healthy, Taken
  <2>4. ASSUME Healthy', NEW d \in Channels, task'[d] # "discarded"
        PROVE  Elements(accepted[d]) = Elements(wire[d]) \cup Underway(d)' \cup Missed(d)'
    <3>1. CASE d = c
      BY <2>1, <3>1 DEF UnusedInv, Underway, Missed, Elements, TypeOK
    <3>2. CASE d # c
      BY <2>1, <2>3, <2>4, <3>2 DEF NothingLost, Underway, Missed, Receiving, TypeOK
    <3> QED
      BY <3>1, <3>2
  <2> QED
    BY <2>1, <2>2, <2>3, <2>4 DEF NothingLost
<1>2. ASSUME NEW id \in ChannelIds, SendPayload(id)
      PROVE  FlowInv'
  <2> DEFINE c == sendChannels[id]
  <2>1. /\ c \in Channels /\ Receiving(c) /\ nextPayload \in Payloads
        /\ queue' = [queue EXCEPT ![c] = Append(@, nextPayload)]
        /\ accepted' = IF nextPayload \in Oversized THEN accepted
                       ELSE [accepted EXCEPT ![c] = Append(@, nextPayload)]
        /\ nextPayload' = nextPayload + 1
        /\ UNCHANGED <<task, buf, wire, inflight, quic, lostReported, taskSignal>>
    BY <1>2 DEF SendPayload, TypeOK
  <2>11. /\ task[c] = "ended" => late' = late
         /\ \A d \in Channels \ {c} : late'[d] = late[d]
         /\ Side = "server" => late' = late
    <3>1. \/ late' = late
          \/ task[c] = "finishing" /\ late' = [late EXCEPT ![c] = @ \cup {nextPayload}]
      <4>1. CASE nextPayload \in Oversized
        BY <1>2, <4>1 DEF SendPayload
      <4>2. CASE nextPayload \notin Oversized /\ task[c] = "finishing"
        BY <1>2, <4>2 DEF SendPayload
      <4>3. CASE nextPayload \notin Oversized /\ task[c] # "finishing"
        BY <1>2, <4>3 DEF SendPayload
      <4> QED
        BY <4>1, <4>2, <4>3
    <3>2. Side = "server" => task[c] # "finishing"
      BY <1>2, <2>1 DEF LateInv, Abandoned, SendPayload
    <3> QED
      BY <3>1, <3>2 DEF TypeOK
  <2> HIDE DEF c
  <2>2. /\ queue[c] \in Seq(Payloads) /\ accepted[c] \in Seq(Payloads)
        /\ nextPayload \in Int
    BY <2>1 DEF TypeOK
  <2>3. Elements(queue'[c]) = Elements(queue[c]) \cup {nextPayload}
    BY <2>1, <2>2, ElementsAppend DEF TypeOK
  <2>4. nextPayload \notin Oversized =>
          Elements(accepted'[c]) = Elements(accepted[c]) \cup {nextPayload}
    BY <2>1, <2>2, ElementsAppend DEF TypeOK
  <2>5. \A d \in Channels \ {c} : queue'[d] = queue[d] /\ accepted'[d] = accepted[d]
    BY <2>1 DEF TypeOK
  <2>6. UnusedInv'
    BY <2>1, <2>5 DEF UnusedInv, Receiving, Active
  <2>7. NumberedInv'
    <3>1. ASSUME NEW d \in Channels, NEW p \in Taken(d) \cup Elements(queue[d])
          PROVE  p < nextPayload + 1
      <4>1. p \in Int /\ p < nextPayload
        BY PayloadType DEF NumberedInv
      <4> QED
        BY <2>2, <4>1
    <3>2. nextPayload < nextPayload + 1
      BY <2>2
    <3>3. \A d \in Channels : Taken(d)' = Taken(d)
      BY <2>1 DEF Taken
    <3>4. \A d \in Channels :
            Elements(queue'[d]) \subseteq Elements(queue[d]) \cup {nextPayload}
      BY <2>3, <2>5
    <3> QED
      BY <2>1, <3>1, <3>2, <3>3, <3>4 DEF NumberedInv
  <2>8. Healthy' => Healthy /\ nextPayload \notin Oversized
    <3>1. Oversized \subseteq Int
      BY PayloadsAssumption DEF Payloads
    <3> QED
      BY <2>1, <2>2, <3>1 DEF Healthy
  <2>9. NotReportedInv'
    BY <2>1, <2>8 DEF NotReportedInv
  <2>10. ASSUME Healthy', NEW d \in Channels, task'[d] # "discarded"
         PROVE  Elements(accepted'[d]) = Elements(wire'[d]) \cup Underway(d)' \cup Missed(d)'
    <3>1. Elements(accepted[d]) = Elements(wire[d]) \cup Underway(d) \cup Missed(d)
      BY <2>1, <2>8, <2>10 DEF NothingLost
    <3>4. Missed(d)' = Missed(d)
      BY <2>1, <2>11 DEF Missed
    <3>2. CASE d = c
      BY <2>1, <2>3, <2>4, <2>8, <2>10, <3>1, <3>2, <3>4 DEF Underway, Receiving
    <3>3. CASE d # c
      BY <2>1, <2>5, <3>1, <3>3, <3>4 DEF Underway, Receiving
    <3> QED
      BY <3>2, <3>3
  <2> QED
    BY <2>6, <2>7, <2>9, <2>10, <2>11 DEF NothingLost
<1>3. CASE \/ OpenChannelFails \/ (\E id \in ChannelIds : CloseChannel(id))
           \/ Disconnect \/ HandleLostConnection \/ HandleConnectionClosed
           \/ HandleConnected \/ HandleConnectionFailed \/ DropConnection
           \/ UNCHANGED vars
  <2> USE DEF OpenChannelFails, CloseChannel, Disconnect, BroadcastClose,
              StaysDisconnected, HandleLostConnection, HandleConnectionClosed,
              HandleConnected, HandleConnectionFailed, Announced, DropConnection,
              vars, app
  <2>1. UNCHANGED <<task, queue, accepted, late, buf, wire, inflight, quic, nextPayload>>
    BY <1>3
  <2>2. lostReported' => lostReported
    BY <1>3
  <2>5. ASSUME NEW d \in Channels, taskSignal'[d] = "PeerClosed"
        PROVE  \/ taskSignal[d] = "PeerClosed"
               \/ lostReported \/ quic = "lost"
               \/ quic = "closed" /\ task[d] \in {"opening", "running"}
    BY <1>3, <2>5
  <2> USE DEF Healthy
  <2>3. Healthy' <=> Healthy
    BY <2>1
  <2>4. NotReportedInv'
    <3>1. quic = "closed" => \A d \in Channels : task[d] \notin {"opening", "running"}
      BY DEF LifecycleInv, Live, Active
    <3> QED
      BY <2>2, <2>3, <2>5, <3>1 DEF NotReportedInv
  <2> QED
    BY <2>1, <2>3, <2>4
    DEF UnusedInv, NumberedInv, Taken, NothingLost, Underway, Missed, Receiving
<1>4. CASE SpawnerStarts \/ SpawnerStops
  BY <1>4 DEF SpawnerStarts, SpawnerStops, app, UnusedInv, NumberedInv, Taken,
              NotReportedInv, Healthy, NothingLost, Underway, Missed, Receiving
<1>5. CASE SpawnerCreates
  <2> DEFINE c == Head(toChannels)
  <2>1. /\ task[c] = "queued" /\ c \in Channels
        /\ \E t \in {"opening", "running"} : task' = [task EXCEPT ![c] = t]
        /\ UNCHANGED <<queue, accepted, late, buf, wire, inflight, quic, nextPayload,
                       lostReported, taskSignal>>
    <3>1. toChannels # <<>>
      BY <1>5 DEF SpawnerCreates
    <3>2. c = toChannels[1] /\ 1 \in DOMAIN toChannels /\ c \in Channels
      BY <3>1, TailIndex DEF TypeOK
    <3> QED
      BY <1>5, <3>2 DEF SpawnerCreates, CreateQueueInv, app
  <2> HIDE DEF c
  <2>2. UnusedInv'
    BY <2>1 DEF UnusedInv, TypeOK
  <2>3. NumberedInv' /\ NotReportedInv' /\ (Healthy' <=> Healthy)
    BY <2>1 DEF NumberedInv, NotReportedInv, Healthy, Taken
  <2>4. \A d \in Channels : /\ Receiving(d)' <=> Receiving(d)
                            /\ task'[d] # "discarded" => task[d] # "discarded"
    BY <2>1 DEF Receiving, Active, TypeOK
  <2>5. \A d \in Channels : Missed(d)' = Missed(d)
    BY <2>1 DEF Missed, TypeOK
  <2> QED
    BY <2>1, <2>2, <2>3, <2>4, <2>5 DEF NothingLost, Underway
<1>6. CASE ConnectFails
  <2>1. /\ ~Healthy' /\ task' = Discarded
        /\ UNCHANGED <<queue, accepted, late, buf, wire, inflight, nextPayload>>
    BY <1>6 DEF ConnectFails, Healthy, app
  <2> QED
    BY <2>1 DEF UnusedInv, NumberedInv, Taken, NotReportedInv, NothingLost, Discarded
<1>7. CASE SpawnerCloses
  <2>1. /\ task' = Discarded /\ (Healthy' => Healthy)
        /\ UNCHANGED <<queue, accepted, late, buf, wire, inflight, nextPayload,
                       lostReported, taskSignal>>
    BY <1>7 DEF SpawnerCloses, Healthy, app
  <2>2. \A d \in Channels : task'[d] # "discarded" => task'[d] = task[d]
    BY <2>1 DEF Discarded
  <2>3. \A d \in Channels : task'[d] = "none" => task[d] = "none"
    BY <2>1 DEF Discarded
  <2> QED
    BY <2>1, <2>2, <2>3 DEF UnusedInv, NumberedInv, Taken, NotReportedInv,
                            NothingLost, Underway, Missed, Receiving
<1>8. ASSUME NEW c \in Channels, TaskNext(c)
      PROVE  FlowInv'
  <2>1. /\ UNCHANGED <<taskSignal, quic, accepted, late, nextPayload>>
        /\ Live(c)
        /\ task'[c] \in {task[c], "ended"} \cup Active
        /\ \A d \in Channels \ {c} :
             /\ task'[d] = task[d] /\ inflight'[d] = inflight[d]
             /\ queue'[d] = queue[d] /\ buf'[d] = buf[d] /\ wire'[d] = wire[d]
    BY <1>8, TaskLocal DEF app
  <2>2. Taken(c)' \cup Elements(queue'[c]) \subseteq Taken(c) \cup Elements(queue[c])
    BY <1>8, TaskFlow
  <2>3. UnusedInv'
    BY <2>1 DEF UnusedInv, Live, Active
  <2>4. NumberedInv'
    BY <2>1, <2>2 DEF NumberedInv, Taken
  <2>5. Healthy => /\ quic = "open"
                   /\ (Taken(c) \cup Elements(queue[c])) \cap Oversized = {}
    <3> SUFFICES ASSUME Healthy, NEW p \in Taken(c) \cup Elements(queue[c]),
                        p \in Oversized
                 PROVE  FALSE
      BY <2>1 DEF Healthy, LifecycleInv
    <3>1. p < nextPayload /\ p >= nextPayload
      BY DEF NumberedInv, Healthy
    <3>2. p \in Int /\ nextPayload \in Int
      BY PayloadType DEF TypeOK
    <3> QED
      BY <3>1, <3>2
  <2>6. Healthy' <=> Healthy
    BY <2>1 DEF Healthy
  <2>7. NotReportedInv'
    BY <1>8, <2>1, <2>5, <2>6, TaskFlow DEF NotReportedInv
  <2>8. ASSUME Healthy, task[c] # "discarded"
        PROVE  Elements(accepted[c]) = Elements(wire'[c]) \cup Underway(c)' \cup Missed(c)'
    <3>1. /\ Taken(c)' \cup Elements(queue'[c]) = Taken(c) \cup Elements(queue[c])
          /\ ~Receiving(c) => Taken(c)' = Taken(c)
          /\ Receiving(c) => Receiving(c)' \/ TaskEnds(c)
      BY <1>8, <2>5, <2>8, TaskFlow DEF NotReportedInv
    <3>2. Elements(accepted[c])
            = Taken(c) \cup (IF Receiving(c) THEN Elements(queue[c]) ELSE {}) \cup Missed(c)
      BY <2>8 DEF NothingLost, Underway, Taken
    <3>3. CASE TaskEnds(c)
      <4>1. /\ task[c] = "finishing" /\ task'[c] = "ended"
            /\ UNCHANGED <<queue, buf, inflight, wire>>
        BY <3>3 DEF TaskEnds, TypeOK
      <4>2. Missed(c)' = Elements(queue[c])
        BY <2>1, <2>5, <2>8, <4>1 DEF Missed, LateInv
      <4> QED
        BY <3>2, <4>1, <4>2 DEF Missed, Underway, Taken, Receiving, Active
    <3>4. CASE Receiving(c) /\ Receiving(c)'
      <4>1. Missed(c) = {} /\ Missed(c)' = {}
        BY <3>4 DEF Missed, Receiving, Active
      <4> QED
        BY <3>1, <3>2, <3>4, <4>1 DEF Underway, Taken
    <3>5. CASE ~Receiving(c)
      <4>1. ~Receiving(c)' /\ (task[c] = "ended" <=> task'[c] = "ended")
        BY <1>8, <3>5, ReceivingStays
      <4>2. Missed(c)' = Missed(c)
        BY <2>1, <4>1 DEF Missed
      <4> QED
        BY <3>1, <3>2, <3>5, <4>1, <4>2 DEF Underway, Taken
    <3> QED
      BY <3>1, <3>3, <3>4, <3>5
  <2>9. task'[c] # "discarded" => task[c] # "discarded"
    BY <1>8, ReceivingStays
  <2>10. ASSUME Healthy, NEW d \in Channels, d # c, task'[d] # "discarded"
         PROVE  Elements(accepted[d]) = Elements(wire'[d]) \cup Underway(d)' \cup Missed(d)'
    BY <2>1, <2>10 DEF NothingLost, Underway, Missed, Receiving
  <2> QED
    BY <2>1, <2>3, <2>4, <2>6, <2>7, <2>8, <2>9, <2>10 DEF NothingLost
<1>9. CASE PeerNext
  <2>1. /\ UNCHANGED <<nextPayload, lostReported, taskSignal, task, queue, buf,
                       inflight, wire, accepted, late>>
        /\ quic' = quic \/ quic' = "lost"
    BY <1>9, PeerLocal DEF app
  <2>2. Healthy' => Healthy
    BY <2>1 DEF Healthy
  <2> QED
    BY <2>1, <2>2 DEF UnusedInv, NumberedInv, Taken, NotReportedInv, NothingLost,
                      Underway, Missed, Receiving
<1> QED
  BY <1>1, <1>2, <1>3, <1>4, <1>5, <1>6, <1>7, <1>8, <1>9
  DEF Next, ApplicationNext, SpawnerNext

-----------------------------------------------------------------------------

(* A channel whose payloads do not move stays in order.                    *)
LEMMA OrderlyFrame ==
  ASSUME NEW c \in Channels, Orderly(c),
         queue'[c] = queue[c], buf'[c] = buf[c], wire'[c] = wire[c],
         inflight'[c] = inflight[c], accepted'[c] = accepted[c],
         Receiving(c)' /\ quic' = "open" => Receiving(c) /\ quic = "open"
  PROVE  Orderly(c)'
BY DEF Orderly

LEMMA IncreasingAppend ==
  ASSUME NEW s \in Seq(Int), NEW x \in Int, Increasing(s),
         \A e \in Elements(s) : e < x
  PROVE  Increasing(Append(s, x))
<1> DEFINE t == Append(s, x)
<1>1. /\ Len(s) \in Nat
      /\ DOMAIN s = 1..Len(s)
      /\ DOMAIN t = 1..(Len(s) + 1)
      /\ \A i \in 1..Len(s) : t[i] = s[i]
      /\ t[Len(s) + 1] = x
  BY AppendIndex
<1> HIDE DEF t
<1>2. Increasing(t)
  <2> SUFFICES ASSUME NEW i \in DOMAIN t, NEW j \in DOMAIN t, i < j
               PROVE  t[i] < t[j]
    BY DEF Increasing
  <2>1. i \in DOMAIN s /\ t[i] = s[i]
    BY <1>1
  <2>2. CASE j \in DOMAIN s
    BY <1>1, <2>1, <2>2 DEF Increasing
  <2>3. CASE j = Len(s) + 1
    BY <1>1, <2>1, <2>3 DEF Elements
  <2> QED
    BY <1>1, <2>2, <2>3
<1> QED
  BY <1>2 DEF t

LEMMA IncreasingTail ==
  ASSUME NEW s \in Seq(Int), s # <<>>, Increasing(s)
  PROVE  /\ Increasing(Tail(s))
         /\ \A e \in Elements(Tail(s)) : Head(s) < e
<1> DEFINE t == Tail(s)
           h == Head(s)
<1>1. /\ Len(s) \in Nat \ {0}
      /\ DOMAIN s = 1..Len(s)
      /\ h = s[1]
      /\ DOMAIN t = 1..(Len(s) - 1)
      /\ \A i \in 1..(Len(s) - 1) : t[i] = s[i + 1]
  BY TailIndex
<1> HIDE DEF t, h
<1>2. \A i \in DOMAIN t : i + 1 \in DOMAIN s /\ t[i] = s[i + 1] /\ 1 < i + 1
  BY <1>1
<1>3. Increasing(t)
  <2> SUFFICES ASSUME NEW i \in DOMAIN t, NEW j \in DOMAIN t, i < j
               PROVE  t[i] < t[j]
    BY DEF Increasing
  <2>1. i + 1 < j + 1
    BY <1>1
  <2> QED
    BY <1>2, <2>1 DEF Increasing
<1>4. \A e \in Elements(t) : h < e
  <2>1. \A i \in DOMAIN t : h < t[i]
    BY <1>1, <1>2 DEF Increasing
  <2> QED
    BY <2>1 DEF Elements
<1> QED
  BY <1>3, <1>4 DEF t, h

(* A sequence with at most one element.                                    *)
LEMMA AtMostOne ==
  ASSUME NEW S, NEW s \in Seq(S), s # <<>>, Len(s) <= 1
  PROVE  \E b \in S : s = <<b>>
<1>1. Len(s) \in Nat /\ Len(s) # 0
  BY EmptySeq, LenProperties
<1>2. \A n \in Nat : n # 0 /\ n <= 1 => n = 1
  OBVIOUS
<1>3. Len(s) = 1
  BY <1>1, <1>2
<1>4. s[1] \in S
  BY <1>3, ElementOfSeq
<1>5. s = <<s[1]>>
  BY <1>3
<1> QED
  BY <1>4, <1>5

(* A step of its task keeps an ordered channel in order.                   *)
LEMMA OrderlyTask ==
  ASSUME TypeOK, NEW c \in Channels, kind[c] = "OrderedReliable", Orderly(c),
         TaskNext(c)
  PROVE  Orderly(c)'
<1>0. /\ buf[c] \in Seq(Payloads) /\ wire[c] \in Seq(Payloads)
      /\ queue[c] \in Seq(Payloads) /\ task \in [Channels -> States]
      /\ Elements(<<>>) = {} /\ \A p : Elements(<<p>>) = {p}
      /\ Payloads \subseteq Int
  BY PayloadsAssumption DEF TypeOK, Elements, Payloads
<1> USE DEF inbox, tasks, network, history, Active
<1>1. CASE TaskOpens(c)
  BY <1>0, <1>1, OrderlyFrame DEF TaskOpens, Receiving
<1>2. CASE OrderedTakes(c)
  <2> DEFINE h == Head(queue[c])
  <2>1. /\ queue[c] # <<>> /\ queue'[c] = Tail(queue[c])
        /\ buf[c] = <<>> /\ task[c] \in {"running", "flushing"}
        /\ UNCHANGED <<wire, inflight, accepted, quic>>
    BY <1>2 DEF OrderedTakes, TakesHead, TypeOK
  <2>2. /\ Elements(queue[c]) = {h} \cup Elements(queue'[c])
        /\ Increasing(queue'[c]) /\ \A e \in Elements(queue'[c]) : h < e
    <3>1. queue[c] \in Seq(Int)
      BY <1>0, SeqMonotonic
    <3> QED
      BY <1>0, <2>1, <3>1, ElementsTail, IncreasingTail DEF Orderly
  <2>3. CASE h \notin Oversized
    <3>1. buf'[c] = <<h>>
      BY <1>2, <2>3 DEF OrderedTakes, TypeOK
    <3>2. Elements(buf'[c]) = {h} /\ Len(buf'[c]) <= 1 /\ Elements(buf[c]) = {}
      BY <1>0, <2>1, <3>1
    <3> QED
      BY <2>1, <2>2, <3>2 DEF Orderly, Receiving
  <2>4. CASE h \in Oversized
    <3>1. buf'[c] = buf[c] /\ Elements(buf[c]) = {}
      BY <1>0, <1>2, <2>1, <2>4 DEF OrderedTakes
    <3> QED
      BY <2>1, <2>2, <2>4, <3>1 DEF Orderly, Receiving
  <2> HIDE DEF h
  <2> QED
    BY <2>3, <2>4
<1>3. CASE OrderedWrites(c)
  <2>1. /\ buf'[c] = <<>> /\ buf[c] # <<>> /\ Receiving(c)
        /\ UNCHANGED <<queue, inflight, accepted, quic>>
    BY <1>3 DEF OrderedWrites, TypeOK, Receiving
  <2>2. /\ Elements(buf'[c]) = {} /\ Len(buf'[c]) <= 1
    BY <1>0, <2>1
  <2>3. CASE quic = "open"
    <3>1. PICK b \in Payloads : buf[c] = <<b>>
      <4>1. buf[c] # <<>> /\ Len(buf[c]) <= 1
        BY <2>1 DEF Orderly
      <4> QED
        BY <1>0, <4>1, AtMostOne
    <3>2. wire'[c] = Append(wire[c], b)
      <4>1. wire'[c] = wire[c] \o buf[c]
        BY <1>3, <2>3 DEF OrderedWrites, TypeOK
      <4> QED
        BY <1>0, <3>1, <4>1, AppendIsConcat
    <3>3. /\ Elements(buf[c]) = {b}
          /\ Elements(wire'[c]) = Elements(wire[c]) \cup {b}
      BY <1>0, <3>1, <3>2, ElementsAppend
    <3>4. Increasing(wire'[c])
      <4>1. wire[c] \in Seq(Int)
        BY <1>0, SeqMonotonic
      <4> QED
        BY <1>0, <3>1, <3>2, <3>3, <4>1, IncreasingAppend DEF Orderly
    <3>5. ASSUME NEW p \in Elements(accepted[c]), NEW w \in Elements(wire'[c]), p < w
          PROVE  p \in Elements(wire'[c])
      <4>1. CASE w \in Elements(wire[c])
        BY <3>3, <3>5, <4>1 DEF Orderly
      <4>2. CASE w = b
        <5>1. p \in Elements(wire[c]) \cup {b} \cup Elements(queue[c])
          BY <2>1, <2>3, <3>3 DEF Orderly
        <5>2. p \notin Elements(queue[c])
          <6> SUFFICES ASSUME p \in Elements(queue[c]) PROVE FALSE
            OBVIOUS
          <6>1. b < p /\ p < b
            BY <3>3, <3>5, <4>2 DEF Orderly
          <6>2. p \in Int
            BY <1>0, PayloadType
          <6> QED
            BY <1>0, <6>1, <6>2
        <5> QED
          BY <3>3, <5>1, <5>2
      <4> QED
        BY <3>3, <4>1, <4>2
    <3> QED
      BY <2>1, <2>2, <3>3, <3>4, <3>5 DEF Orderly, Receiving
  <2>4. CASE quic # "open"
    <3>1. UNCHANGED wire
      BY <1>3, <2>4 DEF OrderedWrites
    <3> QED
      BY <2>1, <2>2, <2>4, <3>1 DEF Orderly
  <2> QED
    BY <2>3, <2>4
<1>4. CASE TaskStops(c) \/ TaskDrained(c) \/ TaskEnds(c)
  BY <1>4, OrderlyFrame DEF TaskStops, TaskDrained, TaskEnds, Receiving
<1>5. ~UnorderedTakes(c) /\ ~UnreliableTakes(c) /\ \A m \in inflight[c] : FALSE
  BY DEF UnorderedTakes, UnreliableTakes, Orderly
<1> QED
  BY <1>1, <1>2, <1>3, <1>4, <1>5 DEF TaskNext

(* Every step keeps every ordered channel in order.                        *)
LEMMA OrderStep ==
  ASSUME TypeOK, CreateQueueInv, UnusedInv, NumberedInv, OrderInv, [Next]_vars
  PROVE  OrderInv'
<1> USE DEF network, history
<1>1. ASSUME NEW c \in Channels, NEW k \in Kinds, OpenChannel(c, k)
      PROVE  OrderInv'
  <2> SUFFICES ASSUME NEW d \in Channels, kind'[d] = "OrderedReliable"
               PROVE  Orderly(d)'
    BY DEF OrderInv
  <2>1. /\ task[c] = "none"
        /\ task' = [task EXCEPT ![c] = "queued"] /\ kind' = [kind EXCEPT ![c] = k]
        /\ UNCHANGED <<queue, accepted, buf, wire, inflight, quic>>
    BY <1>1 DEF OpenChannel, Fresh
  <2>2. CASE d = c
    <3>1. /\ queue'[c] = <<>> /\ accepted'[c] = <<>> /\ buf'[c] = <<>>
          /\ wire'[c] = <<>> /\ inflight'[c] = {}
      BY <2>1 DEF UnusedInv
    <3>2. Elements(<<>>) = {} /\ Increasing(<<>>) /\ Len(<<>>) <= 1
      BY DEF Elements, Increasing
    <3> QED
      BY <2>2, <3>1, <3>2 DEF Orderly
  <2>3. CASE d # c
    <3>1. Orderly(d)
      BY <2>1, <2>3 DEF OrderInv, TypeOK
    <3> QED
      BY <2>1, <2>3, <3>1, OrderlyFrame DEF Receiving, Active, TypeOK
  <2> QED
    BY <2>2, <2>3
<1>2. ASSUME NEW id \in ChannelIds, SendPayload(id)
      PROVE  OrderInv'
  <2> DEFINE c == sendChannels[id]
  <2>1. /\ c \in Channels /\ Receiving(c) /\ nextPayload \in Payloads
        /\ queue' = [queue EXCEPT ![c] = Append(@, nextPayload)]
        /\ accepted' = IF nextPayload \in Oversized THEN accepted
                       ELSE [accepted EXCEPT ![c] = Append(@, nextPayload)]
        /\ UNCHANGED <<kind, task, buf, wire, inflight, quic>>
    BY <1>2 DEF SendPayload, tasks, TypeOK
  <2> HIDE DEF c
  <2>2. /\ queue[c] \in Seq(Payloads) /\ accepted[c] \in Seq(Payloads)
        /\ nextPayload \in Int /\ queue[c] \in Seq(Int)
    <3>1. Payloads \subseteq Int
      BY PayloadsAssumption DEF Payloads
    <3> QED
      BY <2>1, <3>1, SeqMonotonic DEF TypeOK
  <2>3. /\ queue'[c] = Append(queue[c], nextPayload)
        /\ Elements(queue'[c]) = Elements(queue[c]) \cup {nextPayload}
    BY <2>1, <2>2, ElementsAppend DEF TypeOK
  <2>4. Elements(accepted'[c]) = Elements(accepted[c])
                                  \cup ({nextPayload} \ Oversized)
    BY <2>1, <2>2, ElementsAppend DEF TypeOK
  <2>5. \A d \in Channels \ {c} : queue'[d] = queue[d] /\ accepted'[d] = accepted[d]
    BY <2>1 DEF TypeOK
  <2>6. /\ \A p \in Elements(queue[c]) : p < nextPayload
        /\ \A p \in Elements(buf[c]) : p < nextPayload
        /\ \A p \in Elements(wire[c]) : p < nextPayload /\ p \in Int
    BY <2>1, PayloadType DEF NumberedInv, Taken
  <2> SUFFICES ASSUME NEW d \in Channels, kind[d] = "OrderedReliable"
               PROVE  Orderly(d)'
    BY <2>1 DEF OrderInv
  <2>7. Orderly(d)
    BY DEF OrderInv
  <2>8. CASE d # c
    BY <2>1, <2>5, <2>7, <2>8, OrderlyFrame DEF Receiving
  <2>9. CASE d = c
    <3>1. Increasing(queue'[c])
      BY <2>2, <2>3, <2>6, <2>7, <2>9, IncreasingAppend DEF Orderly
    <3>2. \A p \in Elements(accepted'[c]), w \in Elements(wire[c]) :
             p < w => p \in Elements(wire[c])
      <4>1. \A w \in Elements(wire[c]) : ~(nextPayload < w)
        BY <2>2, <2>6
      <4> QED
        BY <2>4, <2>7, <2>9, <4>1 DEF Orderly
    <3>3. Elements(accepted'[c]) \cap Oversized = {}
      BY <2>4, <2>7, <2>9 DEF Orderly
    <3>4. \A w \in Elements(wire[c]), p \in Elements(buf[c]) \cup Elements(queue'[c]) :
             w < p
      BY <2>3, <2>6, <2>7, <2>9 DEF Orderly
    <3>5. \A b \in Elements(buf[c]), p \in Elements(queue'[c]) : b < p
      BY <2>3, <2>6, <2>7, <2>9 DEF Orderly
    <3>6. quic = "open" =>
            Elements(accepted'[c])
              \subseteq Elements(wire[c]) \cup Elements(buf[c]) \cup Elements(queue'[c])
      BY <2>1, <2>3, <2>4, <2>7, <2>9 DEF Orderly
    <3> QED
      BY <2>1, <2>7, <2>9, <3>1, <3>2, <3>3, <3>4, <3>5, <3>6 DEF Orderly
  <2> QED
    BY <2>8, <2>9
<1>3. ASSUME NEW id \in ChannelIds, CloseChannel(id) PROVE OrderInv'
  BY <1>3, OrderlyFrame DEF OrderInv, CloseChannel, tasks, Receiving
<1>4. CASE \/ OpenChannelFails \/ Disconnect \/ HandleLostConnection
           \/ HandleConnectionClosed \/ HandleConnected \/ HandleConnectionFailed
           \/ DropConnection \/ UNCHANGED vars
  <2>1. UNCHANGED <<kind, task, queue, buf, wire, inflight, accepted, quic>>
    BY <1>4
    DEF OpenChannelFails, Disconnect, BroadcastClose, StaysDisconnected,
        HandleLostConnection, HandleConnectionClosed, HandleConnected,
        HandleConnectionFailed, Announced, DropConnection, vars, app, tasks
  <2> QED
    BY <2>1, OrderlyFrame DEF OrderInv, Receiving
<1>5. CASE SpawnerNext
  <2> SUFFICES ASSUME NEW d \in Channels, kind'[d] = "OrderedReliable"
               PROVE  Orderly(d)'
    BY DEF OrderInv
  <2>1. UNCHANGED <<kind, queue, accepted, buf, wire, inflight>>
    BY <1>5 DEF SpawnerNext, SpawnerStarts, ConnectFails, SpawnerCreates,
                SpawnerStops, SpawnerCloses, tasks
  <2>2. quic' = "open" => quic = "open"
    BY <1>5 DEF SpawnerNext, SpawnerStarts, ConnectFails, SpawnerCreates,
                SpawnerStops, SpawnerCloses
  <2>3. Receiving(d)' => Receiving(d)
    <3>1. CASE SpawnerCreates
      <4> DEFINE c == Head(toChannels)
      <4>1. toChannels # <<>> /\ toChannels \in Seq(Channels)
        BY <3>1 DEF SpawnerCreates, TypeOK
      <4>2. task[c] = "queued"
        BY <4>1, TailIndex DEF CreateQueueInv
      <4>3. \A e \in Channels : e # c => task'[e] = task[e]
        BY <3>1 DEF SpawnerCreates, TypeOK
      <4> QED
        BY <4>2, <4>3 DEF Receiving, Active
    <3>2. CASE SpawnerStarts \/ SpawnerStops \/ ConnectFails \/ SpawnerCloses
      BY <3>2 DEF SpawnerStarts, SpawnerStops, ConnectFails, SpawnerCloses,
                  Discarded, Receiving, Active, tasks
    <3> QED
      BY <1>5, <3>1, <3>2 DEF SpawnerNext
  <2> QED
    BY <2>1, <2>2, <2>3, OrderlyFrame DEF OrderInv
<1>6. ASSUME NEW c \in Channels, TaskNext(c) PROVE OrderInv'
  <2> SUFFICES ASSUME NEW d \in Channels, kind'[d] = "OrderedReliable"
               PROVE  Orderly(d)'
    BY DEF OrderInv
  <2>1. kind[d] = "OrderedReliable" /\ UNCHANGED <<quic, accepted>>
    BY <1>6, TaskLocal
  <2>2. Orderly(d)
    BY <2>1 DEF OrderInv
  <2>3. CASE d = c
    BY <1>6, <2>1, <2>2, <2>3, OrderlyTask
  <2>4. CASE d # c
    <3>1. /\ task'[d] = task[d] /\ inflight'[d] = inflight[d]
          /\ queue'[d] = queue[d] /\ buf'[d] = buf[d] /\ wire'[d] = wire[d]
      BY <1>6, <2>4, TaskLocal
    <3> QED
      BY <2>1, <2>2, <3>1, OrderlyFrame DEF Receiving
  <2> QED
    BY <2>3, <2>4
<1>7. CASE PeerNext
  BY <1>7, PeerLocal, OrderlyFrame DEF OrderInv, tasks, Receiving
<1> QED
  BY <1>1, <1>2, <1>3, <1>4, <1>5, <1>6, <1>7 DEF Next, ApplicationNext

-----------------------------------------------------------------------------

LEMMA IInvInit == Init => IInv
<1> SUFFICES ASSUME Init PROVE IInv
  OBVIOUS
<1>1. \A c \in Channels :
        /\ Elements(queue[c]) = {} /\ Elements(buf[c]) = {}
        /\ Elements(wire[c]) = {} /\ Elements(accepted[c]) = {}
  BY DEF Init, Elements
<1>2. OrderInv
  BY ChannelsAssumption DEF Init, OrderInv, Orderly, Increasing, Elements
<1>3. /\ CreateQueueInv /\ LifecycleInv /\ UnusedInv
      /\ NumberedInv /\ NotReportedInv /\ LateInv /\ NothingLost
  BY <1>1 DEF Init, CreateQueueInv, LifecycleInv, Live, Active, UnusedInv,
              NumberedInv, Taken, NotReportedInv, LateInv, NothingLost, Underway,
              Missed
<1> QED
  BY <1>2, <1>3, TypeInit DEF IInv

(* The inductive invariant.                                                *)
THEOREM Inductive == Spec => []IInv
<1>1. IInv /\ [Next]_vars => IInv'
  BY TypeStep, LifecycleStep, LateStep, FlowStep, OrderStep DEF IInv, FlowInv
<1> QED
  BY <1>1, IInvInit, PTL DEF Spec

(* Nothing that was accepted for a channel whose task was created is lost  *)
(* on the way to QUIC while the transport works: not by closing the        *)
(* channel, not by disconnecting, not by dropping the connection, except   *)
(* what a reopened client accepts after the task's last look at its queue. *)
(* On the server nothing ever comes so late.                               *)
THEOREM NothingIsLost == Spec => []NothingLost
<1>1. IInv => NothingLost
  BY DEF IInv
<1> QED
  BY <1>1, Inductive, PTL

(* An ordered channel hands QUIC what was accepted in its order, without a *)
(* gap, for every interleaving of closes, errors and cancelled sends.      *)
THEOREM OrderIsKept == Spec => []OrderedDelivery
<1>1. IInv => OrderedDelivery
  BY DEF IInv, OrderInv, Orderly, OrderedDelivery
<1> QED
  BY <1>1, Inductive, PTL

=============================================================================
