----------------------- MODULE SendChannelsRefinement -----------------------
(***************************************************************************)
(* The sending half of a connection implements Transfer: for every number  *)
(* of channels, ids and payloads, each step of SendChannels is one of the  *)
(* steps of that specification, or none.                                   *)
(***************************************************************************)
EXTENDS SendChannelsProofs

InFlight(c) == {m.payload : m \in inflight[c]}

(* What was accepted is what was not too large, in its order.              *)
Accounted(c) ==
  /\ Elements(accepted[c]) \cap Oversized = {}
  /\ (Taken(c) \cup Elements(queue[c])) \ Oversized \subseteq Elements(accepted[c])
  /\ \A p \in Elements(accepted[c]) : p < nextPayload

(* A payload is in one place at a time.                                    *)
Once(c) ==
  /\ Increasing(queue[c])
  /\ \A p \in Taken(c), q \in Elements(queue[c]) : p < q
  /\ Elements(wire[c]) \cap (Elements(buf[c]) \cup InFlight(c)) = {}
  /\ \A m, n \in inflight[c] : m.payload = n.payload => m = n

(* Only an ordered channel buffers a frame, of a payload that fits; only   *)
(* an unordered reliable one has messages in flight; and a channel has no  *)
(* type before it is opened.                                               *)
Typed(c) ==
  /\ task[c] = "none" => kind[c] = None
  /\ kind[c] # "OrderedReliable" => buf[c] = <<>>
  /\ Elements(buf[c]) \cap Oversized = {}
  /\ kind[c] # "UnorderedReliable" => inflight[c] = {}

PlacesInv == \A c \in Channels : Accounted(c) /\ Once(c) /\ Typed(c)

-----------------------------------------------------------------------------

(* A channel whose payloads do not move keeps them where they are.         *)
LEMMA PlacesFrame ==
  ASSUME NEW c \in Channels, Accounted(c), Once(c), Typed(c),
         queue'[c] = queue[c], buf'[c] = buf[c], wire'[c] = wire[c],
         inflight'[c] = inflight[c], accepted'[c] = accepted[c],
         kind'[c] = kind[c], task'[c] = "none" => task[c] = "none",
         nextPayload' = nextPayload
  PROVE  Accounted(c)' /\ Once(c)' /\ Typed(c)'
BY DEF Accounted, Once, Typed, Taken, InFlight

(* A step of its task moves a payload from one place to the next.          *)
LEMMA PlacesTask ==
  ASSUME TypeOK, NEW c \in Channels, Accounted(c), Once(c), Typed(c), OrderInv,
         TaskNext(c)
  PROVE  Accounted(c)' /\ Once(c)' /\ Typed(c)'
<1> USE DEF inbox, tasks, network, history, Active
<1> DEFINE h == Head(queue[c])
<1>0. /\ buf[c] \in Seq(Payloads) /\ wire[c] \in Seq(Payloads)
      /\ queue[c] \in Seq(Payloads)
      /\ Elements(<<>>) = {} /\ \A p : Elements(<<p>>) = {p}
  BY DEF TypeOK, Elements
<1>1. Accounted(c)'
  BY TaskLocal, TaskFlow DEF Accounted, app
<1>2. ASSUME TakesHead(c)
      PROVE  /\ Elements(queue[c]) = {h} \cup Elements(queue'[c])
             /\ Increasing(queue'[c]) /\ \A e \in Elements(queue'[c]) : h < e
             /\ \A p \in Taken(c) : p < h /\ p # h
             /\ h \in Payloads /\ h \in Int
             /\ task[c] # "none"
  <2>1. /\ queue'[c] = Tail(queue[c]) /\ queue[c] # <<>> /\ task[c] # "none"
    BY <1>2 DEF TakesHead, TypeOK
  <2>2. queue[c] \in Seq(Int)
    BY <1>0, SeqMonotonic, PayloadsAssumption DEF Payloads
  <2>3. Elements(queue[c]) = {h} \cup Elements(queue'[c])
    BY <1>0, <2>1, ElementsTail
  <2>4. h \in Elements(queue[c])
    BY <2>3
  <2>5. h \in Payloads /\ h \in Int
    BY <2>4, PayloadType
  <2>6. \A p \in Taken(c) : p < h /\ p \in Int
    BY <2>4, PayloadType DEF Once
  <2> QED
    BY <2>1, <2>2, <2>3, <2>5, <2>6, IncreasingTail DEF Once
<1> HIDE DEF h
<1>3. CASE TaskOpens(c)
  BY <1>1, <1>3 DEF TaskOpens, Once, Typed, Taken, InFlight, TypeOK
<1>4. CASE OrderedTakes(c)
  <2>1. /\ TakesHead(c) /\ kind[c] = "OrderedReliable" /\ buf[c] = <<>>
        /\ buf'[c] \in {<<>>, <<h>>}
        /\ UNCHANGED <<kind, wire, inflight>>
        /\ inflight[c] = {}
    BY <1>4 DEF OrderedTakes, TypeOK, Typed, h
  <2>2. /\ Elements(buf'[c]) \subseteq {h} /\ Elements(buf[c]) = {}
        /\ Elements(buf'[c]) \cap Oversized = {}
    <3>1. h \in Oversized => buf'[c] = <<>>
      BY <1>4, <2>1 DEF OrderedTakes, h
    <3> QED
      BY <1>0, <2>1, <3>1
  <2>3. task'[c] # "none"
    BY <1>2, <1>4, <2>1 DEF OrderedTakes, SendFails, ReportLost, TypeOK
  <2>4. Taken(c)' \subseteq Taken(c) \cup {h}
    BY <2>1, <2>2 DEF Taken
  <2>5. Once(c)'
    <3>1. Elements(wire[c]) \cap {h} = {}
      BY <1>2, <2>1 DEF Taken
    <3>2. \A p \in Taken(c), q \in Elements(queue'[c]) : p < q
      BY <1>2, <2>1 DEF Once
    <3>3. InFlight(c)' = {}
      BY <2>1 DEF InFlight
    <3> QED
      BY <1>2, <2>1, <2>2, <2>4, <3>1, <3>2, <3>3 DEF Once
  <2> QED
    BY <1>1, <2>1, <2>2, <2>3, <2>5 DEF Typed
<1>5. CASE OrderedWrites(c)
  <2>1. /\ buf'[c] = <<>> /\ buf[c] # <<>> /\ kind[c] = "OrderedReliable"
        /\ UNCHANGED <<kind, queue, inflight>> /\ inflight[c] = {}
        /\ wire'[c] \in {wire[c], wire[c] \o buf[c]}
    BY <1>5 DEF OrderedWrites, TypeOK, Typed
  <2>2. Taken(c)' \subseteq Taken(c) /\ InFlight(c)' = {} /\ Elements(buf'[c]) = {}
    <3>1. Elements(wire[c] \o buf[c]) = Elements(wire[c]) \cup Elements(buf[c])
      BY <1>0, ElementsConcat
    <3>2. Elements(wire'[c]) \subseteq Elements(wire[c]) \cup Elements(buf[c])
      BY <2>1, <3>1, Zenon
    <3> QED
      BY <1>0, <2>1, <3>2 DEF Taken, InFlight
  <2>3. task'[c] # "none"
    BY <1>5 DEF OrderedWrites, SendFails, ReportLost, TypeOK
  <2> QED
    BY <1>1, <2>1, <2>2, <2>3 DEF Once, Typed
<1>6. CASE UnorderedTakes(c)
  <2> DEFINE m == [payload |-> h, reports |-> task[c] = "running", opened |-> FALSE]
  <2>1. /\ TakesHead(c) /\ kind[c] = "UnorderedReliable"
        /\ inflight'[c] = inflight[c] \cup {m} /\ m.payload = h
        /\ UNCHANGED <<kind, wire, buf, task>>
    BY <1>6 DEF UnorderedTakes, TypeOK, h
  <2> HIDE DEF m
  <2>2. InFlight(c)' = InFlight(c) \cup {h} /\ Taken(c)' = Taken(c) \cup {h}
    BY <2>1 DEF InFlight, Taken
  <2>3. Elements(buf[c]) = {}
    BY <1>0, <2>1 DEF Typed
  <2>4. Once(c)'
    <3>1. Elements(wire[c]) \cap {h} = {} /\ \A n \in inflight[c] : n.payload # h
      BY <1>2, <2>1 DEF Taken
    <3>2. \A p \in Taken(c), q \in Elements(queue'[c]) : p < q
      BY <1>2, <2>1 DEF Once
    <3>3. \A n1, n2 \in inflight'[c] : n1.payload = n2.payload => n1 = n2
      BY <2>1, <3>1 DEF Once
    <3> QED
      BY <1>2, <2>1, <2>2, <2>3, <3>1, <3>2, <3>3 DEF Once
  <2> QED
    BY <1>1, <1>2, <2>1, <2>4 DEF Typed
<1>7. ASSUME NEW m \in inflight[c], MessageSent(c, m) PROVE Once(c)' /\ Typed(c)'
  <2>1. /\ inflight'[c] = inflight[c] \ {m} /\ m.payload \in Payloads
        /\ UNCHANGED <<kind, queue, buf, task>>
        /\ wire'[c] \in {wire[c], Append(wire[c], m.payload)}
    BY <1>7 DEF MessageSent, Messages, TypeOK
  <2>2. Elements(wire'[c]) \subseteq Elements(wire[c]) \cup {m.payload}
    <3>1. Elements(Append(wire[c], m.payload)) = Elements(wire[c]) \cup {m.payload}
      BY <1>0, <2>1, ElementsAppend
    <3> QED
      BY <2>1, <3>1, Zenon
  <2>3. InFlight(c)' \subseteq InFlight(c) /\ m.payload \notin InFlight(c)'
        /\ m.payload \in InFlight(c)
    BY <2>1 DEF Once, InFlight
  <2>4. kind[c] = "UnorderedReliable" /\ Elements(buf[c]) = {}
    BY <1>0 DEF Typed
  <2>5. Taken(c)' \subseteq Taken(c)
    BY <2>1, <2>2, <2>3 DEF Taken, InFlight
  <2>6. Elements(wire'[c]) \cap (Elements(buf'[c]) \cup InFlight(c)') = {}
    BY <2>1, <2>2, <2>3, <2>4 DEF Once
  <2> QED
    BY <2>1, <2>4, <2>5, <2>6 DEF Once, Typed
<1>8. CASE UnreliableTakes(c)
  <2>1. /\ TakesHead(c) /\ kind[c] = "Unreliable"
        /\ UNCHANGED <<kind, buf, inflight>>
        /\ wire'[c] \in {wire[c], Append(wire[c], h)}
        /\ inflight[c] = {} /\ buf[c] = <<>>
    BY <1>8 DEF UnreliableTakes, TypeOK, Typed, h
  <2>2. Elements(wire'[c]) \subseteq Elements(wire[c]) \cup {h}
    <3>1. Elements(Append(wire[c], h)) = Elements(wire[c]) \cup {h}
      BY <1>0, <1>2, <2>1, ElementsAppend
    <3> QED
      BY <2>1, <3>1, Zenon
  <2>3. InFlight(c)' = {} /\ Elements(buf'[c]) = {}
    BY <1>0, <2>1 DEF InFlight
  <2>4. Taken(c)' \subseteq Taken(c) \cup {h}
    BY <2>1, <2>2 DEF Taken
  <2>5. task'[c] # "none"
    BY <1>2, <1>8, <2>1 DEF UnreliableTakes, SendFails, ReportLost, TypeOK
  <2>6. \A p \in Taken(c), q \in Elements(queue'[c]) : p < q
    BY <1>2, <2>1 DEF Once
  <2> QED
    BY <1>1, <1>2, <2>1, <2>3, <2>4, <2>5, <2>6 DEF Once, Typed
<1>9. CASE TaskStops(c) \/ TaskDrained(c) \/ TaskEnds(c)
  <2>1. /\ UNCHANGED <<kind, queue, buf, wire, inflight>>
        /\ task'[c] # "none" /\ task[c] # "none"
    BY <1>9 DEF TaskStops, AfterStop, TaskDrained, TaskEnds, TypeOK
  <2> QED
    BY <1>1, <2>1 DEF Once, Typed, Taken, InFlight
<1>10. ASSUME NEW m \in inflight[c], MessageOpens(c, m) PROVE Once(c)' /\ Typed(c)'
  <2> DEFINE n == [m EXCEPT !.opened = TRUE]
  <2>1. /\ inflight'[c] \in {inflight[c] \ {m}, (inflight[c] \ {m}) \cup {n}}
        /\ m \in Messages /\ n.payload = m.payload
        /\ UNCHANGED <<kind, queue, buf, wire, task>>
    BY <1>10 DEF MessageOpens, Messages, TypeOK
  <2> HIDE DEF n
  <2>2. InFlight(c)' \subseteq InFlight(c) /\ Taken(c)' \subseteq Taken(c)
    BY <2>1 DEF InFlight, Taken
  <2>3. \A m1, m2 \in inflight'[c] : m1.payload = m2.payload => m1 = m2
    BY <2>1 DEF Once
  <2>4. kind[c] = "UnorderedReliable"
    BY DEF Typed
  <2> QED
    BY <2>1, <2>2, <2>3, <2>4 DEF Once, Typed
<1> QED
  BY <1>1, <1>3, <1>4, <1>5, <1>6, <1>7, <1>8, <1>9, <1>10 DEF TaskNext

(* Every step keeps each payload in its place.                             *)
LEMMA PlacesStep == IInv /\ PlacesInv /\ [Next]_vars => PlacesInv'
<1> SUFFICES ASSUME IInv, PlacesInv, [Next]_vars, NEW d \in Channels
             PROVE  Accounted(d)' /\ Once(d)' /\ Typed(d)'
  BY DEF PlacesInv
<1>0. TypeOK /\ Accounted(d) /\ Once(d) /\ Typed(d)
  BY DEF IInv, PlacesInv
<1> USE DEF tasks, network, history
<1>1. ASSUME NEW c \in Channels, NEW k \in Kinds, OpenChannel(c, k)
      PROVE  Accounted(d)' /\ Once(d)' /\ Typed(d)'
  <2>1. /\ task[c] = "none" /\ task' = [task EXCEPT ![c] = "queued"]
        /\ kind' = [kind EXCEPT ![c] = k]
        /\ UNCHANGED <<queue, accepted, buf, wire, inflight, nextPayload>>
    BY <1>1 DEF OpenChannel, Fresh
  <2>2. CASE d = c
    <3>1. buf[c] = <<>> /\ inflight[c] = {}
      BY <2>1 DEF IInv, UnusedInv
    <3> QED
      BY <1>0, <2>1, <2>2, <3>1 DEF Accounted, Once, Typed, Taken, InFlight, TypeOK
  <2>3. CASE d # c
    <3>1. kind'[d] = kind[d] /\ task'[d] = task[d]
      BY <1>0, <2>1, <2>3 DEF TypeOK
    <3> QED
      BY <1>0, <2>1, <3>1, PlacesFrame
  <2> QED
    BY <2>2, <2>3
<1>2. ASSUME NEW id \in ChannelIds, SendPayload(id)
      PROVE  Accounted(d)' /\ Once(d)' /\ Typed(d)'
  <2> DEFINE c == sendChannels[id]
  <2>1. /\ c \in Channels /\ nextPayload \in Payloads
        /\ queue' = [queue EXCEPT ![c] = Append(@, nextPayload)]
        /\ accepted' = IF nextPayload \in Oversized THEN accepted
                       ELSE [accepted EXCEPT ![c] = Append(@, nextPayload)]
        /\ nextPayload' = nextPayload + 1
        /\ UNCHANGED <<task, kind, buf, wire, inflight>>
    BY <1>0, <1>2 DEF SendPayload, tasks, TypeOK
  <2> HIDE DEF c
  <2>2. /\ queue[c] \in Seq(Payloads) /\ accepted[c] \in Seq(Payloads)
        /\ nextPayload \in Int /\ queue[c] \in Seq(Int) /\ Payloads \subseteq Int
    <3>1. Payloads \subseteq Int
      BY PayloadsAssumption DEF Payloads
    <3> QED
      BY <1>0, <2>1, <3>1, SeqMonotonic DEF TypeOK
  <2>3. Taken(d)' = Taken(d) /\ InFlight(d)' = InFlight(d)
    BY <2>1 DEF Taken, InFlight
  <2>4. \A p \in Taken(d) \cup Elements(queue[d]) : p < nextPayload /\ p \in Int
    BY <1>0, PayloadType DEF IInv, NumberedInv
  <2>5. ASSUME NEW p \in Elements(accepted[d])
        PROVE  p < nextPayload /\ p < nextPayload + 1
    <3>1. p \in Payloads
      BY <1>0, LenProperties, ElementOfSeq DEF TypeOK, Elements
    <3>2. p \in Int /\ p < nextPayload
      BY <1>0, <2>2, <3>1 DEF Accounted
    <3> QED
      BY <2>2, <3>2
  <2>6. CASE d = c
    <3>1. Elements(queue'[d]) = Elements(queue[d]) \cup {nextPayload}
      BY <1>0, <2>1, <2>2, <2>6, ElementsAppend DEF TypeOK
    <3>2. Elements(accepted'[d]) = Elements(accepted[d]) \cup ({nextPayload} \ Oversized)
      BY <1>0, <2>1, <2>2, <2>6, ElementsAppend DEF TypeOK
    <3>3. Increasing(queue'[d])
      <4>1. queue'[d] = Append(queue[d], nextPayload)
        BY <1>0, <2>1, <2>6 DEF TypeOK
      <4> QED
        BY <1>0, <2>2, <2>4, <2>6, <4>1, IncreasingAppend DEF Once
    <3>4. nextPayload < nextPayload + 1
      BY <2>2
    <3>5. Accounted(d)'
      BY <1>0, <2>1, <2>3, <2>5, <3>1, <3>2, <3>4 DEF Accounted
    <3>6. Once(d)'
      BY <1>0, <2>1, <2>3, <2>4, <3>1, <3>3 DEF Once
    <3> QED
      BY <1>0, <2>1, <3>5, <3>6 DEF Typed
  <2>7. CASE d # c
    <3>1. queue'[d] = queue[d] /\ accepted'[d] = accepted[d]
      BY <1>0, <2>1, <2>7 DEF TypeOK
    <3> QED
      BY <1>0, <2>1, <2>3, <2>5, <3>1 DEF Accounted, Once, Typed
  <2> QED
    BY <2>6, <2>7
<1>3. CASE \/ OpenChannelFails \/ (\E id \in ChannelIds : CloseChannel(id))
           \/ Disconnect \/ HandleLostConnection \/ HandleConnectionClosed
           \/ HandleConnected \/ HandleConnectionFailed \/ DropConnection
           \/ PeerNext \/ UNCHANGED vars
  <2>1. UNCHANGED <<task, kind, queue, accepted, buf, wire, inflight, nextPayload>>
    BY <1>3, PeerLocal
    DEF OpenChannelFails, CloseChannel, Disconnect, BroadcastClose,
        StaysDisconnected, HandleLostConnection, HandleConnectionClosed,
        HandleConnected, HandleConnectionFailed, Announced, DropConnection, vars, app
  <2> QED
    BY <1>0, <2>1, PlacesFrame
<1>4. CASE SpawnerNext
  <2>1. /\ UNCHANGED <<kind, queue, accepted, buf, wire, inflight, nextPayload>>
        /\ task'[d] = "none" => task[d] = "none"
    BY <1>0, <1>4 DEF SpawnerNext, SpawnerStarts, ConnectFails, SpawnerCreates,
         SpawnerStops, SpawnerCloses, Discarded, tasks, app, TypeOK
  <2> QED
    BY <1>0, <2>1, PlacesFrame
<1>5. ASSUME NEW c \in Channels, TaskNext(c)
      PROVE  Accounted(d)' /\ Once(d)' /\ Typed(d)'
  <2>1. CASE d = c
    BY <1>0, <1>5, <2>1, PlacesTask DEF IInv
  <2>2. CASE d # c
    <3>1. /\ UNCHANGED <<kind, accepted, nextPayload>>
          /\ task'[d] = task[d] /\ inflight'[d] = inflight[d]
          /\ queue'[d] = queue[d] /\ buf'[d] = buf[d] /\ wire'[d] = wire[d]
      BY <1>0, <1>5, <2>2, TaskLocal DEF app
    <3> QED
      BY <1>0, <3>1, PlacesFrame
  <2> QED
    BY <2>1, <2>2
<1> QED
  BY <1>1, <1>2, <1>3, <1>4, <1>5 DEF Next, ApplicationNext

LEMMA PlacesInit == Init => PlacesInv
<1>1. Elements(<<>>) = {} /\ Increasing(<<>>)
  BY DEF Elements, Increasing
<1> QED
  BY <1>1 DEF Init, PlacesInv, Accounted, Once, Typed, Taken, InFlight

-----------------------------------------------------------------------------

(* What Transfer sees of a channel. *)
Broken == {c \in Channels : ~Healthy \/ task[c] = "discarded" \/ Missed(c) # {}}
Pending(c) == Elements(accepted[c]) \cap Underway(c)
Lost(c) == Elements(accepted[c]) \ (Elements(wire[c]) \cup Underway(c))
Ordered == {c \in Channels : kind[c] = "OrderedReliable"}

(* What is pending is not delivered. *)
LEMMA PendingApart ==
  ASSUME TypeOK, NEW c \in Channels, Once(c)
  PROVE  Elements(wire[c]) \cap Underway(c) = {}
<1>1. \A p \in Elements(wire[c]) : p \notin Elements(queue[c])
  <2>1. \A p \in Elements(wire[c]) : p \in Int /\ p \in Taken(c)
    BY PayloadType DEF Taken
  <2>2. \A p \in Int : ~(p < p)
    OBVIOUS
  <2> QED
    BY <2>1, <2>2 DEF Once
<1> QED
  BY <1>1 DEF Once, Underway, InFlight

(* A step that hands nothing to QUIC, accepts nothing and takes nothing    *)
(* from the way of a channel that is whole, is a step in which channels    *)
(* break and those that are broken lose payloads.                          *)
LEMMA LoseStep ==
  ASSUME TypeOK, PlacesInv,
         UNCHANGED <<wire, accepted, Ordered>>,
         Healthy' => Healthy,
         \A c \in Channels : task[c] = "discarded" => task'[c] = "discarded",
         \A c \in Channels : Missed(c) # {} => Missed(c)' # {},
         \A c \in Channels : Pending(c)' \subseteq Pending(c),
         \A c \in Channels :
           Healthy' /\ task'[c] # "discarded" /\ Missed(c)' = {} =>
             Pending(c)' = Pending(c)
  PROVE  ToQuic!Lose
<1>1. \A c \in Channels :
        /\ Lost(c) = Elements(accepted[c]) \ (Elements(wire[c]) \cup Pending(c))
        /\ Lost(c)' = Elements(accepted[c]) \ (Elements(wire[c]) \cup Pending(c)')
        /\ Pending(c) \subseteq Elements(accepted[c])
        /\ Elements(wire[c]) \cap Pending(c) = {}
  BY PendingApart DEF Lost, Pending, PlacesInv
<1>2. \A c \in Channels :
        /\ Lost(c) \subseteq Lost(c)' /\ Lost(c)' \subseteq Lost(c) \cup Pending(c)
        /\ c \notin Broken' => Lost(c)' = Lost(c)
        /\ Pending(c)' = Pending(c) \ Lost(c)'
  BY <1>1 DEF Broken
<1>3. Broken \subseteq Broken' /\ Broken' \subseteq Channels
  BY DEF Broken
<1>4. [c \in Channels |-> Pending(c)]' = [c \in Channels |-> Pending(c) \ Lost(c)']
  BY <1>2
<1> QED
  BY <1>2, <1>3, <1>4 DEF ToQuic!Lose, Broken, Pending, Lost, Ordered

(* Handing over one pending payload, on an ordered channel the first one   *)
(* of those that are neither with QUIC nor given up, is a delivery.        *)
LEMMA DeliverStep ==
  ASSUME TypeOK, NEW c \in Channels, NEW p \in Pending(c), p \in Payloads,
         wire' = [wire EXCEPT ![c] = Append(@, p)],
         UNCHANGED <<accepted, late, kind, task, quic, nextPayload>>,
         \A d \in Channels \ {c} : Underway(d)' = Underway(d),
         Underway(c)' = Underway(c) \ {p},
         kind[c] = "OrderedReliable" => \A q \in Pending(c) \cup Lost(c) : p <= q
  PROVE  ToQuic!Deliver(c, p)
<1>1. wire[c] \in Seq(Payloads) /\ wire \in [Channels -> Seq(Payloads)]
  BY DEF TypeOK
<1>2. Elements(wire'[c]) = Elements(wire[c]) \cup {p}
  BY <1>1, ElementsAppend
<1>3. \A d \in Channels \ {c} : wire'[d] = wire[d]
  BY <1>1
<1>4. \A d \in Channels : Lost(d)' = Lost(d)
  BY <1>2, <1>3 DEF Lost, Pending
<1>5. Broken' = Broken /\ Ordered' = Ordered
  BY DEF Broken, Ordered, Healthy, Missed
<1>6. [d \in Channels |-> Pending(d)]'
        = [[d \in Channels |-> Pending(d)] EXCEPT ![c] = @ \ {p}]
  <2>1. \A d \in Channels :
          Pending(d)' = IF d = c THEN Pending(c) \ {p} ELSE Pending(d)
    BY DEF Pending
  <2> QED
    BY <2>1
<1>7. [d \in Channels |-> Lost(d)]' = [d \in Channels |-> Lost(d)]
  BY <1>4
<1> QED
  BY <1>5, <1>6, <1>7 DEF ToQuic!Deliver, Broken, Pending, Lost, Ordered

(* send_payload: a payload that fits is accepted, one that does not breaks *)
(* the channels.                                                           *)
LEMMA SendStep ==
  ASSUME TypeOK, IInv, PlacesInv, NEW id \in ChannelIds, SendPayload(id)
  PROVE  ToQuic!Next
<1> DEFINE n == nextPayload
<1>1. PICK c \in Channels :
      /\ Receiving(c) /\ n \in Payloads
      /\ queue' = [queue EXCEPT ![c] = Append(@, n)]
      /\ accepted' = IF n \in Oversized THEN accepted
                     ELSE [accepted EXCEPT ![c] = Append(@, n)]
      /\ nextPayload' = n + 1
      /\ \A d \in Channels : task[d] = "ended" => late'[d] = late[d]
      /\ UNCHANGED <<task, kind, buf, wire, inflight, quic>>
  <2>1. PICK c \in Channels : c = sendChannels[id]
    BY DEF SendPayload, TypeOK
  <2>2. /\ Receiving(c) /\ n \in Payloads
        /\ queue' = [queue EXCEPT ![c] = Append(@, n)]
        /\ accepted' = IF n \in Oversized THEN accepted
                       ELSE [accepted EXCEPT ![c] = Append(@, n)]
        /\ nextPayload' = n + 1
        /\ UNCHANGED <<task, kind, buf, wire, inflight, quic>>
    BY <2>1 DEF SendPayload, tasks, network, history
  <2>3. late' = late \/ late' = [late EXCEPT ![c] = @ \cup {n}]
    BY <2>1 DEF SendPayload, history
  <2>4. task[c] # "ended"
    BY <2>2 DEF Receiving, Active
  <2> QED
    BY <2>2, <2>3, <2>4 DEF TypeOK
<1>2. /\ queue[c] \in Seq(Payloads) /\ accepted[c] \in Seq(Payloads)
      /\ n \in Int /\ n \in Payloads /\ Oversized \subseteq Int
  BY <1>1, PayloadsAssumption DEF TypeOK, Payloads
<1>3. /\ Underway(c)' = Underway(c) \cup {n}
      /\ \A d \in Channels \ {c} : Underway(d)' = Underway(d)
      /\ \A d \in Channels : Missed(d)' = Missed(d)
  <2>1. Elements(queue'[c]) = Elements(queue[c]) \cup {n}
    BY <1>1, <1>2, ElementsAppend DEF TypeOK
  <2>2. \A d \in Channels \ {c} : queue'[d] = queue[d]
    BY <1>1 DEF TypeOK
  <2> QED
    BY <1>1, <2>1, <2>2 DEF Underway, Receiving, Missed
<1>4. \A d \in Channels : \A p \in Elements(accepted[d]) \cup Elements(wire[d]) :
        p \in Int /\ p < n
  <2>1. ASSUME NEW d \in Channels, NEW p \in Elements(accepted[d])
        PROVE  p \in Int /\ p < n
    <3>1. p \in Payloads
      BY LenProperties, ElementOfSeq DEF TypeOK, Elements
    <3> QED
      BY <3>1, PayloadsAssumption DEF Payloads, PlacesInv, Accounted
  <2>2. ASSUME NEW d \in Channels, NEW p \in Elements(wire[d])
        PROVE  p \in Int /\ p < n
    BY PayloadType DEF IInv, NumberedInv, Taken
  <2> QED
    BY <2>1, <2>2
<1>5. \A d \in Channels : n \notin Elements(accepted[d]) \cup Elements(wire[d])
  <2>1. ~(n < n)
    BY <1>2
  <2> QED
    BY <1>4, <2>1
<1>6. CASE n \in Oversized
  <2>1. UNCHANGED accepted /\ ~Healthy'
    BY <1>1, <1>2, <1>6 DEF Healthy
  <2>2. \A d \in Channels : Pending(d)' = Pending(d)
    BY <1>3, <1>5, <2>1 DEF Pending
  <2>3. ToQuic!Lose
    BY <1>1, <1>3, <2>1, <2>2, LoseStep DEF Ordered
  <2> QED
    BY <2>3 DEF ToQuic!Next
<1>7. CASE n \notin Oversized
  <2>1. accepted' = [accepted EXCEPT ![c] = Append(@, n)]
    BY <1>1, <1>7
  <2>2. /\ Elements(accepted'[c]) = Elements(accepted[c]) \cup {n}
        /\ \A d \in Channels \ {c} : accepted'[d] = accepted[d]
    <3>1. /\ accepted'[c] = Append(accepted[c], n)
          /\ \A d \in Channels \ {c} : accepted'[d] = accepted[d]
      BY <2>1 DEF TypeOK
    <3>2. Elements(Append(accepted[c], n)) = Elements(accepted[c]) \cup {n}
      BY <1>2, ElementsAppend
    <3> QED
      BY <3>1, <3>2
  <2>3. Healthy' <=> Healthy
    BY <1>1, <1>2, <1>7 DEF Healthy
  <2>4. Broken' = Broken /\ Ordered' = Ordered
    BY <1>1, <1>3, <2>3 DEF Broken, Ordered
  <2>5. \A d \in Channels :
          Pending(d)' = IF d = c THEN Pending(c) \cup {n} ELSE Pending(d)
    BY <1>3, <2>2 DEF Pending
  <2>6. \A d \in Channels : Lost(d)' = Lost(d)
    BY <1>1, <1>3, <1>5, <2>2 DEF Lost
  <2>7. [d \in Channels |-> Pending(d)]'
          = [[d \in Channels |-> Pending(d)] EXCEPT ![c] = @ \cup {n}]
    BY <2>5
  <2>8. [d \in Channels |-> Lost(d)]' = [d \in Channels |-> Lost(d)]
    BY <2>6
  <2>9. \A q \in Pending(c) \cup ToQuic!Delivered(c) \cup {} \cup Lost(c) : q < n
    <3>1. ToQuic!Delivered(c) = Elements(wire[c])
      BY DEF ToQuic!Delivered, Elements
    <3> QED
      BY <1>1, <1>4, <3>1 DEF Pending, Lost
  <2>10. ToQuic!Accept(c, n)
    BY <1>1, <2>4, <2>7, <2>8, <2>9
    DEF ToQuic!Accept, Broken, Pending, Lost, Ordered
  <2> QED
    BY <1>1, <2>10 DEF ToQuic!Next
<1> QED
  BY <1>6, <1>7

(* open_channel: the type of a channel that never carried anything.        *)
LEMMA OpenStep ==
  ASSUME TypeOK, IInv, PlacesInv, NEW c \in Channels, NEW k \in Kinds, OpenChannel(c, k)
  PROVE  ToQuic!Next
<1>1. /\ task[c] = "none" /\ task' = [task EXCEPT ![c] = "queued"]
      /\ kind' = [kind EXCEPT ![c] = k] /\ kind[c] = None
      /\ UNCHANGED <<queue, accepted, late, buf, wire, inflight, quic, nextPayload>>
  BY DEF OpenChannel, Fresh, PlacesInv, Typed, network, history
<1>2. /\ accepted[c] = <<>> /\ wire[c] = <<>> /\ queue[c] = <<>>
      /\ Elements(<<>>) = {}
  BY <1>1 DEF IInv, UnusedInv, Elements
<1>3. \A d \in Channels : /\ Pending(d)' = Pending(d) /\ Lost(d)' = Lost(d)
                          /\ task'[d] = "discarded" <=> task[d] = "discarded"
                          /\ Missed(d)' = Missed(d)
  BY <1>1, <1>2 DEF Pending, Lost, Underway, Missed, Receiving, Active, TypeOK
<1>4. (Healthy' <=> Healthy) /\ Broken' = Broken
  BY <1>1, <1>3 DEF Healthy, Broken
<1>5. CASE k = "OrderedReliable"
  <2>1. Ordered' = Ordered \cup {c}
    BY <1>1, <1>5 DEF Ordered, TypeOK
  <2>2. Pending(c) = {} /\ Lost(c) = {}
    BY <1>2 DEF Pending, Lost
  <2>3. /\ [d \in Channels |-> Pending(d)]' = [d \in Channels |-> Pending(d)]
        /\ [d \in Channels |-> Lost(d)]' = [d \in Channels |-> Lost(d)]
    BY <1>3
  <2>4. ToQuic!Open(c)
    BY <1>1, <1>2, <1>4, <2>1, <2>2, <2>3
    DEF ToQuic!Open, Broken, Pending, Lost, Ordered
  <2> QED
    BY <2>4 DEF ToQuic!Next
<1>6. CASE k # "OrderedReliable"
  <2>1. Ordered' = Ordered
    BY <1>1, <1>6, KindsAssumption DEF Ordered, TypeOK
  <2>2. ToQuic!Lose
    BY <1>1, <1>3, <1>4, <2>1, LoseStep
  <2> QED
    BY <2>2 DEF ToQuic!Next
<1> QED
  BY <1>5, <1>6

(* A task that hands something to QUIC delivers it; the other steps leave  *)
(* the payloads on their way, unless the channel is broken.                *)
LEMMA TaskStep ==
  ASSUME TypeOK, IInv, PlacesInv, NEW c \in Channels, TaskNext(c)
  PROVE  ToQuic!Next
<1> USE DEF inbox, tasks, network, history, Active
<1> DEFINE h == Head(queue[c])
<1>0. /\ buf[c] \in Seq(Payloads) /\ wire[c] \in Seq(Payloads)
      /\ queue[c] \in Seq(Payloads) /\ task \in [Channels -> States]
      /\ Elements(<<>>) = {} /\ \A p : Elements(<<p>>) = {p}
      /\ Once(c) /\ Accounted(c) /\ Typed(c)
  BY DEF TypeOK, Elements, PlacesInv
<1>1. /\ UNCHANGED <<kind, quic, accepted, late, nextPayload>> /\ Live(c)
      /\ \A d \in Channels \ {c} : /\ task'[d] = task[d]
                                   /\ Underway(d)' = Underway(d)
      /\ \A d \in Channels : task'[d] = "discarded" <=> task[d] = "discarded"
  BY TaskLocal, ReceivingStays DEF app, Underway, Receiving
<1>15. \A d \in Channels : Missed(d) # {} => Missed(d)' # {}
  BY <1>1, TaskDrains, ReceivingStays DEF Missed, Receiving
<1>2. /\ quic # "open" => ~Healthy
      /\ taskSignal[c] = "PeerClosed" => ~Healthy
  BY <1>1 DEF IInv, LifecycleInv, NotReportedInv, Healthy
<1>3. \A p \in Taken(c) \cup Elements(queue[c]) : p \in Oversized => ~Healthy
  BY PayloadType DEF IInv, NumberedInv, Healthy, TypeOK
<1>4. ASSUME UNCHANGED wire, Pending(c)' \subseteq Pending(c),
             Healthy /\ Missed(c)' = {} => Pending(c)' = Pending(c)
      PROVE  ToQuic!Next
  <2>1. \A d \in Channels :
          /\ Pending(d)' \subseteq Pending(d)
          /\ Healthy /\ Missed(d)' = {} => Pending(d)' = Pending(d)
    BY <1>1, <1>4 DEF Pending
  <2>2. Healthy' <=> Healthy
    BY <1>1 DEF Healthy
  <2>3. ToQuic!Lose
    BY <1>1, <1>4, <1>15, <2>1, <2>2, LoseStep DEF Ordered
  <2> QED
    BY <2>3 DEF ToQuic!Next
<1>5. ASSUME NEW p \in Payloads, p \notin Oversized, UNCHANGED task,
             p \in Underway(c), p \in Taken(c) \cup Elements(queue[c]),
             wire' = [wire EXCEPT ![c] = Append(@, p)],
             Underway(c)' = Underway(c) \ {p},
             kind[c] = "OrderedReliable" => \A q \in Pending(c) \cup Lost(c) : p <= q
      PROVE  ToQuic!Next
  <2>1. p \in Pending(c)
    BY <1>0, <1>5 DEF Pending, Accounted
  <2>2. ToQuic!Deliver(c, p)
    BY <1>1, <1>5, <2>1, DeliverStep
  <2> QED
    BY <1>5, <2>2 DEF ToQuic!Next
<1>6. ASSUME TakesHead(c)
      PROVE  /\ Elements(queue[c]) = {h} \cup Elements(queue'[c])
             /\ h \in Payloads /\ h \notin Elements(queue'[c])
             /\ Receiving(c)
  <2>1. queue'[c] = Tail(queue[c]) /\ queue[c] # <<>> /\ Receiving(c)
    BY <1>6 DEF TakesHead, TypeOK, Receiving
  <2>2. queue[c] \in Seq(Int)
    BY <1>0, SeqMonotonic, PayloadsAssumption DEF Payloads
  <2>3. \A e \in Elements(queue'[c]) : h < e
    BY <1>0, <2>1, <2>2, IncreasingTail DEF Once
  <2>4. h \in Payloads /\ ~(h < h)
    BY <1>0, <2>1, HeadTailProperties, PayloadsAssumption DEF Payloads
  <2> QED
    BY <1>0, <2>1, <2>3, <2>4, ElementsTail
<1> HIDE DEF h
<1>7. CASE TaskOpens(c)
  <2>1. /\ UNCHANGED <<wire, queue, buf, inflight, accepted>>
        /\ Receiving(c) /\ (quic = "open" => Receiving(c)')
    BY <1>0, <1>7 DEF TaskOpens, Receiving
  <2>2. Underway(c)' \subseteq Underway(c) /\ (Healthy => Underway(c)' = Underway(c))
    BY <1>2, <2>1 DEF Underway
  <2> QED
    BY <1>4, <2>1, <2>2 DEF Pending
<1>8. CASE OrderedTakes(c)
  <2>1. /\ TakesHead(c) /\ buf[c] = <<>> /\ UNCHANGED <<wire, inflight, accepted>>
        /\ h \notin Oversized => buf'[c] = <<h>> /\ UNCHANGED task
        /\ h \in Oversized => UNCHANGED buf
    BY <1>8 DEF OrderedTakes, TypeOK, h
  <2>2. CASE h \notin Oversized
    <3>1. Elements(buf'[c]) = {h} /\ Elements(buf[c]) = {}
      BY <1>0, <2>1, <2>2
    <3>2. Underway(c)' = Underway(c)
      BY <1>6, <2>1, <2>2, <3>1 DEF Underway, Receiving
    <3> QED
      BY <1>4, <2>1, <3>2 DEF Pending
  <2>3. CASE h \in Oversized
    <3>1. ~Healthy
      BY <1>3, <1>6, <2>1, <2>3
    <3>2. Underway(c)' \subseteq Underway(c)
      BY <1>6, <2>1, <2>3 DEF Underway
    <3> QED
      BY <1>4, <2>1, <3>1, <3>2 DEF Pending
  <2> QED
    BY <2>2, <2>3
<1>9. CASE OrderedWrites(c)
  <2>1. /\ buf' = [buf EXCEPT ![c] = <<>>] /\ buf[c] # <<>> /\ Receiving(c)
        /\ UNCHANGED <<queue, inflight, accepted>>
        /\ kind[c] = "OrderedReliable" /\ inflight[c] = {}
    BY <1>0, <1>9 DEF OrderedWrites, Receiving, Typed
  <2>2. Elements(buf'[c]) = {}
    BY <1>0, <2>1 DEF TypeOK
  <2>3. CASE quic = "open"
    <3>1. Orderly(c)
      BY <2>1 DEF IInv, OrderInv
    <3>2. PICK b \in Payloads : buf[c] = <<b>>
      <4>1. buf[c] # <<>> /\ Len(buf[c]) <= 1
        BY <2>1, <3>1 DEF Orderly
      <4> QED
        BY <1>0, <4>1, AtMostOne
    <3>3. wire' = [wire EXCEPT ![c] = Append(@, b)] /\ UNCHANGED task
      <4>1. wire' = [wire EXCEPT ![c] = @ \o buf[c]] /\ UNCHANGED task
        BY <1>9, <2>3 DEF OrderedWrites
      <4>2. wire[c] \o buf[c] = Append(wire[c], b)
        BY <1>0, <3>2, AppendIsConcat
      <4> QED
        BY <4>1, <4>2
    <3>4. Elements(buf[c]) = {b}
      BY <1>0, <3>2
    <3>5. b \in Int /\ \A q \in Elements(queue[c]) : b < q /\ q \in Int
      BY <3>1, <3>4, PayloadType DEF Orderly, Taken
    <3>6. Underway(c) = {b} \cup Elements(queue[c]) /\ b \notin Elements(queue[c])
      BY <2>1, <3>4, <3>5 DEF Underway
    <3>7. Underway(c)' = Elements(queue[c])
      BY <2>1, <2>2, <3>3 DEF Underway, Receiving
    <3>8. Lost(c) = {}
      BY <2>1, <2>3, <3>1, <3>4, <3>6 DEF Orderly, Lost
    <3>9. \A q \in Pending(c) \cup Lost(c) : b <= q
      BY <3>5, <3>6, <3>8 DEF Pending
    <3>10. b \notin Oversized
      BY <1>0, <3>4 DEF Typed
    <3> QED
      BY <1>5, <3>3, <3>4, <3>6, <3>7, <3>9, <3>10 DEF Taken
  <2>4. CASE quic # "open"
    <3>1. UNCHANGED wire /\ Underway(c)' \subseteq Underway(c)
      BY <1>9, <2>1, <2>2, <2>4 DEF OrderedWrites, Underway
    <3> QED
      BY <1>2, <1>4, <2>1, <2>4, <3>1 DEF Pending
  <2> QED
    BY <2>3, <2>4
<1>10. CASE UnorderedTakes(c)
  <2> DEFINE m == [payload |-> h, reports |-> task[c] = "running", opened |-> FALSE]
  <2>1. /\ TakesHead(c) /\ UNCHANGED <<wire, buf, task, accepted>>
        /\ inflight'[c] = inflight[c] \cup {m} /\ m.payload = h
    BY <1>10 DEF UnorderedTakes, TypeOK, h
  <2> HIDE DEF m
  <2>2. {n.payload : n \in inflight'[c]} = {n.payload : n \in inflight[c]} \cup {h}
    BY <2>1
  <2>3. Underway(c)' = Underway(c)
    BY <1>6, <2>1, <2>2 DEF Underway, Receiving
  <2> QED
    BY <1>4, <2>1, <2>3 DEF Pending
<1>11. ASSUME NEW m \in inflight[c], MessageSent(c, m) PROVE ToQuic!Next
  <2> DEFINE p == m.payload
  <2>1. /\ inflight'[c] = inflight[c] \ {m} /\ p \in Payloads
        /\ UNCHANGED <<buf, queue, task, accepted>>
        /\ kind[c] = "UnorderedReliable"
    BY <1>0, <1>11 DEF MessageSent, Messages, TypeOK, Typed
  <2>2. /\ p \in InFlight(c) /\ InFlight(c)' = InFlight(c) \ {p}
    BY <1>0, <2>1 DEF Once, InFlight
  <2>3. p \notin Elements(buf[c]) /\ p \notin Elements(queue[c])
    <3>1. p \in Taken(c) /\ ~(p < p)
      BY <2>1, <2>2, PayloadsAssumption DEF Taken, InFlight, Payloads
    <3> QED
      BY <1>0, <2>1, <3>1 DEF Once, Typed
  <2>4. /\ Underway(c)' = Underway(c) \ {p}
        /\ p \in Underway(c) /\ p \in Taken(c)
    BY <2>1, <2>2, <2>3 DEF Underway, Taken, InFlight, Receiving
  <2>5. CASE quic = "open" /\ p \notin Oversized
    <3>1. wire' = [wire EXCEPT ![c] = Append(@, p)]
      BY <1>11, <2>5 DEF MessageSent
    <3> QED
      BY <1>5, <2>1, <2>4, <2>5, <3>1
  <2>6. CASE ~(quic = "open" /\ p \notin Oversized)
    <3>1. UNCHANGED wire /\ ~Healthy
      BY <1>2, <1>3, <1>11, <2>4, <2>6 DEF MessageSent
    <3> QED
      BY <1>4, <2>1, <2>4, <3>1 DEF Pending
  <2> QED
    BY <2>5, <2>6
<1>12. CASE UnreliableTakes(c)
  <2>1. /\ TakesHead(c) /\ UNCHANGED <<buf, inflight, accepted>>
        /\ kind[c] = "Unreliable" /\ buf[c] = <<>> /\ inflight[c] = {}
    BY <1>0, <1>12 DEF UnreliableTakes, Typed
  <2>2. Underway(c) = Elements(queue[c])
    BY <1>0, <1>6, <2>1 DEF Underway
  <2>3. Underway(c)' \subseteq Underway(c) \ {h}
        /\ (Receiving(c)' => Underway(c)' = Underway(c) \ {h})
    BY <1>0, <1>6, <2>1, <2>2 DEF Underway
  <2>4. CASE quic = "open" /\ h \notin Oversized
    <3>1. wire' = [wire EXCEPT ![c] = Append(@, h)] /\ UNCHANGED task
      BY <1>12, <2>4 DEF UnreliableTakes, h
    <3>2. Receiving(c)'
      BY <1>6, <2>1, <3>1 DEF Receiving
    <3> QED
      BY <1>5, <1>6, <2>1, <2>2, <2>3, <2>4, <3>1, <3>2
  <2>5. CASE ~(quic = "open" /\ h \notin Oversized)
    <3>1. UNCHANGED wire /\ ~Healthy
      BY <1>2, <1>3, <1>6, <1>12, <2>1, <2>5 DEF UnreliableTakes, h
    <3> QED
      BY <1>4, <2>1, <2>3, <3>1 DEF Pending
  <2> QED
    BY <2>4, <2>5
<1>13. CASE TaskStops(c)
  <2>1. /\ UNCHANGED <<wire, queue, buf, inflight, accepted>>
        /\ Receiving(c)
        /\ taskSignal[c] = "PeerClosed" \/ Receiving(c)'
    BY <1>0, <1>13 DEF TaskStops, AfterStop, StopReasons, Receiving
  <2>2. Underway(c)' \subseteq Underway(c) /\ (Healthy => Underway(c)' = Underway(c))
    BY <1>2, <2>1 DEF Underway
  <2> QED
    BY <1>4, <2>1, <2>2 DEF Pending
<1>14. CASE TaskDrained(c)
  <2>1. /\ UNCHANGED <<wire, queue, buf, inflight, accepted>>
        /\ Receiving(c) /\ Receiving(c)'
    BY <1>0, <1>14 DEF TaskDrained, Receiving
  <2>2. Underway(c)' = Underway(c)
    BY <2>1 DEF Underway
  <2> QED
    BY <1>4, <2>1, <2>2 DEF Pending
<1>16. CASE TaskEnds(c)
  <2>1. /\ UNCHANGED <<wire, queue, buf, inflight, accepted>>
        /\ task[c] = "finishing" /\ task'[c] = "ended"
        /\ Receiving(c) /\ ~Receiving(c)'
    BY <1>0, <1>16 DEF TaskEnds, Receiving
  <2>2. Missed(c)' = Elements(queue[c]) \ Oversized
    BY <1>1, <2>1 DEF Missed, IInv, LateInv
  <2>3. Underway(c)' \subseteq Underway(c)
    BY <2>1 DEF Underway
  <2>4. Missed(c)' = {} => Pending(c)' = Pending(c)
    <3>1. Missed(c)' = {} => Elements(queue[c]) \cap Elements(accepted[c]) = {}
      BY <1>0, <2>2 DEF Accounted
    <3> QED
      BY <2>1, <3>1 DEF Pending, Underway
  <2> QED
    BY <1>4, <2>1, <2>3, <2>4 DEF Pending
<1>17. ASSUME NEW m \in inflight[c], MessageOpens(c, m) PROVE ToQuic!Next
  <2> DEFINE n == [m EXCEPT !.opened = TRUE]
  <2>1. /\ inflight'[c] = (inflight[c] \ {m}) \cup (IF quic = "open" THEN {n} ELSE {})
        /\ m \in Messages /\ n.payload = m.payload
        /\ UNCHANGED <<buf, queue, task, wire, accepted>>
    BY <1>17 DEF MessageOpens, Messages, TypeOK
  <2> HIDE DEF n
  <2>2. InFlight(c)' \subseteq InFlight(c) /\ (quic = "open" => InFlight(c)' = InFlight(c))
    BY <2>1 DEF InFlight
  <2>3. Underway(c)' \subseteq Underway(c) /\ (Healthy => Underway(c)' = Underway(c))
    BY <1>2, <2>1, <2>2 DEF Underway, InFlight, Receiving
  <2> QED
    BY <1>4, <2>1, <2>3 DEF Pending
<1> QED
  BY <1>7, <1>8, <1>9, <1>10, <1>11, <1>12, <1>13, <1>14, <1>16, <1>17 DEF TaskNext

(* Every step of the sending half is a step of the transfer.               *)
LEMMA TransferStep ==
  IInv /\ PlacesInv /\ [Next]_vars => [ToQuic!Next]_(ToQuic!vars)
<1> SUFFICES ASSUME IInv, PlacesInv, [Next]_vars PROVE ToQuic!Next
  OBVIOUS
<1>0. TypeOK
  BY DEF IInv
<1>1. CASE \/ OpenChannelFails \/ (\E id \in ChannelIds : CloseChannel(id))
           \/ Disconnect \/ HandleLostConnection \/ HandleConnectionClosed
           \/ HandleConnected \/ HandleConnectionFailed \/ DropConnection
           \/ PeerNext \/ UNCHANGED vars
  <2>1. /\ UNCHANGED <<task, kind, queue, accepted, late, buf, wire, inflight,
                       nextPayload>>
        /\ quic' = quic \/ quic' = "lost"
    BY <1>1, PeerLocal
    DEF OpenChannelFails, CloseChannel, Disconnect, BroadcastClose,
        StaysDisconnected, HandleLostConnection, HandleConnectionClosed,
        HandleConnected, HandleConnectionFailed, Announced, DropConnection, vars,
        app, tasks, network, history
  <2>2. /\ \A c \in Channels : Pending(c)' = Pending(c)
        /\ Healthy' => Healthy
        /\ Ordered' = Ordered
        /\ \A c \in Channels : Missed(c)' = Missed(c)
    BY <2>1 DEF Pending, Underway, Missed, Receiving, Healthy, Ordered
  <2>3. ToQuic!Lose
    BY <1>0, <2>1, <2>2, LoseStep
  <2> QED
    BY <2>3 DEF ToQuic!Next
<1>2. CASE SpawnerNext
  <2>1. /\ UNCHANGED <<kind, queue, accepted, late, buf, wire, inflight, nextPayload>>
        /\ quic' \in {quic, "failed", "closed"}
        /\ quic' = "closed" => quic \in {"open", "closed"}
    BY <1>2 DEF SpawnerNext, SpawnerStarts, ConnectFails, SpawnerCreates,
         SpawnerStops, SpawnerCloses, tasks, network, history, app
  <2>2. ASSUME NEW c \in Channels
        PROVE  /\ task[c] = "discarded" => task'[c] = "discarded"
               /\ Receiving(c)' => Receiving(c)
               /\ task[c] = "ended" => task'[c] = "ended"
               /\ task'[c] # "discarded" => (Receiving(c)' <=> Receiving(c))
    <3>1. CASE SpawnerCreates
      <4> DEFINE d == Head(toChannels)
      <4>1. toChannels # <<>> /\ toChannels \in Seq(Channels)
        BY <1>0, <3>1 DEF SpawnerCreates, TypeOK
      <4>2. task[d] = "queued" /\ d \in Channels
        BY <4>1, TailIndex DEF IInv, CreateQueueInv
      <4>3. \E t \in {"opening", "running"} : task' = [task EXCEPT ![d] = t]
        BY <3>1 DEF SpawnerCreates
      <4> HIDE DEF d
      <4> QED
        BY <1>0, <4>2, <4>3 DEF Receiving, Active, TypeOK
    <3>2. CASE SpawnerStarts \/ SpawnerStops
      BY <3>2 DEF SpawnerStarts, SpawnerStops, Receiving, tasks
    <3>3. CASE ConnectFails \/ SpawnerCloses
      <4>1. task' = Discarded
        BY <3>3 DEF ConnectFails, SpawnerCloses
      <4> QED
        BY <4>1 DEF Discarded, Receiving, Active
    <3> QED
      BY <1>2, <3>1, <3>2, <3>3 DEF SpawnerNext
  <2>3. \A c \in Channels :
          /\ Pending(c)' \subseteq Pending(c)
          /\ task'[c] # "discarded" => Pending(c)' = Pending(c)
    BY <2>1, <2>2 DEF Pending, Underway
  <2>4. /\ (Healthy' => Healthy) /\ Ordered' = Ordered
        /\ \A c \in Channels : Missed(c) # {} => Missed(c)' # {}
    BY <2>1, <2>2 DEF Healthy, Ordered, Missed
  <2>5. ToQuic!Lose
    BY <1>0, <2>1, <2>2, <2>3, <2>4, LoseStep
  <2> QED
    BY <2>5 DEF ToQuic!Next
<1> QED
  BY <1>0, <1>1, <1>2, OpenStep, SendStep, TaskStep DEF Next, ApplicationNext

(* The sending half of a connection transfers payloads to QUIC: each is    *)
(* handed over once, on an ordered channel after all the earlier ones, or  *)
(* lost for good on a channel that broke; whatever cancels the tasks,      *)
(* closes channels, drops the connection or ends it.                       *)
THEOREM ImplementsTransfer == Spec => Transfers
<1>1. Init => ToQuic!Init
  <2> SUFFICES ASSUME Init PROVE ToQuic!Init
    OBVIOUS
  <2>1. Healthy
    <3>1. \A p \in Oversized : p >= 1
      BY PayloadsAssumption DEF Payloads
    <3> QED
      BY <3>1 DEF Init, Healthy
  <2>2. Broken = {}
    BY <2>1 DEF Broken, Missed, Init
  <2>3. \A c \in Channels : Pending(c) = {} /\ Lost(c) = {}
    BY DEF Init, Pending, Lost, Elements
  <2>4. /\ [c \in Channels |-> Pending(c)] = [c \in Channels |-> {}]
        /\ [c \in Channels |-> Lost(c)] = [c \in Channels |-> {}]
    BY <2>3
  <2>5. wire = [c \in Channels |-> <<>>]
    BY DEF Init
  <2> QED
    BY <2>2, <2>4, <2>5 DEF ToQuic!Init, Broken, Pending, Lost
<1>2. IInv /\ PlacesInv /\ [Next]_vars => PlacesInv'
  BY PlacesStep
<1>3. Spec => []PlacesInv
  BY <1>2, PlacesInit, Inductive, PTL DEF Spec
<1> QED
  BY <1>1, <1>3, TransferStep, Inductive, PTL DEF Spec, Transfers, ToQuic!Spec

=============================================================================
