----------------------- MODULE ClientConnectionProofs -----------------------
(***************************************************************************)
(* What ClientConnection keeps true for any number of attempts and both    *)
(* builds: what the application handles and reports is of its latest       *)
(* attempt, whatever the tasks of the earlier ones still do.               *)
(***************************************************************************)
EXTENDS ClientConnection, DataFacts

(* The queues and the payloads are those of the latest attempt. *)
CurrentInv ==
  /\ listens = attempt /\ owns = attempt
  /\ ConnectedIsCurrent
  /\ NoStalePayload

(* An attempt to come has no tasks, one that connects has no watcher yet. *)
UntouchedInv ==
  \A a \in Attempts :
    /\ a > attempt => phase[a] = "none" /\ watcher[a] = "none"
    /\ phase[a] \in {"none", "connecting"} => watcher[a] = "none"

(* How many messages the tasks of an attempt have sent at most: one each.  *)
Told(a) ==
  (IF phase[a] = "done" THEN 1 ELSE 0) + (IF watcher[a] = "done" THEN 1 ELSE 0)

ClientMessages == {"Connected", "ConnectionFailed", "ConnectionClosed"}

Events == {"Connection", "Failed", "Lost", "Disconnect"}

(* Where a queue holds a message that tells the result of an attempt. *)
Results(queue) ==
  {i \in DOMAIN queue : queue[i] \in {"Connected", "ConnectionFailed"}}

(* Every task tells at most once, the result being told at the end. *)
MailboxInv ==
  \A a \in Attempts :
    /\ Len(mailbox[a]) <= Told(a)
    /\ Results(mailbox[a]) # {} => phase[a] = "done"
    /\ \A i, j \in Results(mailbox[a]) : i = j

Resulted == Raised("Connection") \cup Raised("Failed")

(* A result that was raised was told and is not in the queue any more.     *)
(* What is over has the connection Disconnected, and only another          *)
(* Connection changes that.                                                *)
EventsInv ==
  /\ EventsMakeSense
  /\ Resulted # {} => phase[attempt] = "done" /\ Results(mailbox[attempt]) = {}
  /\ state # "Disconnected" =>
       \A i \in Over : \E k \in Raised("Connection") : i < k

(* The inductive invariant. *)
IInv == TypeOK /\ CurrentInv /\ UntouchedInv /\ MailboxInv /\ EventsInv

-----------------------------------------------------------------------------

(* A queue that loses its head, or gets one more message. *)
LEMMA ResultsTail ==
  ASSUME NEW s \in Seq(ClientMessages), s # <<>>
  PROVE  /\ Tail(s) \in Seq(ClientMessages)
         /\ Len(s) \in Nat \ {0}
         /\ Len(Tail(s)) = Len(s) - 1
         /\ Head(s) \in ClientMessages
         /\ Head(s) \in {"Connected", "ConnectionFailed"} => 1 \in Results(s)
         /\ \A i \in Results(Tail(s)) : i \in Nat \ {0} /\ i + 1 \in Results(s)
<1> DEFINE t == Tail(s)
<1>1. /\ t \in Seq(ClientMessages)
      /\ Len(s) \in Nat \ {0} /\ Len(t) = Len(s) - 1
      /\ Head(s) = s[1] /\ Head(s) \in ClientMessages
      /\ DOMAIN s = 1..Len(s) /\ DOMAIN t = 1..(Len(s) - 1)
      /\ \A i \in 1..(Len(s) - 1) : t[i] = s[i + 1]
  BY TailIndex, HeadTailProperties, EmptySeq
<1> HIDE DEF t
<1>2. \A i \in 1..(Len(s) - 1) : i + 1 \in 1..Len(s)
  BY <1>1
<1>3. \A i \in Results(t) : i \in Nat \ {0} /\ i + 1 \in Results(s)
  BY <1>1, <1>2 DEF Results
<1> QED
  BY <1>1, <1>3 DEF Results, t

LEMMA ResultsAppend ==
  ASSUME NEW s \in Seq(ClientMessages), NEW m \in ClientMessages
  PROVE  /\ Append(s, m) \in Seq(ClientMessages)
         /\ Len(Append(s, m)) = Len(s) + 1
         /\ Results(s) \subseteq 1..Len(s)
         /\ m = "ConnectionClosed" => Results(Append(s, m)) = Results(s)
         /\ m # "ConnectionClosed" =>
              Results(Append(s, m)) = Results(s) \cup {Len(s) + 1}
<1> DEFINE t == Append(s, m)
<1>1. /\ t \in Seq(ClientMessages)
      /\ Len(s) \in Nat /\ Len(t) = Len(s) + 1
      /\ DOMAIN s = 1..Len(s) /\ DOMAIN t = 1..(Len(s) + 1)
      /\ \A i \in 1..Len(s) : t[i] = s[i]
      /\ t[Len(s) + 1] = m
  BY AppendIndex, AppendProperties
<1> HIDE DEF t
<1>2. \A i : i \in Results(t) <=>
                i \in Results(s) \/ (i = Len(s) + 1 /\ m # "ConnectionClosed")
  BY <1>1 DEF Results, ClientMessages
<1> QED
  BY <1>1, <1>2 DEF Results, t

(* An event that is raised comes after those raised before. *)
LEMMA RaiseIndex ==
  ASSUME raised \in Seq(Events), NEW event \in Events, Raise(event)
  PROVE  /\ raised' \in Seq(Events)
         /\ Len(raised) \in Nat
         /\ \A e \in Events : Raised(e) \subseteq 1..Len(raised)
         /\ \A e \in Events :
              Raised(e)' = Raised(e) \cup IF e = event THEN {Len(raised) + 1} ELSE {}
<1>1. /\ raised' \in Seq(Events)
      /\ Len(raised) \in Nat
      /\ DOMAIN raised = 1..Len(raised)
      /\ DOMAIN raised' = 1..(Len(raised) + 1)
      /\ \A i \in 1..Len(raised) : raised'[i] = raised[i]
      /\ raised'[Len(raised) + 1] = event
  BY AppendIndex DEF Raise
<1>2. ASSUME NEW e \in Events, NEW i
      PROVE  i \in Raised(e)' <=>
               i \in Raised(e) \/ (e = event /\ i = Len(raised) + 1)
  BY <1>1 DEF Raised
<1> QED
  BY <1>1, <1>2 DEF Raised

-----------------------------------------------------------------------------

LEMMA IInvInit == Init => IInv
<1> SUFFICES ASSUME Init PROVE IInv
  OBVIOUS
<1>1. TypeOK
  <2>1. 1 \in Attempts
    BY AttemptsAssumption DEF Attempts
  <2>2. \A a \in Attempts : Len(mailbox[a]) <= 2
    BY DEF Init
  <2>3. sharedClientId \in BOOLEAN
    BY BuildsAssumption DEF Init
  <2>4. phase \in [Attempts -> Phases]
    BY DEF Init, Phases
  <2>5. /\ closeSent \in [Attempts -> BOOLEAN] /\ subscribed \in [Attempts -> BOOLEAN]
    BY DEF Init
  <2>7. raised \in Seq({"Connection", "Failed", "Lost", "Disconnect"})
    BY DEF Init
  <2>6. mailbox \in [Attempts -> Seq({"Connected", "ConnectionFailed", "ConnectionClosed"})]
    BY DEF Init
  <2> QED
    BY <2>1, <2>2, <2>3, <2>4, <2>5, <2>6, <2>7 DEF Init, TypeOK
<1>2. CurrentInv /\ UntouchedInv
  BY DEF Init, CurrentInv, ConnectedIsCurrent, NoStalePayload, UntouchedInv, Attempts
<1>3. MailboxInv
  BY DEF Init, MailboxInv, Told, Results
<1>4. EventsInv
  BY DEF Init, EventsInv, EventsMakeSense, Resulted, Over, Raised
<1> QED
  BY <1>1, <1>2, <1>3, <1>4 DEF IInv

(* Only the application's own steps change what it knows. *)
LEMMA AttemptLocal ==
  ASSUME NEW a \in Attempts, AttemptNext(a)
  PROVE  UNCHANGED <<sharedClientId, client, closeSent>>
BY DEF AttemptNext, Connects, Identifies, ConnectSucceeds, ConnectFails,
       ConfigurationPanics, ReceiveClientId, ClientIdFails, ClientIdInterrupted,
       Signal, Watch, TasksClose, PeerCloses

LEMMA CurrentStep == TypeOK /\ CurrentInv /\ [Next]_vars => CurrentInv'
<1> SUFFICES ASSUME TypeOK, CurrentInv, [Next]_vars
             PROVE  CurrentInv'
  OBVIOUS
<1> USE DEF CurrentInv, ConnectedIsCurrent, NoStalePayload
<1>1. CASE HandleMessage
  BY <1>1 DEF HandleMessage, Loses, InternalDisconnect, TypeOK
<1>2. CASE HandleLostConnection \/ Disconnect \/ CloseConnection
  BY <1>2 DEF HandleLostConnection, Disconnect, CloseConnection, Loses,
              InternalDisconnect
<1>3. CASE Reconnect
  BY <1>3 DEF Reconnect, ListensTo, Reset
<1>4. CASE DispatchReceivedPayloads \/ EmptyBuffers
  BY <1>4 DEF DispatchReceivedPayloads, EmptyBuffers
<1>5. ASSUME NEW a \in Attempts, AttemptNext(a) PROVE CurrentInv'
  BY <1>5, AttemptLocal DEF client
<1>6. CASE UNCHANGED vars
  BY <1>6 DEF vars, client
<1> QED
  BY <1>1, <1>2, <1>3, <1>4, <1>5, <1>6 DEF Next, ApplicationNext

(* A result is told in a task's last step and by no other. *)
LEMMA UntouchedStep == TypeOK /\ UntouchedInv /\ [Next]_vars => UntouchedInv'
<1> SUFFICES ASSUME TypeOK, UntouchedInv, [Next]_vars
             PROVE  UntouchedInv'
  OBVIOUS
<1>1. CASE Reconnect
  BY <1>1 DEF Reconnect, UntouchedInv, TypeOK, Attempts
<1>2. CASE \/ HandleMessage \/ HandleLostConnection \/ Disconnect \/ CloseConnection
           \/ DispatchReceivedPayloads \/ EmptyBuffers \/ UNCHANGED vars
  BY <1>2 DEF HandleMessage, HandleLostConnection, Disconnect, CloseConnection,
              DispatchReceivedPayloads, EmptyBuffers, vars, client, async, UntouchedInv
<1>3. ASSUME NEW a \in Attempts, AttemptNext(a) PROVE UntouchedInv'
  <2>1. attempt' = attempt
    BY <1>3, AttemptLocal DEF client
  <2>2. \A b \in Attempts \ {a} : phase'[b] = phase[b] /\ watcher'[b] = watcher[b]
    BY <1>3 DEF AttemptNext, Connects, Identifies, ConnectSucceeds, ConnectFails,
                ConfigurationPanics, ReceiveClientId, ClientIdFails,
                ClientIdInterrupted, Signal, Watch, TasksClose, PeerCloses, Becomes,
                TypeOK
  <2>3. /\ phase'[a] \in {"none", "connecting"} => watcher'[a] = "none"
        /\ a > attempt => phase'[a] = "none" /\ watcher'[a] = "none"
    BY <1>3 DEF AttemptNext, Connects, Identifies, ConnectSucceeds, ConnectFails,
                ConfigurationPanics, ReceiveClientId, ClientIdFails,
                ClientIdInterrupted, Signal, Watch, TasksClose, PeerCloses, Becomes,
                TypeOK, UntouchedInv
  <2> QED
    BY <2>1, <2>2, <2>3 DEF UntouchedInv
<1> QED
  BY <1>1, <1>2, <1>3 DEF Next, ApplicationNext

-----------------------------------------------------------------------------

(* What MailboxInv says of one queue of messages, sent by tasks that told  *)
(* so many of them, the result being among them or not.                    *)
Modest(queue, told, resulted) ==
  /\ Len(queue) <= told
  /\ Results(queue) # {} => resulted
  /\ \A i, j \in Results(queue) : i = j

LEMMA ModestFacts ==
  ASSUME NEW s \in Seq(ClientMessages), NEW told \in Nat, NEW resulted \in BOOLEAN,
         Modest(s, told, resulted)
  PROVE  /\ Modest(<<>>, told, resulted)
         /\ s # <<>> => /\ Modest(Tail(s), told, resulted)
                        /\ Head(s) # "ConnectionClosed" => Results(Tail(s)) = {}
         /\ Modest(Append(s, "ConnectionClosed"), told + 1, resulted)
         /\ Modest(s, told + 1, resulted)
         /\ ~resulted => \A m \in ClientMessages : Modest(Append(s, m), told + 1, TRUE)
         /\ ~resulted => Modest(s, told + 1, TRUE)
<1>1. Len(s) \in Nat /\ Len(s) <= told
  BY LenProperties DEF Modest
<1>2. Modest(<<>>, told, resulted)
  BY DEF Modest, Results
<1>3. ASSUME s # <<>>
      PROVE  /\ Modest(Tail(s), told, resulted)
             /\ Head(s) # "ConnectionClosed" => Results(Tail(s)) = {}
  <2> DEFINE t == Tail(s)
  <2>1. /\ Len(t) <= told
        /\ Head(s) # "ConnectionClosed" => 1 \in Results(s)
        /\ \A i \in Results(t) : i \in Nat \ {0} /\ i + 1 \in Results(s)
    BY <1>1, <1>3, ResultsTail DEF ClientMessages
  <2> HIDE DEF t
  <2>2. \A i, j \in Results(t) : i = j
    <3> SUFFICES ASSUME NEW i \in Results(t), NEW j \in Results(t) PROVE i = j
      OBVIOUS
    <3>1. i \in Nat /\ j \in Nat /\ i + 1 = j + 1
      BY <2>1 DEF Modest
    <3> QED
      BY <3>1
  <2>3. Results(t) # {} => resulted
    BY <2>1 DEF Modest
  <2>4. Head(s) # "ConnectionClosed" => Results(t) = {}
    <3> SUFFICES ASSUME Head(s) # "ConnectionClosed", NEW i \in Results(t) PROVE FALSE
      OBVIOUS
    <3>1. i \in Nat \ {0} /\ i + 1 = 1
      BY <2>1 DEF Modest
    <3> QED
      BY <3>1
  <2> QED
    BY <2>1, <2>2, <2>3, <2>4 DEF Modest, t
<1>4. Modest(Append(s, "ConnectionClosed"), told + 1, resulted)
  <2>1. /\ Len(Append(s, "ConnectionClosed")) = Len(s) + 1
        /\ Results(Append(s, "ConnectionClosed")) = Results(s)
    BY ResultsAppend DEF ClientMessages
  <2> QED
    BY <1>1, <2>1 DEF Modest
<1>5. ASSUME ~resulted, NEW m \in ClientMessages PROVE Modest(Append(s, m), told + 1, TRUE)
  <2>1. /\ Len(Append(s, m)) = Len(s) + 1
        /\ \/ Results(Append(s, m)) = Results(s)
           \/ Results(Append(s, m)) = Results(s) \cup {Len(s) + 1}
    BY ResultsAppend DEF ClientMessages
  <2>2. Results(s) = {}
    BY <1>5 DEF Modest
  <2> QED
    BY <1>1, <2>1, <2>2 DEF Modest
<1> QED
  BY <1>1, <1>2, <1>3, <1>4, <1>5 DEF Modest

LEMMA MailboxStep ==
  IInv /\ [Next]_vars =>
    MailboxInv' /\ mailbox' \in [Attempts -> Seq(ClientMessages)]
<1> SUFFICES ASSUME IInv, [Next]_vars
             PROVE  MailboxInv' /\ mailbox' \in [Attempts -> Seq(ClientMessages)]
  OBVIOUS
<1> USE DEF IInv
<1>0. /\ mailbox \in [Attempts -> Seq(ClientMessages)]
      /\ listens \in Attempts /\ attempt \in Attempts
      /\ \A b \in Attempts : Told(b) \in Nat
      /\ \A b \in Attempts : Modest(mailbox[b], Told(b), phase[b] = "done")
  BY DEF TypeOK, ClientMessages, MailboxInv, Modest, Told
<1>a. ASSUME mailbox' \in [Attempts -> Seq(ClientMessages)],
             \A b \in Attempts : Modest(mailbox'[b], Told(b)', phase'[b] = "done")
      PROVE  MailboxInv' /\ mailbox' \in [Attempts -> Seq(ClientMessages)]
  BY <1>a DEF MailboxInv, Modest
<1>1. CASE ApplicationNext \/ UNCHANGED vars
  <2>1. ASSUME NEW b \in Attempts
        PROVE  Told(b)' = Told(b) /\ (phase'[b] = "done" <=> phase[b] = "done")
    <3>1. CASE Reconnect
      <4>1. phase[attempt + 1] = "none" /\ attempt + 1 \in Attempts
        BY <3>1 DEF Reconnect, UntouchedInv, TypeOK, Attempts
      <4> QED
        BY <3>1, <4>1 DEF Reconnect, Told, TypeOK
    <3>2. CASE UNCHANGED <<phase, watcher>>
      BY <3>2 DEF Told
    <3> QED
      BY <1>1, <3>1, <3>2
      DEF ApplicationNext, HandleMessage, HandleLostConnection, Disconnect,
          CloseConnection, DispatchReceivedPayloads, EmptyBuffers, vars, async
  <2>2. \/ UNCHANGED mailbox
        \/ mailbox' = [mailbox EXCEPT ![listens] = <<>>]
        \/ /\ mailbox[listens] # <<>>
           /\ mailbox' = [mailbox EXCEPT ![listens] = Tail(@)]
    BY <1>1 DEF ApplicationNext, HandleMessage, HandleLostConnection, Disconnect,
          CloseConnection, Reconnect, ListensTo, DispatchReceivedPayloads,
          EmptyBuffers, vars
  <2>3. mailbox' \in [Attempts -> Seq(ClientMessages)]
    <3>1. mailbox[listens] # <<>> => Tail(mailbox[listens]) \in Seq(ClientMessages)
      BY <1>0, ResultsTail
    <3>2. <<>> \in Seq(ClientMessages)
      OBVIOUS
    <3> QED
      BY <1>0, <2>2, <3>1, <3>2
  <2>4. ASSUME NEW b \in Attempts
        PROVE  Modest(mailbox'[b], Told(b)', phase'[b] = "done")
    <3>1. /\ Modest(<<>>, Told(b), phase[b] = "done")
          /\ mailbox[b] # <<>> => Modest(Tail(mailbox[b]), Told(b), phase[b] = "done")
      BY <1>0, ModestFacts
    <3>2. \/ mailbox'[b] = mailbox[b]
          \/ mailbox'[b] = <<>>
          \/ mailbox[b] # <<>> /\ mailbox'[b] = Tail(mailbox[b])
      BY <1>0, <2>2
    <3>3. Modest(mailbox'[b], Told(b), phase[b] = "done")
      BY <1>0, <3>1, <3>2
    <3> QED
      BY <2>1, <3>3 DEF Modest
  <2> QED
    BY <1>a, <2>3, <2>4
<1>2. ASSUME NEW a \in Attempts, AttemptNext(a)
      PROVE  MailboxInv' /\ mailbox' \in [Attempts -> Seq(ClientMessages)]
  <2>1. \A b \in Attempts \ {a} :
          Told(b)' = Told(b) /\ phase'[b] = phase[b] /\ mailbox'[b] = mailbox[b]
    BY <1>2 DEF AttemptNext, Connects, Identifies, ConnectSucceeds, ConnectFails,
                ConfigurationPanics, ReceiveClientId, ClientIdFails,
                ClientIdInterrupted, Signal, Watch, TasksClose, PeerCloses, Becomes,
                Send, Told, TypeOK
  <2>2. SUFFICES /\ mailbox' \in [Attempts -> Seq(ClientMessages)]
                 /\ Modest(mailbox'[a], Told(a)', phase'[a] = "done")
    BY <1>0, <1>a, <2>1, ZenonT(60) DEF Modest
  <2>3. CASE Signal(a)
    <3>1. PICK m \in ClientMessages : Send(a, m)
      BY <2>3 DEF Signal, ClientMessages
    <3>2. phase[a] # "done" /\ phase'[a] = "done" /\ Told(a)' = Told(a) + 1
      BY <2>3 DEF Signal, Becomes, TypeOK, Told
    <3>3. /\ Append(mailbox[a], m) \in Seq(ClientMessages)
          /\ Modest(Append(mailbox[a], m), Told(a) + 1, TRUE)
          /\ Modest(mailbox[a], Told(a) + 1, TRUE)
      BY <1>0, <3>2, ModestFacts, ResultsAppend
    <3>4. \/ UNCHANGED mailbox
          \/ mailbox' = [mailbox EXCEPT ![a] = Append(@, m)]
      BY <3>1 DEF Send
    <3>5. /\ mailbox' \in [Attempts -> Seq(ClientMessages)]
          /\ Modest(mailbox'[a], Told(a) + 1, TRUE)
      BY <1>0, <3>3, <3>4
    <3> QED
      BY <3>2, <3>5 DEF Modest
  <2>4. CASE Watch(a)
    <3>1. Send(a, "ConnectionClosed") /\ phase'[a] = phase[a] /\ Told(a)' = Told(a) + 1
      BY <2>4 DEF Watch, TypeOK, Told
    <3>3. /\ Append(mailbox[a], "ConnectionClosed") \in Seq(ClientMessages)
          /\ Modest(Append(mailbox[a], "ConnectionClosed"), Told(a) + 1, phase[a] = "done")
          /\ Modest(mailbox[a], Told(a) + 1, phase[a] = "done")
      BY <1>0, ModestFacts, ResultsAppend DEF ClientMessages
    <3>4. \/ UNCHANGED mailbox
          \/ mailbox' = [mailbox EXCEPT ![a] = Append(@, "ConnectionClosed")]
      BY <3>1 DEF Send
    <3> QED
      BY <1>0, <3>1, <3>3, <3>4 DEF Modest
  <2>5. CASE Connects(a) \/ Identifies(a) \/ TasksClose(a) \/ PeerCloses(a)
    <3>1. \/ /\ UNCHANGED mailbox /\ phase[a] # "done"
             /\ (phase'[a] = "done" => Told(a)' = Told(a) + 1)
             /\ (phase'[a] # "done" => Told(a)' = Told(a))
          \/ UNCHANGED <<mailbox, phase, watcher>>
      BY <2>5 DEF Connects, Identifies, ConnectSucceeds, ConnectFails,
                ConfigurationPanics, ReceiveClientId, ClientIdFails,
                ClientIdInterrupted, TasksClose, PeerCloses, Becomes, Told, TypeOK,
                UntouchedInv
    <3>2. ~(phase[a] = "done") => Modest(mailbox[a], Told(a) + 1, TRUE)
      BY <1>0, ModestFacts
    <3>3. mailbox' = mailbox
      BY <3>1
    <3>4. CASE UNCHANGED <<phase, watcher>>
      <4>1. Told(a)' = Told(a) /\ phase'[a] = phase[a]
        BY <3>4 DEF Told
      <4> QED
        BY <1>0, <3>3, <4>1
    <3>5. CASE ~UNCHANGED <<phase, watcher>> /\ phase'[a] = "done"
      BY <1>0, <3>1, <3>2, <3>3, <3>5 DEF Modest
    <3>6. CASE ~UNCHANGED <<phase, watcher>> /\ phase'[a] # "done"
      BY <1>0, <3>1, <3>3, <3>6 DEF Modest
    <3> QED
      BY <3>4, <3>5, <3>6
  <2> QED
    BY <1>2, <2>3, <2>4, <2>5 DEF AttemptNext
<1> QED
  BY <1>1, <1>2 DEF Next

-----------------------------------------------------------------------------

(* A loss is reported after the Connection it ends, and once. *)
LEMMA LosesEvents ==
  ASSUME IInv, Loses
  PROVE  /\ EventsMakeSense' /\ Resulted' = Resulted /\ state' = "Disconnected"
         /\ raised' \in Seq(Events)
<1>0. raised \in Seq(Events) /\ "Lost" \in Events
  BY DEF IInv, TypeOK, Events
<1>1. CASE state = "Disconnected"
  <2>1. UNCHANGED <<state, raised>>
    BY <1>1 DEF Loses
  <2> QED
    BY <1>0, <1>1, <2>1 DEF IInv, EventsInv, EventsMakeSense, Resulted, Over, Raised
<1>2. CASE state # "Disconnected"
  <2>1. state' = "Disconnected" /\ Raise("Lost")
    BY <1>2 DEF Loses, InternalDisconnect
  <2>2. /\ raised' \in Seq(Events) /\ Len(raised) \in Nat
        /\ Over \subseteq 1..Len(raised)
        /\ Raised("Connection") \subseteq 1..Len(raised)
        /\ Raised("Lost") \subseteq Over
        /\ Raised("Lost")' = Raised("Lost") \cup {Len(raised) + 1}
        /\ Over' = Over \cup {Len(raised) + 1}
        /\ Raised("Connection")' = Raised("Connection")
        /\ Raised("Failed")' = Raised("Failed")
    BY <1>0, <2>1, RaiseIndex DEF Events, Over
  <2>3. ASSUME NEW i \in Over', NEW j \in Raised("Lost")', i < j
        PROVE  \E k \in Raised("Connection")' : i < k /\ k < j
    <3>0. j \in Nat /\ j <= Len(raised) + 1
      <4>1. j \in 1..Len(raised) \/ j = Len(raised) + 1
        BY <2>2
      <4> QED
        BY <2>2, <4>1
    <3>1. i \in Over
      BY <2>2, <2>3, <3>0
    <3>2. CASE j \in Raised("Lost")
      BY <2>2, <2>3, <3>1, <3>2 DEF IInv, EventsInv, EventsMakeSense
    <3>3. CASE j = Len(raised) + 1
      <4>1. PICK k \in Raised("Connection") : i < k
        BY <1>2, <3>1 DEF IInv, EventsInv
      <4>2. k < j
        BY <2>2, <3>3
      <4> QED
        BY <2>2, <4>1, <4>2
    <3> QED
      BY <2>2, <3>2, <3>3
  <2>4. \A i, j \in Resulted' : i = j
    BY <2>2 DEF IInv, EventsInv, EventsMakeSense, Resulted
  <2> QED
    BY <2>1, <2>2, <2>3, <2>4 DEF EventsMakeSense, Resulted
<1> QED
  BY <1>1, <1>2

(* The application's own disconnect is no loss. *)
LEMMA DisconnectEvents ==
  ASSUME IInv, Disconnect
  PROVE  EventsInv' /\ raised' \in Seq(Events)
<1>1. /\ state' = "Disconnected" /\ Raise("Disconnect")
      /\ mailbox' = mailbox /\ phase' = phase /\ attempt' = attempt
  BY DEF Disconnect, InternalDisconnect, async
<1>2. /\ raised' \in Seq(Events) /\ Len(raised) \in Nat
      /\ Raised("Lost") \subseteq 1..Len(raised)
      /\ Raised("Lost")' = Raised("Lost")
      /\ Over' = Over \cup {Len(raised) + 1}
      /\ Raised("Connection")' = Raised("Connection")
      /\ Resulted' = Resulted
  <2>1. raised \in Seq(Events) /\ "Disconnect" \in Events
    BY DEF IInv, TypeOK, Events
  <2> QED
    BY <1>1, <2>1, RaiseIndex DEF Events, Over, Resulted
<1>3. ASSUME NEW i \in Over', NEW j \in Raised("Lost")', i < j
      PROVE  \E k \in Raised("Connection")' : i < k /\ k < j
  <2>1. j \in Raised("Lost") /\ j <= Len(raised) /\ j \in Nat
    BY <1>2
  <2>2. i \in Over
    BY <1>2, <1>3, <2>1
  <2> QED
    BY <1>2, <1>3, <2>1, <2>2 DEF IInv, EventsInv, EventsMakeSense
<1> QED
  BY <1>1, <1>2, <1>3 DEF IInv, EventsInv, EventsMakeSense, Resulted

(* An attempt has one result. *)
LEMMA ResultEvents ==
  ASSUME IInv, Resulted = {}, NEW event \in {"Connection", "Failed"}, Raise(event),
         state' = "Disconnected" \/ event = "Connection"
  PROVE  /\ EventsMakeSense'
         /\ raised' \in Seq(Events)
         /\ state' # "Disconnected" =>
              \A i \in Over' : \E k \in Raised("Connection")' : i < k
<1>1. /\ raised' \in Seq(Events) /\ Len(raised) \in Nat
      /\ Over \subseteq 1..Len(raised)
      /\ Raised("Lost") \subseteq 1..Len(raised)
      /\ Raised("Lost")' = Raised("Lost")
      /\ Over' = Over \cup IF event = "Failed" THEN {Len(raised) + 1} ELSE {}
      /\ Resulted' = {Len(raised) + 1}
      /\ Raised("Connection") \subseteq Raised("Connection")'
      /\ event = "Connection" => Len(raised) + 1 \in Raised("Connection")'
  <2>1. raised \in Seq(Events) /\ event \in Events
    BY DEF IInv, TypeOK, Events
  <2> QED
    BY <2>1, RaiseIndex DEF Events, Resulted, Over
<1>2. EventsMakeSense'
  <2>1. ASSUME NEW i \in Over', NEW j \in Raised("Lost")', i < j
        PROVE  \E k \in Raised("Connection")' : i < k /\ k < j
    <3>1. j \in Raised("Lost") /\ j <= Len(raised) /\ j \in Nat
      BY <1>1
    <3>2. i \in Over
      BY <1>1, <2>1, <3>1
    <3> QED
      BY <1>1, <2>1, <3>1, <3>2 DEF IInv, EventsInv, EventsMakeSense
  <2> QED
    BY <1>1, <2>1 DEF EventsMakeSense, Resulted
<1>3. ASSUME event = "Connection", NEW i \in Over'
      PROVE  \E k \in Raised("Connection")' : i < k
  <2>1. i < Len(raised) + 1
    BY <1>1, <1>3
  <2> QED
    BY <1>1, <1>3, <2>1
<1> QED
  BY <1>1, <1>2, <1>3

LEMMA EventsStep == IInv /\ [Next]_vars => EventsInv' /\ raised' \in Seq(Events)
<1> SUFFICES ASSUME IInv, [Next]_vars
             PROVE  EventsInv' /\ raised' \in Seq(Events)
  OBVIOUS
<1>0. /\ mailbox \in [Attempts -> Seq(ClientMessages)]
      /\ attempt \in Attempts /\ listens = attempt
      /\ raised \in Seq(Events)
      /\ Modest(mailbox[attempt], Told(attempt), phase[attempt] = "done")
      /\ Told(attempt) \in Nat
  BY DEF IInv, TypeOK, ClientMessages, CurrentInv, MailboxInv, Modest, Events, Told
<1>1. CASE UNCHANGED <<raised, attempt, phase, mailbox>> /\ state' \in {state, "Disconnected"}
  <2>1. raised' = raised /\ attempt' = attempt /\ phase' = phase /\ mailbox' = mailbox
    BY <1>1
  <2> QED
    BY <1>0, <1>1, <2>1 DEF IInv, EventsInv, EventsMakeSense, Resulted, Over, Raised
<1>2. CASE raised' = <<>>
  <2>1. \A event : Raised(event)' = {}
    BY <1>2 DEF Raised
  <2>2. <<>> \in Seq(Events)
    OBVIOUS
  <2> QED
    BY <1>2, <2>1, <2>2 DEF EventsInv, EventsMakeSense, Resulted, Over
<1>3. CASE HandleMessage
  <2> DEFINE queue == mailbox[attempt]
  <2>1. /\ queue # <<>>
        /\ mailbox'[attempt] = Tail(queue)
        /\ phase' = phase /\ attempt' = attempt
        /\ Head(queue) \in ClientMessages
    BY <1>0, <1>3, ResultsTail DEF HandleMessage, async
  <2>2. /\ Head(queue) # "ConnectionClosed" => Results(Tail(queue)) = {}
        /\ Head(queue) # "ConnectionClosed" => 1 \in Results(queue)
        /\ Results(queue) = {} => Results(Tail(queue)) = {}
    BY <1>0, <2>1, ModestFacts, ResultsTail DEF ClientMessages
  <2>3. ASSUME Head(queue) \in {"Connected", "ConnectionFailed"}
        PROVE  EventsInv' /\ raised' \in Seq(Events)
    <3>1. Resulted = {} /\ phase[attempt] = "done"
      BY <1>0, <2>2, <2>3 DEF IInv, EventsInv, Modest
    <3>2. PICK event \in {"Connection", "Failed"} :
            Raise(event) /\ (state' = "Disconnected" \/ event = "Connection")
      BY <1>0, <1>3, <2>3 DEF HandleMessage
    <3>3. /\ EventsMakeSense' /\ raised' \in Seq(Events)
          /\ state' # "Disconnected" =>
               \A i \in Over' : \E k \in Raised("Connection")' : i < k
      BY <3>1, <3>2, ResultEvents
    <3> QED
      BY <2>1, <2>2, <2>3, <3>1, <3>3 DEF EventsInv
  <2>4. ASSUME Head(queue) = "ConnectionClosed"
        PROVE  EventsInv' /\ raised' \in Seq(Events)
    <3>1. Loses
      BY <1>0, <1>3, <2>4 DEF HandleMessage
    <3>2. /\ EventsMakeSense' /\ Resulted' = Resulted /\ state' = "Disconnected"
          /\ raised' \in Seq(Events)
      BY <3>1, LosesEvents
    <3> QED
      BY <2>1, <2>2, <3>2 DEF IInv, EventsInv
  <2> QED
    BY <2>1, <2>3, <2>4 DEF ClientMessages
<1>4. CASE HandleLostConnection
  <2>1. Loses /\ mailbox' = mailbox /\ phase' = phase /\ attempt' = attempt
    BY <1>4 DEF HandleLostConnection, async
  <2>2. /\ EventsMakeSense' /\ Resulted' = Resulted /\ state' = "Disconnected"
        /\ raised' \in Seq(Events)
    BY <2>1, LosesEvents
  <2> QED
    BY <2>1, <2>2 DEF IInv, EventsInv
<1>5. ASSUME NEW a \in Attempts, AttemptNext(a)
      PROVE  EventsInv' /\ raised' \in Seq(Events)
  <2>1. raised' = raised /\ attempt' = attempt /\ state' = state
    BY <1>5, AttemptLocal DEF client
  <2>2. ASSUME phase[attempt] = "done", Results(mailbox[attempt]) = {}
        PROVE  phase'[attempt] = "done" /\ Results(mailbox'[attempt]) = {}
    <3>1. phase'[attempt] = "done"
      BY <1>0, <1>5, <2>2
      DEF AttemptNext, Connects, Identifies, ConnectSucceeds, ConnectFails,
          ConfigurationPanics, ReceiveClientId, ClientIdFails, ClientIdInterrupted,
          Signal, Watch, TasksClose, PeerCloses, Becomes, IInv, TypeOK
    <3>2. \/ mailbox'[attempt] = mailbox[attempt]
          \/ mailbox'[attempt] = Append(mailbox[attempt], "ConnectionClosed")
      BY <1>0, <1>5, <2>2
      DEF AttemptNext, Connects, Identifies, ConnectSucceeds, ConnectFails,
          ConfigurationPanics, ReceiveClientId, ClientIdFails, ClientIdInterrupted,
          Signal, Watch, TasksClose, PeerCloses, Becomes, Send
    <3>3. Results(Append(mailbox[attempt], "ConnectionClosed")) = Results(mailbox[attempt])
      BY <1>0, ResultsAppend DEF ClientMessages
    <3> QED
      BY <2>2, <3>1, <3>2, <3>3
  <2> QED
    BY <1>0, <2>1, <2>2 DEF IInv, EventsInv, EventsMakeSense, Resulted, Over, Raised
<1>6. CASE Disconnect
  BY <1>6, DisconnectEvents
<1> QED
  BY <1>1, <1>2, <1>3, <1>4, <1>5, <1>6
  DEF Next, ApplicationNext, CloseConnection, Reconnect,
      DispatchReceivedPayloads, EmptyBuffers, vars, client, async

-----------------------------------------------------------------------------

(* The other variables keep their type. *)
LEMMA TypeStep ==
  ASSUME TypeOK, [Next]_vars, MailboxInv', raised' \in Seq(Events),
         mailbox' \in [Attempts -> Seq(ClientMessages)]
  PROVE  TypeOK'
<1>1. \A a \in Attempts : Len(mailbox'[a]) <= 2
  <2>1. \A a \in Attempts : Told(a)' \in 0..2 /\ Len(mailbox'[a]) <= Told(a)'
    BY DEF Told, MailboxInv
  <2>2. \A a \in Attempts : Len(mailbox'[a]) \in Nat
    BY LenProperties
  <2> QED
    BY <2>1, <2>2
<1>2. /\ sharedClientId' \in BOOLEAN
      /\ state' \in {"Connecting", "Connected", "Disconnected"}
      /\ handle' \in Attempts \cup {None}
      /\ attempt' \in Attempts /\ listens' \in Attempts /\ owns' \in Attempts
      /\ removed' \in BOOLEAN
      /\ buffers' \in SUBSET Attempts
      /\ closeSent' \in [Attempts -> BOOLEAN]
      /\ phase' \in [Attempts -> Phases]
      /\ tasks' \in [Attempts -> {"none", "running", "ended"}]
      /\ subscribed' \in [Attempts -> BOOLEAN]
      /\ watcher' \in [Attempts -> {"none", "watching", "done"}]
      /\ conn' \in [Attempts -> {"none", "open", "lost", "closed"}]
  <2> USE DEF TypeOK
  <2>1. CASE HandleMessage \/ HandleLostConnection
    BY <2>1 DEF HandleMessage, HandleLostConnection, Loses, InternalDisconnect, async
  <2>2. CASE Disconnect \/ CloseConnection
    BY <2>2 DEF Disconnect, CloseConnection, InternalDisconnect, async
  <2>3. CASE Reconnect
    BY <2>3 DEF Reconnect, ListensTo, Reset, Phases
  <2>4. CASE DispatchReceivedPayloads \/ EmptyBuffers
    BY <2>4 DEF DispatchReceivedPayloads, EmptyBuffers, async
  <2>5. ASSUME NEW a \in Attempts, AttemptNext(a)
        PROVE  /\ closeSent' = closeSent
               /\ phase' \in [Attempts -> Phases]
               /\ tasks' \in [Attempts -> {"none", "running", "ended"}]
               /\ subscribed' \in [Attempts -> BOOLEAN]
               /\ watcher' \in [Attempts -> {"none", "watching", "done"}]
               /\ conn' \in [Attempts -> {"none", "open", "lost", "closed"}]
    <3>1. CASE Connects(a)
      BY <2>5, <3>1, ZenonT(60) DEF Connects, ConnectSucceeds, ConnectFails, ConfigurationPanics,
                        Becomes, Phases
    <3>2. CASE Identifies(a) \/ Signal(a)
      BY <2>5, <3>2 DEF Identifies, ReceiveClientId, ClientIdFails,
                        ClientIdInterrupted, Signal, Becomes, Phases
    <3>3. CASE Watch(a) \/ TasksClose(a) \/ PeerCloses(a)
      BY <2>5, <3>3 DEF Watch, TasksClose, PeerCloses
    <3> QED
      BY <2>5, <3>1, <3>2, <3>3 DEF AttemptNext
  <2>6. CASE \E a \in Attempts : AttemptNext(a)
    BY <2>5, <2>6, AttemptLocal DEF client
  <2>7. CASE UNCHANGED vars
    BY <2>7 DEF vars, client, async
  <2> QED
    BY <2>1, <2>2, <2>3, <2>4, <2>6, <2>7 DEF Next, ApplicationNext
<1> QED
  BY <1>1, <1>2 DEF TypeOK, Events, ClientMessages

(* The inductive invariant.                                                *)
THEOREM Inductive == Spec => []IInv
<1>1. IInv /\ [Next]_vars => IInv'
  BY CurrentStep, UntouchedStep, MailboxStep, EventsStep, TypeStep DEF IInv
<1> QED
  BY <1>1, IInvInit, PTL DEF Spec

(* The state keeps its type; no queue of messages ever holds more than the *)
(* two that the tasks of an attempt send in all.                           *)
THEOREM TypeCorrect == Spec => []TypeOK
<1>1. IInv => TypeOK
  BY DEF IInv
<1> QED
  BY <1>1, Inductive, PTL

(* However many attempts are made and left behind, a connection that says  *)
(* it is Connected holds the QUIC connection of its latest attempt.        *)
THEOREM HandleIsCurrent == Spec => []ConnectedIsCurrent
<1>1. IInv => ConnectedIsCurrent
  BY DEF IInv, CurrentInv
<1> QED
  BY <1>1, Inductive, PTL

(* No payload that an earlier attempt received is left after a reconnect.  *)
THEOREM PayloadsAreCurrent == Spec => []NoStalePayload
<1>1. IInv => NoStalePayload
  BY DEF IInv, CurrentInv
<1> QED
  BY <1>1, Inductive, PTL

(* In every interleaving of the tasks' messages with what the application  *)
(* does, the events of an attempt make sense: one result at most, and no   *)
(* ConnectionLostEvent for a connection that was over already.             *)
THEOREM EventsAreSensible == Spec => []EventsMakeSense
<1>1. IInv => EventsMakeSense
  BY DEF IInv, EventsInv
<1> QED
  BY <1>1, Inductive, PTL

=============================================================================
