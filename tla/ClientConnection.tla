-------------------------- MODULE ClientConnection --------------------------
(***************************************************************************)
(* The life of one ClientSideConnection: connecting, the client id, the    *)
(* events raised for the application, losing the connection,               *)
(* disconnecting, reconnecting and removal from the QuinnetClient.         *)
(*                                                                         *)
(* Every attempt to connect has queues of its own and an                   *)
(* async_connection_task of its own; reconnect points the                  *)
(* ClientSideConnection at the queues of the new attempt while the tasks   *)
(* of the earlier ones may still run.  The application thread reads the    *)
(* messages of the async side once per frame, so what it handles may be    *)
(* older than what it did since.                                           *)
(*                                                                         *)
(* The channels of the connection are the subject of SendChannels; here    *)
(* they only report a lost connection, and end.                            *)
(***************************************************************************)
EXTENDS Integers, Sequences

CONSTANTS
  Builds,       \* with the shared-client-id feature (TRUE), without it (FALSE)
  MaxAttempts,  \* open_connection and the calls of reconnect: a bound of the model
  None

Attempts == 1..MaxAttempts

ASSUME BuildsAssumption == Builds \subseteq BOOLEAN
ASSUME AttemptsAssumption == MaxAttempts \in Nat \ {0} /\ None \notin Attempts

VARIABLES
  sharedClientId,  \* the shared-client-id feature of the build
  (* the ClientSideConnection *)
  state,       \* "Connecting", "Connected", "Disconnected"
  handle,      \* the attempt whose QUIC connection the Connected state holds
  attempt,     \* the latest attempt
  listens,     \* the attempt at the other end of from_async_client_recv
  owns,        \* the attempt at the other end of the PeerConnection's queues
  removed,     \* taken out of the QuinnetClient and dropped
  buffers,     \* the attempts from which received payloads are buffered
  (* queues, by attempt *)
  mailbox,     \* ClientAsyncMessages
  closeSent,   \* the close signal was broadcast
  (* async tasks, by attempt *)
  phase,       \* async_connection_task
  tasks,       \* the spawner, and the channel tasks, as one
  subscribed,  \* their close receivers existed before the close was broadcast
  watcher,     \* the task that waits for the end of the QUIC connection
  conn,        \* the QUIC connection
  (* history *)
  raised       \* the events raised during the latest attempt, and the
               \* application's own calls of disconnect among them

client == <<state, handle, attempt, listens, owns, removed, buffers, raised>>
async == <<phase, tasks, subscribed, watcher, conn>>
vars == <<sharedClientId, client, mailbox, closeSent, async>>

Init ==
  /\ sharedClientId \in Builds
  /\ state = "Connecting"
  /\ handle = None
  /\ attempt = 1 /\ listens = 1 /\ owns = 1
  /\ removed = FALSE
  /\ buffers = {}
  /\ mailbox = [a \in Attempts |-> <<>>]
  /\ closeSent = [a \in Attempts |-> FALSE]
  /\ phase = [a \in Attempts |-> IF a = 1 THEN "connecting" ELSE "none"]
  /\ tasks = [a \in Attempts |-> "none"]
  /\ subscribed = [a \in Attempts |-> FALSE]
  /\ watcher = [a \in Attempts |-> "none"]
  /\ conn = [a \in Attempts |-> "none"]
  /\ raised = <<>>

-----------------------------------------------------------------------------
(* The application thread.                                                 *)

Raise(event) == raised' = Append(raised, event)

(* internal_disconnect, for a connection that is not Disconnected: the     *)
(* state first, then the broadcast, which reaches whoever listens.         *)
InternalDisconnect ==
  /\ state' = "Disconnected"
  /\ handle' = None
  /\ closeSent' = [closeSent EXCEPT ![owns] = TRUE]

(* Mutant: a loss is reported whatever the state. *)
LosesAgain ==
  /\ InternalDisconnect
  /\ Raise("Lost")

(* Mutant: only a connection that was announced can be lost. *)
LosesIfConnected ==
  IF state # "Connected" THEN UNCHANGED <<state, handle, closeSent, raised>>
  ELSE /\ InternalDisconnect
       /\ Raise("Lost")

(* ConnectionClosed of the watcher, or LostConnection of a channel. *)
Loses ==
  IF state = "Disconnected" THEN UNCHANGED <<state, handle, closeSent, raised>>
  ELSE /\ InternalDisconnect
       /\ Raise("Lost")

(* handle_client_events: one message of the async client. *)
HandleMessage ==
  /\ ~removed
  /\ mailbox[listens] # <<>>
  /\ mailbox' = [mailbox EXCEPT ![listens] = Tail(@)]
  /\ LET message == Head(mailbox[listens])
     IN \/ /\ message = "Connected"
           /\ state' = "Connected"
           /\ handle' = listens
           /\ Raise("Connection")
           /\ UNCHANGED closeSent
        \/ /\ message = "ConnectionFailed"
           /\ state' = "Disconnected"
           /\ handle' = None
           /\ Raise("Failed")
           /\ UNCHANGED closeSent
        \/ /\ message = "ConnectionClosed"
           /\ Loses
  /\ UNCHANGED <<sharedClientId, attempt, listens, owns, removed, buffers, async>>

(* handle_client_events: a LostConnection message of a channel that could  *)
(* not send, the connection being lost or the payload too large.  Once the *)
(* channels have their tasks, such a message may wait at any time.         *)
HandleLostConnection ==
  /\ ~removed
  /\ tasks[owns] # "none"
  /\ Loses
  /\ UNCHANGED <<sharedClientId, attempt, listens, owns, removed, buffers,
                 mailbox, async>>

(* disconnect; it does nothing to a disconnected connection. *)
Disconnect ==
  /\ ~removed
  /\ state # "Disconnected"
  /\ InternalDisconnect
  /\ Raise("Disconnect")
  /\ UNCHANGED <<sharedClientId, attempt, listens, owns, removed, buffers,
                 mailbox, async>>

(* close_connection of the client: removed, disconnected, dropped.  The    *)
(* senders and receivers of its queues go with it.                         *)
CloseConnection ==
  /\ ~removed
  /\ removed' = TRUE
  /\ IF state = "Disconnected" THEN UNCHANGED <<state, handle, closeSent>>
                               ELSE InternalDisconnect
  /\ mailbox' = [mailbox EXCEPT ![listens] = <<>>]
  /\ buffers' = {}
  /\ raised' = <<>>
  /\ UNCHANGED <<sharedClientId, attempt, listens, owns, async>>

(* Mutant: internal_reset forgets the buffers of received payloads. *)
ResetKeepsPayloads(a) == owns' = a /\ UNCHANGED buffers

(* internal_reset: the queues of the new attempt, no received payload. *)
Reset(a) == owns' = a /\ buffers' = {}

(* Mutant: the messages of the last attempt are still read. *)
ListensToLast(a) == UNCHANGED <<listens, mailbox>>

ListensTo(a) == listens' = a /\ mailbox' = [mailbox EXCEPT ![listens] = <<>>]

Reconnect ==
  /\ ~removed
  /\ state = "Disconnected"
  /\ attempt + 1 \in Attempts
  /\ state' = "Connecting"
  /\ handle' = None
  /\ attempt' = attempt + 1
  /\ ListensTo(attempt + 1)
  /\ Reset(attempt + 1)
  /\ phase' = [phase EXCEPT ![attempt + 1] = "connecting"]
  /\ raised' = <<>>
  /\ UNCHANGED <<sharedClientId, removed, closeSent, tasks, subscribed, watcher,
                 conn>>

(* dispatch_received_payloads, which skips disconnected connections.  Once *)
(* the receiving tasks exist, their queue may hold payloads at any time.   *)
DispatchReceivedPayloads ==
  /\ ~removed
  /\ state # "Disconnected"
  /\ tasks[owns] # "none"
  /\ buffers' = buffers \cup {owns}
  /\ UNCHANGED <<sharedClientId, state, handle, attempt, listens, owns, removed,
                 raised, mailbox, closeSent, async>>

(* receive_payload until nothing is left, or the clearing of stale         *)
(* payloads at the end of a frame.                                         *)
EmptyBuffers ==
  /\ ~removed
  /\ buffers # {}
  /\ buffers' = {}
  /\ UNCHANGED <<sharedClientId, state, handle, attempt, listens, owns, removed,
                 raised, mailbox, closeSent, async>>

-----------------------------------------------------------------------------
(* The tasks of attempt a.                                                 *)

(* The receiver of the attempt's ClientAsyncMessages exists. *)
Heard(a) == ~removed /\ listens = a

(* The attempt's close sender was dropped. *)
Abandoned(a) == removed \/ owns # a

(* To a receiver that exists the message is sent; without one the sender   *)
(* panics, and its task ends all the same.                                 *)
Send(a, message) ==
  mailbox' = IF Heard(a) THEN [mailbox EXCEPT ![a] = Append(@, message)] ELSE mailbox

Becomes(a, p) == phase' = [phase EXCEPT ![a] = p]

(* The handshake succeeds: the watcher, then the tasks of the channels,    *)
(* which subscribe to the close signal now.                                *)
ConnectSucceeds(a) ==
  /\ phase[a] = "connecting"
  /\ Becomes(a, IF sharedClientId THEN "identifying" ELSE "signalling")
  /\ conn' = [conn EXCEPT ![a] = "open"]
  /\ watcher' = [watcher EXCEPT ![a] = "watching"]
  /\ tasks' = [tasks EXCEPT ![a] = "running"]
  /\ subscribed' = [subscribed EXCEPT ![a] = ~closeSent[a]]
  /\ UNCHANGED <<sharedClientId, client, mailbox, closeSent>>

ConnectFails(a) ==
  /\ phase[a] = "connecting"
  /\ Becomes(a, "failing")
  /\ UNCHANGED <<sharedClientId, client, mailbox, closeSent, tasks,
                 subscribed, watcher, conn>>

(* The configuration, the local address or the host name is unusable: an   *)
(* expect of the task panics, and the application is told nothing.         *)
ConfigurationPanics(a) ==
  /\ phase[a] = "connecting"
  /\ Becomes(a, "panicked")
  /\ UNCHANGED <<sharedClientId, client, mailbox, closeSent, tasks,
                 subscribed, watcher, conn>>

ReceiveClientId(a) ==
  /\ phase[a] = "identifying"
  /\ conn[a] = "open"
  /\ Becomes(a, "signalling")
  /\ UNCHANGED <<sharedClientId, client, mailbox, closeSent, tasks,
                 subscribed, watcher, conn>>

(* Mutant: the failure is only logged. *)
ClientIdFailsSilently(a) ==
  /\ phase[a] = "identifying"
  /\ Becomes(a, "done")
  /\ UNCHANGED <<sharedClientId, client, mailbox, closeSent, tasks,
                 subscribed, watcher, conn>>

(* The connection ends first, or what arrives is no client id. *)
ClientIdFails(a) ==
  /\ phase[a] = "identifying"
  /\ Becomes(a, "failing")
  /\ UNCHANGED <<sharedClientId, client, mailbox, closeSent, tasks,
                 subscribed, watcher, conn>>

(* The close receiver of this task was made with the sender: it misses     *)
(* nothing.                                                                *)
ClientIdInterrupted(a) ==
  /\ phase[a] = "identifying"
  /\ closeSent[a] \/ Abandoned(a)
  /\ Becomes(a, "done")
  /\ UNCHANGED <<sharedClientId, client, mailbox, closeSent, tasks,
                 subscribed, watcher, conn>>

(* The last message of the task. *)
Signal(a) ==
  /\ \/ phase[a] = "signalling" /\ Send(a, "Connected")
     \/ phase[a] = "failing" /\ Send(a, "ConnectionFailed")
  /\ Becomes(a, "done")
  /\ UNCHANGED <<sharedClientId, client, closeSent, tasks,
                 subscribed, watcher, conn>>

(* Mutant: the watcher tells nobody about a connection closed by the peer. *)
WatcherIsSilent(a) ==
  /\ watcher[a] = "watching"
  /\ conn[a] # "open"
  /\ watcher' = [watcher EXCEPT ![a] = "done"]
  /\ IF conn[a] = "closed" THEN Send(a, "ConnectionClosed") ELSE UNCHANGED mailbox
  /\ UNCHANGED <<sharedClientId, client, closeSent, phase, tasks,
                 subscribed, conn>>

(* Mutant: the watcher looks again after it has told. *)
WatchesOn(a) ==
  /\ watcher[a] = "watching"
  /\ conn[a] # "open"
  /\ Send(a, "ConnectionClosed")
  /\ UNCHANGED <<sharedClientId, client, closeSent, async>>

(* The QUIC connection ended, for whatever cause. *)
Watch(a) ==
  /\ watcher[a] = "watching"
  /\ conn[a] # "open"
  /\ watcher' = [watcher EXCEPT ![a] = "done"]
  /\ Send(a, "ConnectionClosed")
  /\ UNCHANGED <<sharedClientId, client, closeSent, phase, tasks,
                 subscribed, conn>>

(* Mutant: a dropped sender is not a reason to close. *)
SeesCloseOnly(a) == subscribed[a] /\ closeSent[a]

(* The close receivers of the tasks have something to return. *)
SeesClose(a) == (subscribed[a] /\ closeSent[a]) \/ Abandoned(a)

(* The tasks end, and the spawner closes the QUIC connection. *)
TasksClose(a) ==
  /\ tasks[a] = "running"
  /\ SeesClose(a)
  /\ tasks' = [tasks EXCEPT ![a] = "ended"]
  /\ conn' = [conn EXCEPT ![a] = IF @ = "open" THEN "closed" ELSE @]
  /\ UNCHANGED <<sharedClientId, client, mailbox, closeSent, phase,
                 subscribed, watcher>>

(* The peer, the network or a timeout ends the connection. *)
PeerCloses(a) ==
  /\ conn[a] = "open"
  /\ conn' = [conn EXCEPT ![a] = "lost"]
  /\ UNCHANGED <<sharedClientId, client, mailbox, closeSent, phase,
                 tasks, subscribed, watcher>>

-----------------------------------------------------------------------------

ApplicationNext ==
  \/ HandleMessage
  \/ HandleLostConnection
  \/ Disconnect
  \/ CloseConnection
  \/ Reconnect
  \/ DispatchReceivedPayloads
  \/ EmptyBuffers

Connects(a) == ConnectSucceeds(a) \/ ConnectFails(a) \/ ConfigurationPanics(a)

Identifies(a) == ReceiveClientId(a) \/ ClientIdFails(a) \/ ClientIdInterrupted(a)

AttemptNext(a) ==
  \/ Connects(a)
  \/ Identifies(a)
  \/ Signal(a)
  \/ Watch(a)
  \/ TasksClose(a)
  \/ PeerCloses(a)

Next == ApplicationNext \/ \E a \in Attempts : AttemptNext(a)

Spec == Init /\ [][Next]_vars

(* The steps of an attempt that nothing holds up: the runtime polls the    *)
(* tasks, and QUIC ends a handshake that stalls.  The wait for the client  *)
(* id is ended by the close signal and by the end of the connection.       *)
(* Nothing else ends it: a server whose application never acknowledges the *)
(* client, or that is built without shared-client-id, sends no id, and its *)
(* keep-alive keeps the connection from timing out.                        *)
(*                                                                         *)
(* The tasks are known to end when the close sender is dropped and the     *)
(* peer reads what is sent: see DroppedIsReleased of SendChannels, and the *)
(* counterexample to its DisconnectedIsClosed for a mere disconnect.       *)
(*                                                                         *)
(* None of these steps comes back, so that fairness for all of them        *)
(* together is fairness for each.                                          *)
Progress(a) ==
  \/ Connects(a)
  \/ ClientIdInterrupted(a)
  \/ conn[a] # "open" /\ ClientIdFails(a)
  \/ Signal(a)
  \/ Watch(a)
  \/ Abandoned(a) /\ TasksClose(a)

(* handle_client_events runs on every frame. *)
Fairness ==
  /\ WF_vars(HandleMessage)
  /\ \A a \in Attempts : WF_vars(Progress(a))

FairSpec == Spec /\ Fairness

-----------------------------------------------------------------------------
(* Properties.                                                             *)

Phases == {"none", "connecting", "identifying", "signalling", "failing",
           "panicked", "done"}

TypeOK ==
  /\ sharedClientId \in BOOLEAN
  /\ state \in {"Connecting", "Connected", "Disconnected"}
  /\ handle \in Attempts \cup {None}
  /\ attempt \in Attempts /\ listens \in Attempts /\ owns \in Attempts
  /\ removed \in BOOLEAN
  /\ buffers \in SUBSET Attempts
  /\ mailbox \in [Attempts -> Seq({"Connected", "ConnectionFailed", "ConnectionClosed"})]
  /\ \A a \in Attempts : Len(mailbox[a]) <= 2
  /\ closeSent \in [Attempts -> BOOLEAN]
  /\ phase \in [Attempts -> Phases]
  /\ tasks \in [Attempts -> {"none", "running", "ended"}]
  /\ subscribed \in [Attempts -> BOOLEAN]
  /\ watcher \in [Attempts -> {"none", "watching", "done"}]
  /\ conn \in [Attempts -> {"none", "open", "lost", "closed"}]
  /\ raised \in Seq({"Connection", "Failed", "Lost", "Disconnect"})

(* A connection that says it is connected holds the QUIC connection of its *)
(* latest attempt, whatever the tasks of earlier attempts still do         *)
(* (reconnect replaces from_async_client_recv).                            *)
ConnectedIsCurrent == state = "Connected" => handle = attempt

(* After a reconnect no payload of an earlier attempt is received          *)
(* (internal_reset clears what was buffered, and the queues are new).      *)
NoStalePayload == buffers \subseteq {attempt}

Raised(event) == {i \in DOMAIN raised : raised[i] = event}

(* What ends a connection, or the attempt at one. *)
Over == Raised("Failed") \cup Raised("Lost") \cup Raised("Disconnect")

(* The events of one attempt: it is announced or it failed, never both,    *)
(* and a ConnectionLostEvent tells of a connection that was not over       *)
(* already: not of one that the other of the two reporters told of, that   *)
(* never came to be, or that the application itself disconnected, unless a *)
(* ConnectionEvent came since.                                             *)
EventsMakeSense ==
  /\ \A i, j \in Raised("Connection") \cup Raised("Failed") : i = j
  /\ \A i \in Over, j \in Raised("Lost") :
       i < j => \E k \in Raised("Connection") : i < k /\ k < j

(* A connection that ended will not go on being Connected (client.rs, the  *)
(* ConnectionLostEvent): neither while the watcher has not told of the     *)
(* end, or what it told is still to be handled, nor if it was handled, in  *)
(* whatever state.  The one exception is a connection that was over before *)
(* its Connected message was handled, which ConnectionClosed may overtake: *)
(* see DisconnectedStays.                                                  *)
Unreported(a) ==
  watcher[a] = "watching"
    \/ \E i \in DOMAIN mailbox[a] : mailbox[a][i] = "ConnectionClosed"

LossIsNoticed ==
  \A a \in Attempts :
    state = "Connected" /\ handle = a /\ conn[a] # "open"
        /\ (Unreported(a) \/ Over = {})
      ~> removed \/ handle # a

(* Every attempt comes to a result, but for one whose task panicked, and   *)
(* for one that waits for a client id the server never sends.              *)
ConnectingEnds ==
  \A a \in Attempts :
    \/ state = "Connecting" /\ attempt = a
          ~> state # "Connecting" \/ attempt # a \/ removed \/ phase[a] = "panicked"
    \/ <>[](phase[a] = "identifying" /\ conn[a] = "open")

(* An attempt left behind by reconnect or close_connection ends with its   *)
(* task and its QUIC connection, even one that connects only afterwards.   *)
AbandonedIsClosed ==
  \A a \in Attempts :
    Abandoned(a) /\ phase[a] # "none"
      ~> phase[a] \in {"done", "panicked"} /\ conn[a] # "open"

(* What the comment of disconnect promises: from now on nothing is sent on *)
(* the connection, until it is reconnected.  (One that was lost is         *)
(* disconnected too.)                                                      *)
DisconnectedStays ==
  [][state = "Disconnected" /\ attempt' = attempt => state' = "Disconnected"]_vars

=============================================================================
