# A TLA+ model of bevy_quinnet

bevy_quinnet is a client/server networking plugin for the Bevy game engine.
The game's thread calls it, and reads its events, once per frame; QUIC (the
quinn crate) runs on a tokio runtime.  The two sides share nothing but queues:
`mpsc` queues, which are bounded, and `broadcast` queues for the close signals.
Nearly everything that can go wrong lies in the order in which these queues,
and the ends of them that were dropped, are seen.  That is what is modelled
here and checked with TLC on small instances; every safety property and both
refinements are also proved with TLAPS, for every value of the constants.

Paths below are relative to `src/src/`.

## Inventory

| Component | Code | State | Operations |
|---|---|---|---|
| Sending half of a connection | `shared/peer_connection.rs`, `shared/channels/tasks.rs`, `shared/channels/{reliable,unreliable}/send.rs`, `shared/channels.rs` | registered channels, pool of 256 ids, CreateChannel queue, a payload queue per channel, close signal, keepalive channel, encoder buffers | open/close a channel, send, close the connection; spawner task, one task per channel, one task per message of an unordered channel |
| Client connection | `client.rs`, `client/connection.rs`, `client/connection/client_id.rs` | Connecting / Connected / Disconnected, the queues of the current attempt, events | open, disconnect, reconnect, close; `async_connection_task`, the watcher, the reception of the client id; `handle_client_events` |
| Server endpoint | `server.rs`, `server/endpoint.rs`, `server/connection.rs`, `server/client_id.rs` | clients by id, the id generator, opened channels, the pool of ids | start/stop, open/close channels for all clients, disconnect one or all; accept loop, `client_connection_task`, watcher; `handle_server_events` |
| Receiving half of a connection | `shared/channels/{reliable,unreliable}/recv.rs`, `shared/peer_connection/recv_channels.rs` | queue of received bytes, buffers per channel | receiving tasks, dispatch, receive, clear |
| Reliable codec | `shared/channels/reliable/codec.rs` | decoder state | encode, decode over arbitrary chunks |
| Certificates of the client | `client/certificate.rs`, `configure_client` in `client/connection.rs` | each verifier's copy of the known hosts, the hosts file they share | loading, verification (trust on first use), the application's choice, storing |
| Certificate of the server | `server/certificate.rs` | certificate and key files | load, generate, save |
| Typed messages, plugins, errors, configuration lists | `client/connection/messages.rs`, `server/messages.rs`, `lib.rs`, `*/error.rs`, parts of `shared.rs` | none | wrappers and declarations |

How they interact.  A `PeerConnection` belongs to the game's thread.  Opening
a channel queues a CreateChannel message for the connection's spawner task,
which starts the channel's task; a payload goes into the channel's own queue.
Closing a channel, the connection, or just dropping the `PeerConnection` makes
different branches of the tasks' `select!` ready.  When every task that holds
a clone of the keepalive sender has ended, the spawner calls quinn's
`connection.close`, which discards whatever is unsent.  A task that cannot send
reports LostConnection, a watcher task reports ConnectionClosed, both to the
game's thread, which turns them into events and into a disconnect with the
reason PeerClosed, on which tasks drop what is queued.  A server's connection
is created on the async side, travels to the game's thread in a ClientConnected
message, and its tasks start with the acknowledgement that comes back.

What is hard: cancellation in the middle of a write; a close signal that is
broadcast before its receivers exist; messages handled a frame after what they
report, when the application has already disconnected or reconnected; two
reporters of one loss; operations over all clients that fail at one of them;
queues that are full or whose other end is gone; a file that several
connections rewrite, or two that a crash leaves half-written; verifications
that block the threads on which everything else runs.  `PROJECT.json` lists
these hazards with their lines and the properties about them.

## Modules

**`SendChannels`** is the sending half of one connection, of either side
(`Side`).  `sendChannels` and `available` are the slots of the PeerConnection
and `ChannelsIdsPool`; `toChannels` the CreateChannel queue; `queue[c]`,
`buf[c]`, `inflight[c]` and `wire[c]` are where a payload of channel `c` can
be: in the mpsc queue, in the encoder of the ordered task, in the message
tasks of an unordered channel, with QUIC.  `task[c]` and `spawner` are the
program counters of the tasks between two awaits: a channel's task opens its
stream, runs, flushes its queue, finishes once it has found the queue empty,
and has ended.  A close signal is a tokio broadcast, and a receiver made by
`resubscribe` sees only what is sent afterwards: `BroadcastClose` sets
`spawnerSignalled` and `taskSignal[c]` for the receivers that exist.  `dropped`
is the drop of the PeerConnection.  `announced` and `endHandled` say that the
message of the client's connecting task, or of the watcher, was handled:
`HandleConnected` sets a client to open again even if it was disconnected
meanwhile, after which it sends, and may disconnect, once more.  `late` are the
payloads such a client accepts when a task has looked at its queue for the last
time.

The peer reads what it likes, when it likes, or never.  `unread[c]` is what it
has not read of a channel: a write waits for `HasRoom` (`Window` is QUIC's flow
control), and `open_uni` for `StreamIsFree`, where a stream counts against
`MaxStreams` until its sender has finished it and the peer has read it to the
end.  Channels are never reused in the model (ids are): `Channels` are numbered
by the order of their opening.  Payloads are numbers in the order of sending;
`Oversized` are those the encoder or the datagram refuses.  The history
variable `accepted` holds what the application was told was sent.

**`ClientConnection`** is the life of one `ClientSideConnection` over several
attempts to connect, each with queues and tasks of its own.  `listens` is the
attempt whose ClientAsyncMessages it reads and `owns` the one whose other
queues it holds: `reconnect` moves both, and a mutant shows what happens if it
forgets one.  The state Connected carries a QUIC handle, here `handle`.
The channels are one status per attempt, `tasks[a]`.  `sharedClientId` is the
Cargo feature; both builds are checked in one run.  `raised` are the events of
the attempt in their order, the application's own calls of `disconnect` among
them, so that a loss raised after one is told from a loss before it.

**`ServerEndpoint`** is the server: `inbox` is the bounded queue of
ServerAsyncMessages, `phase[p]` the progress of a connection from its arrival
over its handshake, its announcement and acknowledgement to its end, `holder[p]`
who owns its PeerConnection, `slot[p][id]` the state of its channels, `clients`
and `clientIdGen` the map and the generator of client ids; `defaultChannel` is
the default of the pool of ids, an Option as a set, which the application may
set to any id; `chosen` remembers that it named one that was not open.
`OpenChannelFails` fails at some client after channels were created for others,
and `LeftOver` is what remains of these: nothing, as they were not registered
yet, which a mutant that registers each at once shows to matter.

**`RecvChannels`** is the receiving half of one connection, of either side:
the accepting task (`listener`), a task per stream (`task`, `read`), the
datagrams' task, the bounded queue `bytes_from_peer` (`queue`), and on the
application's side `buffers` (`recv_channels_payloads`).  The peer is a number
of payloads sent per stream (`peer`) and datagrams that may arrive in any order
or never.  A stream stands for an ordered channel, or, with a single payload,
for a message of an unordered one.  `received`, `refused` and `cleared` are
history: what became of each payload.  `Refused` are the frames the decoder
refuses.

**`ReliableCodec`** is what lies between the two halves: the bytes of one
stream.  The encoder writes whole frames, `Read` moves any number of bytes to
the buffer of FramedRead, and `Decode` is one call of the decoder, whose state
is `Head` or `Data(n)`.  A byte is a digit in base `Base`, and the length field
has `LengthFieldLen` of them.

**`Transfer`** is what either half promises, without tasks, queues and close
signals: a payload that was accepted is pending until it is delivered, once; or
the application is told of it; or it is lost, which only happens on a channel
that broke; and an ordered channel delivers the oldest pending payload, never
one behind a lost one.  `SendChannels!ToQuic` and `RecvChannels!ToApplication`
instantiate it with expressions of their variables, and the property
`Transfers` of each says that it implements this specification.  In the sending
half "delivered" is `wire`, "pending" what is in a queue that somebody still
owns, in an encoder or in a message task, and a channel breaks when the
transport or a payload fails, its CreateChannel message is dropped, or a task
ended before it took what a reopened client sent.  In the receiving half each
stream is a channel, "told" are the refused and cleared payloads, and streams
break when this side closes the connection.

**`KnownHosts`** is the trust on first use of a client process.  `verifier[a]`
is the state of attempt `a`: its copy of the known hosts (`store`), the
certificate and its status, what was decided, the request that waits for the
application, and the rest of the file it is writing.  `hostsFile` is a sequence
of pieces, two a line (host, fingerprint); `TrustAndStore` truncates it and
`WritePiece` writes each piece at the writer's own offset, so that two writers
mix their lines and a reader may find a half of them.  A verification holds one
of the `Workers` threads of the runtime until it ends.  `kept`, `raced`,
`mixed` and `consented` are history: what was stored, whether stores raced (the
later one started from an old copy, or broke off) or overlapped, and which
certificate was accepted under which name.

**`ServerCertificateFiles`** is `retrieve_certificate` over many starts of a
server, with its two files as numbers, `Missing` or `Torn`.
**`CertificateTrust`** composes the two: `Handshake` passes the certificate the
server was started with to `VerifyServerCert`, or any of `CertsOf`, the
certificates that other servers present under a name.  As nothing in the code
compares names, servers may share a certificate, and one name several.

`SendChannels` is the detail behind `tasks[a]` of `ClientConnection` and
`TasksClose(p)` of `ServerEndpoint`: what these assume (tasks end once the
PeerConnection is dropped) are the properties `DroppedIsReleased` and
`DisconnectedIsClosed` checked of it, both for a peer that reads what it is
sent.

The theorems are in modules of their own: **`SendChannelsProofs`** and, for the
refinement of `Transfer`, **`SendChannelsRefinement`**,
**`ClientConnectionProofs`**, **`ServerEndpointProofs`**,
**`RecvChannelsProofs`** (with its refinement), **`ReliableCodecProofs`** and
**`CertificateTrustProofs`** (of the composition, hence of `KnownHosts` and
`ServerCertificateFiles` together).  **`DataFacts`** has the facts about numbers
and sequences that they share.  **`MC*`** modules give TLC its instances.

## Runs

| Run | Shows |
|---|---|
| `SendServer` | server, two channels, ordered or unordered, one after the other under one id, one stream for both, two payloads, a peer that reads when it likes: `OrderedDelivery`, `NothingLost`, `ClosedAfterTasks`, the refinement of `Transfer`; for a peer that reads, what was accepted is sent even while another channel waits for the stream (`AcceptedIsSent`), and the connection of a disconnected client closes (`DisconnectedIsClosed`) |
| `SendClient` | client, ordered or unreliable channels, an oversized payload, failure to connect, a Connected message that reopens a disconnected client: the refinement of `Transfer` (which has order, single delivery and no loss on a channel that did not break), and, for a peer that reads, `DroppedIsReleased` even for a channel that waits for a stream which the other one holds until the peer has read it.  The invariants of `SendServer` are proved for both sides |
| `ClientConnection` | two attempts, both builds: no stale message, payload or handle after a reconnect; sensible events, none of the loss of a connection that was over; losses noticed; attempts end, but for one that waits for a client id the server never sends; abandoned ones are closed |
| `ServerEndpoint` | two connections, two channel ids, an inbox of capacity one: channels agree over all clients and free ids are free, even after an open or a close that failed half-way, late messages hit nobody else, sensible events, everybody served, removed and closed |
| `RecvChannels` | three payloads for a buffer of two, a channel beyond the limit, a refused frame, a queue of two: no payload vanishes silently or is there twice, streams stay in order, nothing waits forever, the tasks end with the connection; the streams implement `Transfer` |
| `CertificateTrust` | three attempts to reach two servers, which may present the same certificate, two worker threads, a server that crashes and restarts in every mode: nothing is trusted that was not consented to for some host, nor for another host unless writers mixed their lines (`TrustedWasConsented`); what was stored is recognised unless stores raced or broke off (`KnownIsRecognised`); files that block a start were broken off (`UnloadableWasBrokenOff`); a server that saves its certificate keeps its identity (`SavedIsRecognised`); every attempt ends (`AttemptsEnd`) |
| `ReliableCodec` | three payloads of every size up to the limit, in chunks of any size: what is decoded is what was encoded, nothing stays behind, only a frame above the limit is an error (which a payload of exactly `max_frame_size` is, as the decoder counts the channel id) |
| `SendClientNeverCloses` (violation) | a client that disconnects while connecting never closes: the signal came before its receivers |
| `SendServerDiscards` (violation) | a server that disconnects a client drops the payloads of a channel whose CreateChannel message is still queued |
| `SendClientOversized` (violation) | one oversized payload makes the client drop what its other reliable channels have queued |
| `ClientDisconnected` (violation) | a Connected message handled after `disconnect` makes the connection Connected again |
| `ServerClosesHalf` (violation) | a failing `close_channel` leaves the channel open for some clients |

The five violations are disagreements of the code with a comment beside it.
`PROJECT.json` quotes the comments under "findings", together with three more,
which passing runs reach and whose properties exempt them by name: the limit of
the codec (`FailsOnlyIfTooLong`), the connecting task that panics
(`ConnectingEnds`) and stores of the hosts file that race
(`KnownIsRecognised`).  Every property of a passing run has a mutant of a mapped
definition that breaks it.

### Bounds

Two channels are enough for one to hold up, outlive or drop the other, and for
an id to be reused; two payloads for order and gaps, in a queue of one, which
is full while the other payload is being written; a CreateChannel queue of two
for the spawner to stop with messages queued.  On a connection whose payloads
are all sendable no more can interact: tasks of different channels share only
the close signal, the keepalive count, the LostConnection flag and the
transport.  Two attempts are one reconnect, with one attempt left behind.  Two
peers and an inbox of one make a watcher and an announcement compete for one
place; two ids let a channel be opened while another one is leaked.  In
`RecvChannels` a stream of three and a datagram share a buffer of two, so that
it overflows from either; their channel id comes before any lower one, so that
the gap is filled; a queue of two is full while a third task waits.  In
`ReliableCodec` base 3 with two digits has lengths of one and of two digits and
frames one above the limit; three frames let a chunk hold the end of one, a
whole one and the start of another.  In `CertificateTrust` the first server
gets two attempts, so that the second may find it changed, and the attempt to
another host makes two writers with different lines; two certificates are one
lost and one new; two worker threads are enough for one attempt to work while
another one blocks, and few enough for all to be blocked.  The certificate of
the second server is the one the first server gets after it lost its own, so
that a mixed line can make one trusted for the wrong host.

In the passing runs of `SendChannels` one id serves both channels, so that the
second is opened when the first was closed, while the first one's task may still
drain and its stream still be unread: this is where channels get in each
other's way, and where an id is used again.  (The violations have two ids.)  A
`Window` of one makes every write wait for the peer, and one stream makes the
second channel, or a second message, wait for the first.

The bounds of the model that the code does not have are `Channels`,
`MaxPayloads`, `MaxAttempts`, `Peers`, `Streams`, `Lengths`, `Datagrams`,
`Attempts`, `Hosts` and `MaxCertificates`; the capacities (512 CreateChannel
messages, 150 payloads, 100 messages, 256 ids, 100 streams, the worker threads)
are constants, and so is `Window`, which counts payloads where QUIC counts
bytes.  No symmetry is used, as most runs check liveness too.

Deadlock is not checked: a connection that is closed, or a server that was
stopped, really has nothing more to do.

### Fairness

Weak fairness of a task stands for the tokio runtime, which polls every task
that was woken; weak fairness of the handling of messages for the Bevy systems
that run on every frame.  On the server, `DropConnection` is fair as it is the
end of the same call.  In `ServerEndpoint` a task that waits for a place in
`inbox` competes with others, and gets one because tokio's bounded queues serve
senders in order: hence strong fairness there, and in `RecvChannels` for the
tasks that wait for a place in the queue of received payloads.  In
`KnownHosts` a verification goes on once it was called; the application need
not answer, but Bevy drops an event after two frames, and the answer's sender
with it.  The server's process has no fairness, and the application owes
nothing: opening, sending, disconnecting have no fairness.

The peer owes nothing either: `PeerReads` has no fairness, and with a peer that
does not read, a write is simply not enabled.  The drain of a channel listens
to no close signal, and the server's keep-alive (`server.rs:254-256`) keeps
such a connection from timing out, so that a task, the spawner and the
connection may stay for ever.  `AcceptedIsSent`, `DisconnectedIsClosed` and
`DroppedIsReleased` therefore have the premise `PeerReadsAll`, that again and
again the peer has read all that was sent.  The fairness of `TasksClose` in
`ClientConnection` and `ServerEndpoint`, which stands for them, holds for a
peer that reads, and `AbandonedIsClosed` and `DroppedIsClosed` say no more.

A handshake that stalls is ended by QUIC's idle timeout, as no keep-alive is
sent before it is complete.  The wait for the client id is not: the server keeps
the connection alive, and one whose application never acknowledges the client,
or that is built without `shared-client-id`, sends no id.  Neither receiving the
id nor failing to is fair on an open connection, and `ConnectingEnds` exempts
the attempt that waits for ever.

## Proofs

Every theorem is about all values of the constants that satisfy the named
ASSUMEs of the module it is about: any numbers of channels, ids, payloads,
attempts, peers, streams, hosts and certificates, any capacities and limits.
These say no more than that sets and numbers are of the kind the code has
(`Nat`, finite where a `HashMap` or a pool counts them, a queue of at least one
place), that `None` is not one of the things it stands in for, and, in
`ReliableCodec`, that the limit of the encoder fits the length field.  Nothing
is assumed away for the disagreements listed under "findings": the theorems are
about the program that has them.

In each module only a strengthening of the properties is inductive: `IInv`, a
conjunction of parts that have a name and a comment each.  A part has one lemma
for the step, with one case per action, and the theorem `Inductive` says
`Spec => []IInv`, from which the others follow.

**Sending half** (`TypeCorrect`, `ClosedLast`, `NothingIsLost`, `OrderIsKept`).
The lemmas `TaskLocal` and `ApplicationLocal` say what any step does to one
channel and serve several parts of the invariant:

- `CreateQueueInv`: a queued CreateChannel message is for a channel that waits
  for its task, and there is one message each, so that creating a task never
  restarts one;
- `LifecycleInv`: tasks live only between the start of the spawner and its end,
  and the connection is closed by a spawner that is gone.  `ClosedAfterTasks`
  follows from it;
- `UnusedInv`: a channel that was never opened carries nothing, so that a fresh
  channel starts with `accepted` equal to what is under way;
- `NumberedInv`: whatever is under way was numbered before `nextPayload`, so
  that the next payload comes last, and an oversized payload under way means
  that the connection is not `Healthy`;
- `NotReportedInv`: a healthy connection is never reported lost, hence never
  closed with the reason PeerClosed, the only one with which a task drops its
  queue.  `NothingLost` needs it, and it holds for a client that is reopened
  too: the watcher's message can only come when the connection has ended;
- `LateInv`: what is accepted after a task's last look at its queue is still in
  the queue when the task ends.  This is the one exception of `NothingLost`
  (`Missed`), and it is the client's: while a server's connection is open, a
  task ends only if its channel was closed, and takes no payload any more;
- `OrderInv`: the wire, the encoder and the queue of an ordered channel are
  consecutive pieces of one increasing sequence, the encoder holds one frame at
  most, and while the transport is open and somebody owns the queue nothing
  accepted is missing from the three.  A write that fails leaves a gap, but
  then the transport is not open any more and nothing comes after the gap.

`SendChannelsRefinement!ImplementsTransfer` is `Spec => Transfers`.  It needs
`PlacesInv` besides: what was accepted is what was not too large (`Accounted`),
a payload is in one place at a time (`Once`), and buffers and message tasks
belong to the channel types that have them (`Typed`).  Opening, accepting and
handing over are the steps of `Transfer` on that one channel, and whatever
breaks or ends channels, many at once included, is one `Lose`.  A channel is
broken, in the sense of `Transfer`, when the transport failed, a payload was too
large, its CreateChannel message was dropped, or it missed payloads of a
reopened client; on a server the last never happens.

**Client connection** (`TypeCorrect`, `HandleIsCurrent`, `PayloadsAreCurrent`,
`EventsAreSensible`), for any number of attempts:

- `CurrentInv`: `listens` and `owns` are the latest attempt;
- `UntouchedInv`: an attempt to come has no tasks, one that connects has no
  watcher;
- `MailboxInv`: the task of an attempt and its watcher tell one message each,
  the result being the task's last act; two places of the queue are enough;
- `EventsInv`: a result that was raised is not in the queue any more, and a
  connection that is over (failed, lost or disconnected) is in the state
  Disconnected unless it was announced since, so that no loss is raised of it.

**Server endpoint** (`TypeCorrect`, `ChannelsAreForAll`, `FreeIdsAreFree`,
`LateMessagesAreOwn`, `EventsAreSensible`), for any number of peers:

- `IdsInv`: client ids are given once and in order, `clientIdGen` counts the
  peers that have one, and a client is found under its own;
- `StagesInv`: how far a connection must have come to have a PeerConnection, an
  id, an acknowledgement, a watcher;
- `MessagesInv`: no connection is announced twice in the queue, and a message
  about the end of one comes from a watcher that is done, so that it is the
  last about that id;
- `EventsInv`: a peer without an id raised no event, a client that is in the
  map was not disconnected;
- `ChannelsInv`: opened channels and free ids are apart; a free id is the
  default channel only if the application named it when it was not open
  (`chosen`).

**Receiving half** (`TypeCorrect`, `InOrderOfSending`, `NothingVanishes`,
`ImplementsTransfer`).  The loop of a dispatch is the recursive function in
`AfterAll`; that a function which makes each of its turns exists is proved by
hand (`AfterAllTurns`), and what the turns keep is `LoopOK`.

- `PlaceInv`: the payloads of one source are in their order across the places
  they pass through: what the application has, then the buffers, then the
  queue, then what a task holds; the places are disjoint;
- `SortedInv`: they are in order within the queue and each buffer;
- `AccountedInv`: until the connection is closed, every payload that was read
  is in one of the places;
- `CloseInv`: the close and the drop come from the application, which noticed.

**Reliable codec** (`TypeCorrect`, `DecodedAsSent`, `NothingStays`,
`FailsForLength`), for every base and width of the length field, all payloads
and every way to cut the stream.  `RoundTrip` says that `GetUint` reads what
`PutUint` wrote, from `DivisionTwice` and an induction over the digits.
`StreamInv` says that the digits of a length that was read, the buffer and what
is on the stream are the frames behind those decoded; `SplitFront`, that two
ways to cut one sequence agree, takes the next frame off it.  `HeadInv` (the
length that was read is the next frame's), `PrefixInv` and `WaitInv` (the
decoder waits only for bytes it needs) complete it.

**Certificates** (`TypeCorrect`, `TrustIsFromConsent`, `StoredIsRecognised`,
`BrokenPairsWereBrokenOff`, `SavedCertificatesLast`), for any behaviour of the
client and every mode of the server:

- `AttemptInv`: what a verification decides comes from its own copy of the known
  hosts and the certificate it was presented with;
- `ApprovedInv`: wherever a certificate gets to, through files of several
  writers and copies of files half-written, it was approved once, for some host.
  No assumption about races is needed for it;
- `PairsInv`: as long as stores did not overlap, every line has the certificate
  of its own host, as the file is what its only writer has written of pairs that
  were approved;
- `StoreInv`: as long as stores did not race, the file is what was stored, or
  the beginning of what its only writer is going to write.  It rests on
  `FilesReadBack`: a file that was written can be read, and says the same;
- `IdentityInv`, `SavedInv`: what the server presented is what it saved, if it
  does not share its name, and two files that do not fit were left by a save that
  broke off.  That certificates belong to one host is assumed nowhere.

Not proved, but model-checked, is the liveness of every component
(`AcceptedIsSent`, `DisconnectedIsClosed`, `DroppedIsReleased`, `LossIsNoticed`,
`ConnectingEnds`, `AbandonedIsClosed`, `LostClientIsRemoved`,
`EveryoneIsServed`, `DroppedIsClosed`, `EverythingIsDispatched`,
`AttemptsEnd`): liveness under fairness is beyond the prover.

## Abstractions, and what is not modelled

- Statistics (the counts that `disconnect_all_clients` subtracts from among
  them), logging, sending helpers of the server (to a group, to all), the
  default channel and the several connections of a client, a second start of an
  endpoint.  The default channel of a server is in the model, the sends that
  use it are not.
- `finish` and the delivery after the hand-over to QUIC are quinn's part;
  `wire` ends there.
- Known hosts given as a value instead of a file, `SkipVerification` and
  `SignedByCertificateAuthority`: nothing is shared or decided there by this
  code.  Base64, PEM and the hashing of certificates: a certificate stands for
  its fingerprint, and a line of the hosts file is two pieces that are there or
  not (a part of a piece is no different from none: it does not parse; lines of
  different lengths, of which two writers could mix parts, are not modelled).
- In `KnownHosts` the other tasks of the client, which a blocked worker thread
  holds up as well, do not appear; the certificate messages of an attempt whose
  connection the application dropped are lost (`LetGo`, `StoreEnds`).
- `max_buffered_payloads_count_per_channel = 0` buffers one payload per channel
  all the same (`recv_channels.rs:97`); the model does so too, but no run has
  this limit.  An empty datagram payload, which the receiver skips, and a
  `max_frame_size` that does not fit the length field are not sent.
- Typed messages, plugins and error types have no behaviour of their own.

## Plan

1. *(done)* `SendChannels`, its proofs; `ClientConnection`; `ServerEndpoint`;
   `RecvChannels`; `ReliableCodec`; `Transfer` and its refinement by both
   halves; `KnownHosts`, `ServerCertificateFiles` and their composition; the
   limit of streams, the default channel of the server; flow control, a client
   that is reopened, certificates that servers share.
2. *(done)* Theorems: every safety invariant that a run checks, and that both
   halves implement `Transfer`.
3. A channel id that is used again while the former channel's task still sends:
   both halves over the streams in between.  Statistics of the endpoint.
