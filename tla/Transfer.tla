------------------------------ MODULE Transfer ------------------------------
(***************************************************************************)
(* What either half of a connection promises about the payloads of its     *)
(* channels, without a word on queues, tasks and close signals: a payload  *)
(* that was accepted is delivered once, or the application is told that it *)
(* will not be, or it is lost, which happens only on a channel that broke. *)
(* On an ordered channel a payload is delivered after all the earlier ones *)
(* that the application was not told of.                                   *)
(*                                                                         *)
(* For SendChannels, accepted are the payloads of which send_payload said  *)
(* Ok, and delivered means with QUIC.  For RecvChannels, accepted are those*)
(* the peer put into a stream, and delivered those the application took.   *)
(*                                                                         *)
(* Payloads are numbers, in the order in which they are accepted.  Many    *)
(* payloads may be lost, or refused, in one step, hence the form of Tell   *)
(* and Lose.                                                               *)
(***************************************************************************)
EXTENDS Integers, Sequences

CONSTANTS Channels, Payloads

VARIABLES
  ordered,    \* the channels that are ordered
  broken,     \* the channels that need not deliver any more
  pending,    \* for each channel, the payloads that are on their way,
  delivered,  \* those that were delivered, in this order,
  told,       \* those the application was told about,
  lost        \* and those that were dropped silently

vars == <<ordered, broken, pending, delivered, told, lost>>

Delivered(c) == {delivered[c][i] : i \in DOMAIN delivered[c]}

Init ==
  /\ ordered \in SUBSET Channels
  /\ broken = {}
  /\ pending = [c \in Channels |-> {}]
  /\ delivered = [c \in Channels |-> <<>>]
  /\ told = [c \in Channels |-> {}]
  /\ lost = [c \in Channels |-> {}]

(* The kind of a channel is known once it is opened. *)
Open(c) ==
  /\ pending[c] = {} /\ delivered[c] = <<>> /\ lost[c] = {}
  /\ ordered' = ordered \cup {c}
  /\ UNCHANGED <<broken, pending, delivered, told, lost>>

Accept(c, p) ==
  /\ \A q \in pending[c] \cup Delivered(c) \cup told[c] \cup lost[c] : q < p
  /\ pending' = [pending EXCEPT ![c] = @ \cup {p}]
  /\ UNCHANGED <<ordered, broken, delivered, told, lost>>

Deliver(c, p) ==
  /\ p \in pending[c]
  /\ c \in ordered => \A q \in pending[c] \cup lost[c] : p <= q
  /\ pending' = [pending EXCEPT ![c] = @ \ {p}]
  /\ delivered' = [delivered EXCEPT ![c] = Append(@, p)]
  /\ UNCHANGED <<ordered, broken, told, lost>>

(* The application is told that some payloads will not come. *)
Tell ==
  /\ \A c \in Channels : told[c] \subseteq told'[c] /\ told'[c] \subseteq told[c] \cup pending[c]
  /\ pending' = [c \in Channels |-> pending[c] \ told'[c]]
  /\ UNCHANGED <<ordered, broken, delivered, lost>>

(* Channels break, and channels that are broken lose payloads. *)
Lose ==
  /\ broken \subseteq broken' /\ broken' \subseteq Channels
  /\ \A c \in Channels :
       /\ lost[c] \subseteq lost'[c] /\ lost'[c] \subseteq lost[c] \cup pending[c]
       /\ c \notin broken' => lost'[c] = lost[c]
  /\ pending' = [c \in Channels |-> pending[c] \ lost'[c]]
  /\ UNCHANGED <<ordered, delivered, told>>

Next ==
  \/ Tell
  \/ Lose
  \/ \E c \in Channels : Open(c)
  \/ \E c \in Channels, p \in Payloads : Accept(c, p) \/ Deliver(c, p)

Spec == Init /\ [][Next]_vars

=============================================================================
