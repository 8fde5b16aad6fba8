---------------------------- MODULE ReliableCodec ----------------------------
(***************************************************************************)
(* The frames of one stream of a reliable channel: the encoder on the      *)
(* sending side, the bytes on the stream, which arrive in chunks of any    *)
(* size, and the decoder that FramedRead calls on the receiving side.      *)
(*                                                                         *)
(*     length of the rest (big endian) | channel id | payload              *)
(*                                                                         *)
(* The limits of the two sides are independent: the encoder has the        *)
(* max_frame_size of its channel, the decoder always the default.          *)
(***************************************************************************)
EXTENDS Integers, Sequences, SequencesExt

CONSTANTS
  Base,            \* the values of a byte: 256
  LengthFieldLen,  \* RELIABLE_FRAME_LENGTH_FIELD_LEN: 4 bytes
  ChannelId,       \* a byte
  MaxSent,         \* max_frame_len of the encoder
  MaxReceived,     \* max_frame_len of the decoder
  Payloads,        \* the payloads the application may send
  MaxPayloads      \* how many it sends: a bound of the model

Bytes == 0..(Base - 1)

ASSUME BytesAssumption == Base \in Nat \ {0, 1} /\ ChannelId \in Bytes
ASSUME LengthAssumption == LengthFieldLen \in Nat \ {0}

(* What a digit of the length field counts. *)
Power[k \in 0..LengthFieldLen] == IF k = 0 THEN 1 ELSE Base * Power[k - 1]

(* A max_frame_size beyond the length field is not refused by the code,    *)
(* and would have its length cut to the field.                             *)
ASSUME LimitsAssumption ==
  MaxSent \in Nat /\ MaxReceived \in Nat /\ MaxSent + 1 < Power[LengthFieldLen]
ASSUME PayloadsAssumption == \A p \in Payloads : p \in Seq(Bytes)

VARIABLES
  wire,      \* bytes on the stream that the receiver has not read
  finished,  \* the sender finished the stream
  src,       \* the buffer of FramedRead
  state,     \* DecodeState: <<>> is Head, <<n>> is Data(n)
  reader,    \* FramedRead: "decode", "read" when it waits for bytes, "ended", "failed"
  items,     \* what decode_incoming_reliable_message made of the frames
  sent       \* history: the payloads that the encoder accepted

vars == <<wire, finished, src, state, reader, items, sent>>

HeaderLen == LengthFieldLen + 1

(* Mutant: every digit takes the whole number. *)
PutUintWhole(n) == [i \in 1..LengthFieldLen |-> n \div Power[LengthFieldLen - i]]

(* BufMut::put_uint: the low bytes of n, big endian. *)
PutUint(n) == [i \in 1..LengthFieldLen |-> (n \div Power[LengthFieldLen - i]) % Base]

(* Buf::get_uint. *)
GetUint(bytes) ==
  LET read[k \in 0..Len(bytes)] == IF k = 0 THEN 0 ELSE read[k - 1] * Base + bytes[k]
  IN read[Len(bytes)]

Encode(p) == PutUint(1 + Len(p)) \o <<ChannelId>> \o p

Init ==
  /\ wire = <<>>
  /\ finished = FALSE
  /\ src = <<>>
  /\ state = <<>>
  /\ reader = "decode"
  /\ items = <<>>
  /\ sent = <<>>

-----------------------------------------------------------------------------
(* The sending side.                                                       *)

(* encode; a payload above the limit is refused and leaves nothing behind. *)
Send(p) ==
  /\ ~finished
  /\ Len(sent) < MaxPayloads
  /\ Len(p) <= MaxSent
  /\ wire' = wire \o Encode(p)
  /\ sent' = Append(sent, p)
  /\ UNCHANGED <<finished, src, state, reader, items>>

Finish ==
  /\ ~finished
  /\ finished' = TRUE
  /\ UNCHANGED <<wire, src, state, reader, items, sent>>

-----------------------------------------------------------------------------
(* The receiving side.                                                     *)

(* FramedRead reads once decode had not enough bytes. *)
Read(n) ==
  /\ reader = "read"
  /\ src' = src \o SubSeq(wire, 1, n)
  /\ wire' = SubSeq(wire, n + 1, Len(wire))
  /\ reader' = "decode"
  /\ UNCHANGED <<finished, state, items, sent>>

(* The end of the stream: an error if bytes are left in the buffer. *)
ReadEnd ==
  /\ reader = "read"
  /\ finished
  /\ wire = <<>>
  /\ reader' = IF src = <<>> THEN "ended" ELSE "failed"
  /\ UNCHANGED <<wire, finished, src, state, items, sent>>

(* The task that receives the item splits the channel id off, and panics   *)
(* if there is none.                                                       *)
Deliver(item) ==
  IF item = <<>>
  THEN reader' = "failed" /\ UNCHANGED items
  ELSE /\ items' = Append(items, [channel |-> Head(item), payload |-> Tail(item)])
       /\ UNCHANGED reader

(* Mutant: the length that was read is forgotten. *)
DecodeDataForgets(n, rest) ==
  \/ /\ Len(rest) < n
     /\ src' = rest
     /\ state' = <<>>
     /\ reader' = "read"
     /\ UNCHANGED items
  \/ /\ Len(rest) >= n
     /\ src' = SubSeq(rest, n + 1, Len(rest))
     /\ state' = <<>>
     /\ Deliver(SubSeq(rest, 1, n))

(* decode_data, the rest of the buffer behind a length n that was read. *)
DecodeData(n, rest) ==
  \/ /\ Len(rest) < n
     /\ src' = rest
     /\ state' = <<n>>
     /\ reader' = "read"
     /\ UNCHANGED items
  \/ /\ Len(rest) >= n
     /\ src' = SubSeq(rest, n + 1, Len(rest))
     /\ state' = <<>>
     /\ Deliver(SubSeq(rest, 1, n))

(* Mutant: one byte too many is asked for. *)
HeadIsThereLate == Len(src) > HeaderLen

(* decode_head waits for the channel id too. *)
HeadIsThere == Len(src) >= HeaderLen

(* Mutant: the limit itself is refused. *)
TooLongOrLimit(n) == n >= MaxReceived

(* The length counts the channel id. *)
TooLong(n) == n > MaxReceived

(* decode: the head, unless it was read before, and what follows it. *)
Decode ==
  /\ reader = "decode"
  /\ LET n == GetUint(SubSeq(src, 1, LengthFieldLen))
     IN \/ /\ state # <<>>
           /\ DecodeData(state[1], src)
        \/ /\ state = <<>> /\ ~HeadIsThere
           /\ reader' = "read"
           /\ UNCHANGED <<src, state, items>>
        \/ /\ state = <<>> /\ HeadIsThere /\ TooLong(n)
           /\ reader' = "failed"
           /\ UNCHANGED <<src, state, items>>
        \/ /\ state = <<>> /\ HeadIsThere /\ ~TooLong(n)
           /\ DecodeData(n, SubSeq(src, LengthFieldLen + 1, Len(src)))
  /\ UNCHANGED <<wire, finished, sent>>

-----------------------------------------------------------------------------

Next ==
  \/ \E p \in Payloads : Send(p)
  \/ Finish
  \/ \E n \in 1..Len(wire) : Read(n)
  \/ ReadEnd
  \/ Decode

Spec == Init /\ [][Next]_vars

-----------------------------------------------------------------------------
(* Properties.                                                             *)

TypeOK ==
  /\ wire \in Seq(Bytes)
  /\ finished \in BOOLEAN
  /\ src \in Seq(Bytes)
  /\ state = <<>> \/ (Len(state) = 1 /\ state[1] \in 0..MaxReceived)
  /\ reader \in {"decode", "read", "ended", "failed"}
  /\ \A i \in DOMAIN items : items[i] \in [channel : Bytes, payload : Seq(Bytes)]
  /\ \A i \in DOMAIN sent : sent[i] \in Payloads

(* The frames as they should be received. *)
Frames(payloads) ==
  [i \in DOMAIN payloads |-> [channel |-> ChannelId, payload |-> payloads[i]]]

(* However the stream is cut into chunks, the frames that are decoded are  *)
(* those that were encoded, in order, with their channel and their bytes   *)
(* (the decoder keeps the length it read between two calls).               *)
DecodesWhatWasSent == IsPrefix(items, Frames(sent))

(* Once every byte was read nothing stays in the decoder: the last frame   *)
(* does not wait for the next one to arrive.                               *)
NothingIsStuck ==
  reader \in {"read", "ended"} /\ wire = <<>> => items = Frames(sent)

(* The stream is given up only because of a frame above the limit of the   *)
(* receiver, never because of where a chunk ended.  The decoder counts the *)
(* channel id and the encoder does not, so that with equal limits on both  *)
(* sides a payload of exactly the limit is accepted and ends its stream.   *)
FailsOnlyIfTooLong ==
  reader = "failed" => \E i \in DOMAIN sent : Len(sent[i]) + 1 > MaxReceived

=============================================================================
