--------------------------- MODULE MCRecvChannels ---------------------------
(* RecvChannels for TLC: a stream that shares channel 1 with a datagram,   *)
(* the three of them too many for its buffer, and whose third frame is     *)
(* refused; a stream of a channel beyond the limit.                        *)
EXTENDS RecvChannels

MCStreams == {1, 2}
MCDatagrams == {3}
MCChannelOf == <<1, 2, 1>>
MCLengths == <<3, 1>>
MCRefused == {<<1, 3>>}

=============================================================================
