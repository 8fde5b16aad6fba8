-------------------------- MODULE MCReliableCodec --------------------------
(* ReliableCodec for TLC: bytes of three values, a length of two bytes, and *)
(* payloads that look like headers.                                         *)
EXTENDS ReliableCodec

MCPayloads == {<<>>, <<0>>, <<0, 1>>, <<0, 2>>, <<1, 0, 1>>, <<0, 0, 0, 1>>}

=============================================================================
