--------------------------- MODULE MCSendChannels ---------------------------
(* SendChannels for TLC: small sets of ids, channels, kinds and payloads. *)
EXTENDS SendChannels

MCIds == {0, 1}
MCOneId == {0}
MCChannels == 1..2
MCOneChannel == 1..1
MCReliable == {"OrderedReliable", "UnorderedReliable"}
MCMixed == {"OrderedReliable", "Unreliable"}
NoPayload == {}
FirstPayload == {1}
SecondPayload == {2}

=============================================================================
