--------------------------- MODULE MCPacketStream ---------------------------
(* Instances of PacketStream small enough for TLC.  Payloads: two samples, or two
   that look like the magic (the firmware fills every packet). *)
EXTENDS PacketStream

AboutToTurn    == {14}
BothVersions   == {1, 2}
MagicPayloads  == {<<7, 7>>, Magic}
TextLogs       == {<<0, Magic[1]>>}
OtherDatagrams == {<<0>>, Magic \o <<1, 1, 5>>, Magic \o <<1, 0, 5>>}
=============================================================================
