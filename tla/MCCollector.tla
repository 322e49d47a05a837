---------------------------- MODULE MCCollector -----------------------------
(* Instances of Collector small enough for TLC: two sensors, and channel objects enough for
   both of them beside two runs that have outlived theirs. *)
EXTENDS Collector

TwoHoles == {1, 2}
TwoNames == {1, 2}
TwoDins  == {1, 2}
OnePort  == {9}
FourIds  == 1..4

AllModes == {"window", "manual", "auto"}

\* The disk has room for one short run, not for two, and for no long one.
ShortAndLong == {2, 3}

BothHoles == [plugged |-> {1, 2}, cfg |-> [slots |-> <<1, 2>>, din |-> <<1, 2>>, wifi |-> <<0, 0>>]]

\* Nothing is set up; both holes are; one hole with an input of its own, and sensor 2
\* over WiFi.
FirstSetups ==
  {[plugged |-> {1, 2}, cfg |-> [slots |-> <<0, 0>>, din |-> <<0, 0>>, wifi |-> <<0, 0>>]],
   BothHoles,
   [plugged |-> {1}, cfg |-> [slots |-> <<1, 0>>, din |-> <<2, 0>>, wifi |-> <<0, 9>>]]}
=============================================================================
