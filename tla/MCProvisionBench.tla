-------------------------- MODULE MCProvisionBench --------------------------
(* Instances of ProvisionBench small enough for TLC.  The first form's port has a
   successor, the other one's has not; board "a" brings a development build, board "b"
   has no sensor. *)
EXTENDS ProvisionBench

TwoSlots    == {1, 2}
TwoBoards   == {"a", "b"}
OneFaulty   == {"b"}
OneOutdated == {"a"}
SomeForms   == {[transport |-> "wifi", ssid |-> "net", port |-> 1],
                [transport |-> "wifi", ssid |-> "net", port |-> 2],
                [transport |-> "usb", ssid |-> NoSsid, port |-> 0]}
AllPackages == {"deploy", "dev", "broken"}
=============================================================================
