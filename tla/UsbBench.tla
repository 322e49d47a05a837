------------------------------ MODULE UsbBench ------------------------------
(***************************************************************************)
(* The workbench both tools work on: boards in USB sockets, and the parts  *)
(* of sensor-setup-py that the setup tool and the board check share.       *)
(*                                                                         *)
(*   ports.py      list_ports: what is connected, in the order of sockets  *)
(*   esp_flash.py  preflight, run_esptool and what it leaves on the board  *)
(*   usb_reset.py  recover: the reset after which a board has another tty  *)
(*   boot_log.py   what a board reports after a reset                      *)
(*                                                                         *)
(* A socket has a number that stands for its by-path name.  A board is its *)
(* MAC address.  The kernel hands out the lowest free tty number.          *)
(***************************************************************************)
EXTENDS Integers, Sequences, FiniteSets, SequencesExt, FiniteSetsExt

CONSTANTS
  Slots,     \* USB sockets
  Boards,    \* MAC addresses
  Faulty,    \* boards without a working sensor
  Outdated,  \* boards that come with a development build
  MaxTty,    \* tty numbers are 0..MaxTty
  MaxPort,   \* UDP ports are 1..MaxPort; NVS keeps them modulo MaxPort + 1 (2^16)
  MaxFaults, \* bound: stalls, and a cable pulled before the first of them
  MaxUses    \* bound: jobs of the setup tool and runs of the board check

NoBoard == "no board"

ASSUME BenchAssumption ==
  /\ Slots \subseteq Nat /\ IsFiniteSet(Slots)
  /\ IsFiniteSet(Boards) /\ Faulty \cup Outdated \subseteq Boards /\ NoBoard \notin Boards
  /\ MaxTty \in Nat /\ MaxTty >= Cardinality(Slots)
  /\ MaxPort \in Nat \ {0} /\ MaxFaults \in Nat /\ MaxUses \in Nat

NoTty   == -1
Ttys    == 0..MaxTty

NoSsid  == ""   \* an empty entry

\* What a board may be told: the access point matters over WiFi only.
Configs == [transport : {"wifi", "usb"}, ssid : {"net", "unused"}, port : 0..MaxPort]

Blank   == [transport |-> "blank", ssid |-> NoSsid, port |-> 0]    \* erased partition
Torn    == [Blank EXCEPT !.transport = "torn"]                 \* half written
Factory == [transport |-> "wifi", ssid |-> "unused", port |-> 1]

VARIABLES
  socket,   \* [Slots -> the board in it]
  tty,      \* [Slots -> the number of its tty]
  stalled,  \* slots whose bulk-OUT endpoint hangs
  fw,       \* [Boards -> "deploy", "dev" (ignores NVS), "check", "broken"]
  nvs,      \* [Boards -> what its NVS partition holds]
  faults    \* bound

bench == <<socket, tty, stalled, fw, nvs, faults>>

BenchTypeOK ==
  /\ socket \in [Slots -> Boards \cup {NoBoard}]
  /\ tty \in [Slots -> Ttys \cup {NoTty}]
  /\ \A s, r \in Slots : s # r /\ tty[s] # NoTty => tty[s] # tty[r]
  /\ \A s \in Slots : tty[s] = NoTty <=> socket[s] = NoBoard
  /\ stalled \subseteq {s \in Slots : socket[s] # NoBoard}
  /\ fw \in [Boards -> {"deploy", "dev", "check", "broken"}]
  /\ nvs \in [Boards -> Configs \cup {Blank, Torn}]
  /\ faults \in 0..MaxFaults

-----------------------------------------------------------------------------
(* What the code finds out about the bench *)

SlotsAt(p) == {s \in Slots : tty[s] = p /\ p # NoTty}

BoardAt(p) == IF SlotsAt(p) = {} THEN NoBoard ELSE socket[CHOOSE s \in SlotsAt(p) : TRUE]

LowestFree(taken) == Min(Ttys \ taken)

TakenTtys == {tty[s] : s \in Slots}

\* ports.py list_ports: [slot, dev] in the order of natural_key.
ListPorts ==
  LET used   == {s \in Slots : tty[s] # NoTty}
      Nth(i) == CHOOSE s \in used : Cardinality({r \in used : r <= s}) = i
  IN [i \in 1..Cardinality(used) |-> [slot |-> Nth(i), dev |-> tty[Nth(i)]]]

\* An endpoint hangs, or hung before.
MayStall(p) == SlotsAt(p) \cap stalled # {} \/ faults < MaxFaults

\* esp_flash.py preflight.  The port may be held by another program, or closed to us.
Preflight(p) ==
  IF SlotsAt(p) = {} THEN {"error"}
  ELSE {"error"} \cup (IF SlotsAt(p) \cap stalled # {} THEN {} ELSE {"ok"})
                 \cup (IF MayStall(p) THEN {"stall"} ELSE {})

\* How run_esptool and the callers' count of "Hash of data verified." can end.
\* "unverified": exit code 0, but not every image was confirmed.
Esptool(p) ==
  IF SlotsAt(p) = {} THEN {"error"}
  ELSE IF SlotsAt(p) \cap stalled # {} THEN {"stall"}
  ELSE {"ok", "error", "unverified"} \cup (IF MayStall(p) THEN {"stall"} ELSE {})

\* After a write that ended with r, a partition that held `old' and gets `new'.
Written(old, new, half, r) ==
  CASE r = "ok"         -> {new}
    [] r = "unverified" -> {new, half}
    [] OTHER            -> {old, half, new}

\* A stall is a new one unless the endpoint hung before.
StallFrom(p, r) ==
  /\ stalled' = IF r = "stall" THEN stalled \cup SlotsAt(p) ELSE stalled
  /\ faults' = IF r = "stall" /\ SlotsAt(p) \cap stalled = {} THEN faults + 1 ELSE faults

WriteFw(p, image, r) ==
  /\ r \in Esptool(p) \cup {"cancel"}
  /\ IF BoardAt(p) = NoBoard THEN UNCHANGED fw
     ELSE \E x \in Written(fw[BoardAt(p)], image, "broken", r) :
            fw' = [fw EXCEPT ![BoardAt(p)] = x]
  /\ StallFrom(p, r)
  /\ UNCHANGED <<socket, tty, nvs>>

WriteNvs(p, image, r) ==
  /\ r \in Esptool(p) \cup {"cancel"}
  /\ IF BoardAt(p) = NoBoard THEN UNCHANGED nvs
     ELSE \E x \in Written(nvs[BoardAt(p)], image, Torn, r) :
            nvs' = [nvs EXCEPT ![BoardAt(p)] = x]
  /\ StallFrom(p, r)
  /\ UNCHANGED <<socket, tty, fw>>

\* esptool reading (flash_id, read_flash) changes nothing on the board.
ReadBoard(p, r) ==
  /\ r \in Esptool(p) \ {"unverified"}
  /\ StallFrom(p, r)
  /\ UNCHANGED <<socket, tty, fw, nvs>>

-----------------------------------------------------------------------------
(* usb_reset.py *)

\* Slip: by-id names one link for all boards of this bridge, and the one that was
\* enumerated last has it.
ById(s, q) ==
  LET others == {tty[r] : r \in Slots \ {s}} \ {NoTty}
  IN IF others = {} THEN {q} ELSE others

\* stable_id, wait_for_port: where the by-path link of socket s leads, now that its
\* board has tty q.
ByPath(s, q) == {q}

\* The device comes back, with its old number or, if somebody still has the old tty
\* open, with the lowest free one.
Recover(p, newPort) ==
  \E s \in SlotsAt(p), q \in {p, LowestFree(TakenTtys)} :
    /\ tty' = [tty EXCEPT ![s] = q]
    /\ stalled' = stalled \ {s}
    /\ newPort \in ByPath(s, q)
    /\ UNCHANGED <<socket, fw, nvs, faults>>

\* No such device any more, no permission, or it does not come back in time.
RecoverFails == UNCHANGED bench

-----------------------------------------------------------------------------
(* boot_log.py *)

\* What the firmware of a board works with: the stored settings or its defaults; a
\* development build joins the access point it was built for.
Applied(b) ==
  LET stored == IF nvs[b] \in Configs THEN nvs[b] ELSE Factory
  IN IF fw[b] = "dev" THEN [stored EXCEPT !.ssid = "kconfig"] ELSE stored

NoLog == [cfg |-> Blank, dev |-> FALSE, streaming |-> FALSE, sensorMissing |-> FALSE]

\* parse_boot_log of what a reset board says.  The access point is printed only where
\* it is read from NVS.  The capture stops early and may miss lines; a board with
\* another or a broken firmware says nothing it knows.
BootLogs(b) ==
  IF b = NoBoard \/ fw[b] \in {"check", "broken"} THEN {NoLog}
  ELSE {NoLog} \cup
       {[cfg |-> [Applied(b) EXCEPT !.ssid = IF fw[b] = "dev" \/ Applied(b).transport = "usb"
                                             THEN NoSsid ELSE @],
         dev |-> fw[b] = "dev",
         streaming |-> up /\ b \notin Faulty,
         sensorMissing |-> seen /\ b \in Faulty] : up \in BOOLEAN, seen \in BOOLEAN}

\* Fields of the log that differ from what was entered.  Over USB the server is not
\* compared, an access point that was not printed neither.
Mismatch(log, cfg) ==
  /\ log.cfg # Blank
  /\ \/ log.cfg.transport # cfg.transport
     \/ log.cfg.transport # "usb" /\ log.cfg.port # cfg.port
     \/ log.cfg.ssid \notin {NoSsid, cfg.ssid}

-----------------------------------------------------------------------------
(* Hands and cables *)

Unplug(s) ==
  /\ faults = 0 /\ MaxFaults > 0 /\ socket[s] # NoBoard
  /\ socket' = [socket EXCEPT ![s] = NoBoard]
  /\ tty' = [tty EXCEPT ![s] = NoTty]
  /\ stalled' = stalled \ {s}
  /\ faults' = faults + 1
  /\ UNCHANGED <<fw, nvs>>

Plug(b, s) ==
  /\ socket[s] = NoBoard /\ \A r \in Slots : socket[r] # b
  /\ socket' = [socket EXCEPT ![s] = b]
  /\ tty' = [tty EXCEPT ![s] = LowestFree(TakenTtys)]
  /\ UNCHANGED <<stalled, fw, nvs, faults>>
=============================================================================
