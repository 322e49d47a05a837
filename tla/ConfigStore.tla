----------------------------- MODULE ConfigStore -----------------------------
(***************************************************************************)
(* The settings in the device's flash (components/config_manager, on       *)
(* ESP-IDF's NVS), key by key, with the power failing at any moment: what  *)
(* the serial protocol's task writes and erases, what app_main reads while *)
(* it boots, and what the setup tool writes into a board that is held in   *)
(* its boot loader.                                                        *)
(*                                                                         *)
(* NVS promises that nvs_commit leaves everything set before it in the     *)
(* flash.  What has been set and not committed is read back, but a power   *)
(* cut may find it there or not.  DeviceBoot takes each operation of this  *)
(* module as one step and looks at the WiFi instead.                       *)
(***************************************************************************)
CONSTANTS
  Nets,     \* networks that accept the device
  Open,     \* those among them without a password
  Absent,   \* of a key that is not stored
  Faults    \* which misfortunes may happen

FaultKinds ==
  { "powerCut",    \* the power fails, whatever the device does
    "writeFails",  \* nvs_set_str, nvs_erase_all or nvs_commit
    "initFails",   \* nvs_flash_init, at first
    "damaged" }    \* nvs_flash_init finds the partition unusable

ASSUME StoreAssumption ==
  /\ Open \subseteq Nets
  /\ Nets \cap {Absent, "", "Kconfig", "none", "erased", "unopened"} = {}
  /\ Absent # ""
  /\ Faults \subseteq FaultKinds

VARIABLES
  nvs,      \* the keys as nvs_get reads them
  flash,    \* what of them a power cut cannot take away
  ready,    \* nvs_flash_init has succeeded: nvs_open does
  main,     \* where app_main stands
  cfg,      \* what it has read
  serial,   \* where the serial protocol's task stands
  new,      \* the network it saves
  answer,   \* history: what the last answer "ok" was about, until the next command;
            \* "unopened" for a reset that could not open the store
  torn,     \* history: an operation has changed a key and has not been finished since
  image,    \* history: the keys at the beginning of this boot
  crossed   \* history: app_main could not read, or keys were erased while it did

storage == <<nvs, flash, ready>>
boot    == <<main, cfg, image, crossed>>
task    == <<serial, new, answer, torn>>
vars    == <<storage, boot, task>>

PassOf(n) == IF n \in Open THEN "" ELSE n

Keys == [ ssid      : Nets \cup {Absent},
          pass      : Nets \cup {"", Absent},
          ip        : {"", "addr", Absent},
          transport : {"udp", "usb", Absent} ]

Blank == [ssid |-> Absent, pass |-> Absent, ip |-> Absent, transport |-> Absent]

\* In a build with CONFIG_WIFI_PREFER_NVS: the build's credentials, and no streaming.
Defaults == [stream |-> "none", ssid |-> "Kconfig", pass |-> "Kconfig"]

Configs == [ stream : {"none", "wifi", "usb"},
             ssid   : Nets \cup {"Kconfig"},
             pass   : Nets \cup {"", "Kconfig"} ]

Reading == {"hasStream", "loadIp", "loadRest", "hasWifi", "loadSsid", "loadPass"}

TypeOK ==
  /\ nvs \in Keys /\ flash \in Keys /\ image \in Keys
  /\ main \in Reading \cup {"off", "up"}
  /\ cfg \in Configs
  /\ serial \in {"idle", "ssid", "pass", "commit", "erase", "commitErase"}
  /\ new \in Nets \cup {Absent}
  /\ serial \in {"ssid", "pass", "commit"} => new \in Nets
  /\ answer \in Nets \cup {"none", "erased", "unopened"}
  /\ ready \in BOOLEAN /\ torn \in BOOLEAN /\ crossed \in BOOLEAN

\* A new board, without power.
Init ==
  /\ nvs = Blank /\ flash = Blank /\ ready = FALSE /\ image = Blank
  /\ main = "off" /\ cfg = Defaults /\ crossed = FALSE
  /\ serial = "idle" /\ new = Absent
  /\ answer = "none" /\ torn = FALSE

-----------------------------------------------------------------------------
(* Power and the setup tool *)

Settings(n, a, t) == [ssid |-> n, pass |-> PassOf(n), ip |-> a, transport |-> t]

\* The tool writes the whole partition: settings, or nothing for a factory reset.
\* Earlier tools wrote an empty address for a board on USB.
HostWrites ==
  /\ main = "off"
  /\ \/ nvs' = Blank
     \/ \E n \in Nets, a \in {"", "addr"}, t \in {"udp", "usb"} :
          /\ a = "" => t = "usb"
          /\ nvs' = Settings(n, a, t)
  /\ flash' = nvs'
  /\ answer' = "none" /\ torn' = FALSE
  /\ UNCHANGED <<ready, boot, serial, new>>

\* config_manager_init erases a partition that it cannot use; with or without success
\* the tasks start.
PowerOn ==
  /\ main = "off"
  /\ \/ /\ ready' \in {TRUE} \cup (IF "initFails" \in Faults THEN {FALSE} ELSE {})
        /\ UNCHANGED <<nvs, flash, answer, torn>>
     \/ /\ "damaged" \in Faults
        /\ nvs' = Blank /\ flash' = Blank /\ ready' = TRUE
        /\ answer' = "none" /\ torn' = FALSE
  /\ main' = "hasStream"
  /\ image' = nvs'
  /\ cfg' = Defaults /\ crossed' = ~ready'
  /\ UNCHANGED <<serial, new>>

\* Each key that was not committed is there or not.
PowerCut ==
  /\ "powerCut" \in Faults
  /\ main # "off"
  /\ nvs' \in { k \in Keys : \A x \in DOMAIN k : k[x] \in {nvs[x], flash[x]} }
  /\ flash' = nvs'
  /\ main' = "off"
  /\ serial' = "idle"
  /\ ready' = FALSE
  /\ UNCHANGED <<cfg, image, crossed, new, answer, torn>>

-----------------------------------------------------------------------------
(* app_main: has_stream, load_stream, has_wifi, load_wifi *)

\* Slip: the rule of before the USB connection: without an address there are no settings.
NeedsAddress == ready /\ nvs.ip \notin {"", Absent}

config_manager_has_stream == ready /\ (nvs.transport = "usb" \/ nvs.ip \notin {"", Absent})

HasStream ==
  /\ main = "hasStream"
  /\ main' = IF config_manager_has_stream THEN "loadIp" ELSE "hasWifi"
  /\ UNCHANGED <<storage, cfg, image, crossed, task>>

LoadIp ==
  /\ main = "loadIp"
  /\ main' = IF nvs.ip = Absent THEN "hasWifi" ELSE "loadRest"
  /\ UNCHANGED <<storage, cfg, image, crossed, task>>

\* Each of the other keys has a default; that of the transport is UDP.
LoadRest ==
  /\ main = "loadRest"
  /\ \/ nvs.transport = "usb" /\ cfg' = [cfg EXCEPT !.stream = "usb"] /\ main' = "up"
     \/ nvs.transport # "usb" /\ cfg' = [cfg EXCEPT !.stream = "wifi"] /\ main' = "hasWifi"
  /\ UNCHANGED <<storage, image, crossed, task>>

HasWifi ==
  /\ main = "hasWifi"
  /\ main' = IF ready /\ nvs.ssid # Absent THEN "loadSsid" ELSE "up"
  /\ UNCHANGED <<storage, cfg, image, crossed, task>>

LoadSsid ==
  /\ main = "loadSsid"
  /\ \/ nvs.ssid = Absent /\ main' = "up" /\ UNCHANGED cfg
     \/ nvs.ssid # Absent /\ main' = "loadPass" /\ cfg' = [cfg EXCEPT !.ssid = nvs.ssid]
  /\ UNCHANGED <<storage, image, crossed, task>>

\* A missing password is that of an open network.
LoadPass ==
  /\ main = "loadPass"
  /\ cfg' = [cfg EXCEPT !.pass = IF nvs.pass = Absent THEN "" ELSE nvs.pass]
  /\ main' = "up"
  /\ UNCHANGED <<storage, image, crossed, task>>

\* wifi_manager_init calls nvs_flash_init once more.
WifiInit ==
  /\ main = "up" /\ cfg.stream # "usb"
  /\ ~ready
  /\ ready' = TRUE
  /\ UNCHANGED <<nvs, flash, boot, task>>

Main ==
  HasStream \/ LoadIp \/ LoadRest \/ HasWifi \/ LoadSsid \/ LoadPass \/ WifiInit

-----------------------------------------------------------------------------
(* The serial protocol's task: handle_set_wifi after its test, handle_factory_reset *)

\* A test succeeds only if wifi_manager_init did, so after app_main has read.
SaveWifi(n) ==
  /\ serial = "idle" /\ main = "up" /\ cfg.stream # "usb" /\ ready
  /\ serial' = "ssid"
  /\ new' = n
  /\ answer' = "none"
  /\ UNCHANGED <<storage, boot, torn>>

SetSsid ==
  /\ serial = "ssid"
  /\ nvs' = [nvs EXCEPT !.ssid = new]
  /\ torn' = TRUE
  /\ serial' = "pass"
  /\ UNCHANGED <<flash, ready, boot, new, answer>>

\* Slip: an empty password is taken for none, and the old one stays.
PassUnlessEmpty ==
  /\ serial = "pass"
  /\ nvs' = IF PassOf(new) = "" THEN nvs ELSE [nvs EXCEPT !.pass = PassOf(new)]
  /\ serial' = "commit"
  /\ UNCHANGED <<flash, ready, boot, new, answer, torn>>

SetPass ==
  /\ serial = "pass"
  /\ nvs' = [nvs EXCEPT !.pass = PassOf(new)]
  /\ serial' = "commit"
  /\ UNCHANGED <<flash, ready, boot, new, answer, torn>>

\* Slip: the answer is given without a commit.
Uncommitted ==
  /\ serial = "commit"
  /\ answer' = new
  /\ torn' = FALSE
  /\ serial' = "idle"
  /\ UNCHANGED <<storage, boot, new>>

Commit ==
  /\ serial = "commit"
  /\ flash' = nvs
  /\ answer' = new
  /\ torn' = FALSE
  /\ serial' = "idle"
  /\ UNCHANGED <<nvs, ready, boot, new>>

\* save_failed or reset_failed: what has been set by then stays set.
WriteFails ==
  /\ "writeFails" \in Faults
  /\ serial # "idle"
  /\ serial' = "idle"
  /\ UNCHANGED <<storage, boot, new, answer, torn>>

FactoryReset ==
  /\ serial = "idle" /\ main # "off"
  /\ serial' = "erase"
  /\ answer' = "none"
  /\ UNCHANGED <<storage, boot, new, torn>>

\* A store that cannot be opened is taken for one that has nothing in it.
NothingToErase ==
  /\ serial = "erase"
  /\ ~ready
  /\ answer' = "unopened"
  /\ serial' = "idle"
  /\ UNCHANGED <<storage, boot, new, torn>>

Erase ==
  /\ serial = "erase"
  /\ ready
  /\ nvs' = Blank
  /\ torn' = TRUE
  /\ crossed' = (crossed \/ main \in Reading)
  /\ serial' = "commitErase"
  /\ UNCHANGED <<flash, ready, main, cfg, image, new, answer>>

CommitErase ==
  /\ serial = "commitErase"
  /\ flash' = nvs
  /\ answer' = "erased"
  /\ torn' = FALSE
  /\ serial' = "idle"
  /\ UNCHANGED <<nvs, ready, boot, new>>

Serial == SetSsid \/ SetPass \/ Commit \/ NothingToErase \/ Erase \/ CommitErase

Next ==
  \/ HostWrites \/ PowerOn \/ PowerCut
  \/ Main \/ Serial \/ WriteFails
  \/ FactoryReset \/ \E n \in Nets : SaveWifi(n)

Spec == Init /\ [][Next]_vars

-----------------------------------------------------------------------------
(* Properties *)

Whole(k) ==
  \/ k.ssid = Absent /\ k.pass = Absent
  \/ k.ssid \in Nets /\ k.pass = PassOf(k.ssid)

\* The two properties below as an inductive invariant: what is known in the middle of an
\* operation, and that a finished one leaves nothing behind that a power cut could take.
StoreInv ==
  /\ ~torn => nvs = flash /\ Whole(flash)
  /\ serial # "idle" => answer = "none"
  /\ main = "off" => serial = "idle"
  /\ serial \in {"pass", "commit", "commitErase"} => torn
  /\ serial \in {"pass", "commit"} => nvs.ssid = new
  /\ serial = "commit" => nvs.pass = PassOf(new)
  /\ serial = "commitErase" => nvs = Blank
  /\ answer \in Nets => ~torn /\ flash.ssid = answer
  /\ answer = "erased" => ~torn /\ flash = Blank

\* The two keys that config_manager_save_wifi writes one after the other belong together,
\* for the device and after a power cut: a name never meets the password of another network,
\* unless an operation has been broken off in between and none has been finished since.
PairIsWhole == ~torn => Whole(nvs) /\ Whole(flash)

\* What handle_set_wifi has answered "saved" to is in the flash, and after the answer
\* "factory_reset_done" nothing is, whatever happens to the power, until the next command or
\* the setup tool changes it.  A store that cannot be opened is answered as done as well.
DoneIsDurable ==
  /\ answer \in Nets => Whole(flash) /\ flash.ssid = answer
  /\ answer = "erased" => flash = Blank

\* What the keys k mean: a board on USB needs no address and no network.
StreamOf(k) ==
  CASE k.transport = "usb"                              -> "usb"
    [] k.transport # "usb" /\ k.ip \notin {"", Absent} -> "wifi"
    [] OTHER                                            -> "none"

\* A factory reset that a power cut has broken off can leave the USB connection without the
\* key of the address, which every tool writes, be it empty.
Halved(k) == k.transport = "usb" /\ k.ip = Absent

CredentialsOf(k) ==
  IF StreamOf(k) = "usb" \/ k.ssid = Absent THEN <<"Kconfig", "Kconfig">>
  ELSE <<k.ssid, IF k.pass = Absent THEN "" ELSE k.pass>>

\* What app_main has read so far is what the keys meant when the device was switched on:
\* until it has read everything nothing but a factory reset touches them (crossed).
ReadInv ==
  /\ main = "off" => serial = "idle"
  /\ main \in Reading => serial \in {"idle", "erase", "commitErase"}
  /\ main \in Reading /\ ~crossed => ready /\ nvs = image
  /\ ~crossed =>
       /\ main \in {"hasStream", "loadIp", "loadRest"} => cfg = Defaults
       /\ main = "loadIp" => image.transport = "usb" \/ image.ip \notin {"", Absent}
       /\ main = "loadRest" =>
            image.ip # Absent /\ (image.transport = "usb" \/ image.ip # "")
       /\ main \in {"hasWifi", "loadSsid", "loadPass"} =>
            /\ ~Halved(image) => cfg.stream = StreamOf(image) /\ StreamOf(image) # "usb"
            /\ cfg.pass = "Kconfig"
            /\ cfg.ssid = IF main = "loadPass" THEN image.ssid ELSE "Kconfig"
       /\ main \in {"loadSsid", "loadPass"} => image.ssid # Absent

\* A device that has booted works by the settings it was switched on with, even if commands
\* come in meanwhile.  Only a factory reset in the middle of the reading may mix stored
\* values with defaults, and a store that cannot be opened is not there.  Halved keys are
\* excepted: config_manager_has_stream and config_manager_load_stream do not agree on them,
\* and such a device streams nowhere.
BootFollowsFlash ==
  main = "up" /\ ~crossed /\ ~Halved(image) =>
    cfg.stream = StreamOf(image) /\ <<cfg.ssid, cfg.pass>> = CredentialsOf(image)
=============================================================================
