------------------------------ MODULE DeviceBoot ------------------------------
(***************************************************************************)
(* The two callers of the WiFi manager: app_main (main/main.c), which      *)
(* brings the device up and decides who reads the sensor, and the task of  *)
(* the serial protocol (components/serial_protocol/serial_protocol.c),     *)
(* which is started before the WiFi and changes its credentials on the     *)
(* setup tool's command.  One boot; a power cut starts a new one from what *)
(* the flash holds.                                                        *)
(***************************************************************************)
EXTENDS WifiManager, Integers

CONSTANTS
  None,          \* no credentials stored
  KconfigCred,   \* CONFIG_WIFI_SSID, CONFIG_WIFI_PASSWORD
  MaxCommands    \* bound: set_wifi commands

ASSUME BootAssumption ==
  /\ None \notin Creds
  /\ KconfigCred \in Creds
  /\ MaxCommands \in Nat

VARIABLES
  main,        \* where app_main stands
  stream,      \* the stream settings app_main has read: "none", "wifi" or "usb"
  mainCred,    \* the credentials init_wifi has chosen
  sensorOk,    \* iis3dwb_initialized
  monitor,     \* iis3dwb_read_task runs
  streamer,    \* sensor_streamer_start: not called, ok or failed
  serial,      \* where the serial protocol's task stands
  new,         \* the credentials of its set_wifi
  saved,       \* the credentials in the flash
  commands,    \* set_wifi commands so far
  mixed        \* history: another connection or set-up got into the last set_wifi

bootVars == <<main, stream, mainCred, sensorOk, monitor, streamer>>

serialVars == <<serial, new, saved, commands, mixed>>

vars == <<wifiVars, bootVars, serialVars>>

\* handle_set_wifi is inside wifi_manager_connect.
Starting == {"disconnect", "config", "connect"}

TypeOK ==
  /\ WifiTypeOK
  /\ main \in {"begin", "config", "start", "wait", "sensor", "decide", "check", "loop"}
  /\ stream \in {"none", "wifi", "usb"}
  /\ mainCred \in Creds
  /\ sensorOk \in BOOLEAN
  /\ monitor \in BOOLEAN
  /\ streamer \in {"off", "on", "failed"}
  /\ serial \in {"idle", "prepare", "wait", "save"} \cup Starting
  /\ new \in Creds
  /\ saved \in Creds \cup {None}
  /\ commands \in 0..MaxCommands
  /\ mixed \in BOOLEAN

\* The setup tool may have written any settings into the flash.
Init ==
  /\ WifiInit
  /\ main = "begin"
  /\ stream \in {"none", "wifi", "usb"}
  /\ mainCred = KconfigCred
  /\ sensorOk = FALSE
  /\ monitor = FALSE
  /\ streamer = "off"
  /\ serial = "idle"
  /\ new = KconfigCred
  /\ saved \in Creds \cup {None}
  /\ commands = 0
  /\ mixed = FALSE

-----------------------------------------------------------------------------
(* app_main; the serial task runs already *)

\* Slip: the stored credentials are taken without asking whether there are any.
BeginsWithStored ==
  /\ main = "begin"
  /\ CreateGroupAndTimer
  /\ mainCred' = saved
  /\ main' = "config"
  /\ UNCHANGED <<stream, sensorOk, monitor, streamer, serialVars>>

\* With USB settings there is no WiFi at all.  Otherwise the credentials are those of
\* the build or, in a build with CONFIG_WIFI_PREFER_NVS, those in the flash.
MainBegins ==
  /\ main = "begin"
  /\ \/ /\ stream = "usb" \/ "initFails" \in Faults
        /\ main' = "sensor"
        /\ UNCHANGED <<wifiVars, mainCred>>
     \/ /\ stream # "usb"
        /\ CreateGroupAndTimer
        /\ mainCred' \in {KconfigCred} \cup ({saved} \ {None})
        /\ main' = "config"
  /\ UNCHANGED <<stream, sensorOk, monitor, streamer, serialVars>>

MainConfigures ==
  /\ main = "config"
  /\ InitConfig(mainCred)
  /\ mixed' = (mixed \/ serial \in Starting)
  /\ main' = "start"
  /\ UNCHANGED <<stream, mainCred, sensorOk, monitor, streamer, serial, new, saved, commands>>

MainStarts ==
  /\ main = "start"
  /\ esp_wifi_start
  /\ main' = "wait"
  /\ UNCHANGED <<stream, mainCred, sensorOk, monitor, streamer, serialVars>>

\* wifi_manager_wait_for_connection returns with the bit or after its limit, and leaves
\* the bit as it is.
WaitReturns == TRUE

MainWaited ==
  /\ main = "wait"
  /\ WaitReturns
  /\ main' = "sensor"
  /\ UNCHANGED <<wifiVars, stream, mainCred, sensorOk, monitor, streamer, serialVars>>

InitSensor ==
  /\ main = "sensor"
  /\ sensorOk' \in BOOLEAN
  /\ main' = "decide"
  /\ UNCHANGED <<wifiVars, stream, mainCred, monitor, streamer, serialVars>>

\* streaming_active and, later, can_stream: the same question, asked twice.
MayStream ==
  /\ sensorOk
  /\ stream # "none"
  /\ stream = "usb" \/ wifi_manager_is_connected

\* Slip: the first of the two questions forgets the USB connection.
MonitorWithoutWifi ==
  /\ main = "decide"
  /\ monitor' = (sensorOk /\ ~(MayStream /\ wifi_manager_is_connected))
  /\ main' = "check"
  /\ UNCHANGED <<wifiVars, stream, mainCred, sensorOk, streamer, serialVars>>

StartMonitor ==
  /\ main = "decide"
  /\ monitor' = (sensorOk /\ ~MayStream)
  /\ main' = "check"
  /\ UNCHANGED <<wifiVars, stream, mainCred, sensorOk, streamer, serialVars>>

StartStreamer ==
  /\ main = "check"
  /\ IF MayStream THEN streamer' \in {"on", "failed"} ELSE UNCHANGED streamer
  /\ main' = "loop"
  /\ UNCHANGED <<wifiVars, stream, mainCred, sensorOk, monitor, serialVars>>

Main ==
  \/ MainBegins \/ MainConfigures \/ MainStarts \/ MainWaited
  \/ InitSensor \/ StartMonitor \/ StartStreamer

-----------------------------------------------------------------------------
(* The serial protocol's task: handle_set_wifi and handle_factory_reset *)

\* Without the event group wifi_manager_connect fails before it changes anything.
SetWifi(c) ==
  /\ serial = "idle" /\ created
  /\ commands < MaxCommands
  /\ commands' = commands + 1
  /\ new' = c
  /\ serial' = "prepare"
  /\ UNCHANGED <<wifiVars, bootVars, saved, mixed>>

SerialPrepares ==
  /\ serial = "prepare"
  /\ Prepare
  /\ mixed' = (\E i \in DOMAIN events : events[i] = "gotIp")
  /\ serial' = "disconnect"
  /\ UNCHANGED <<bootVars, new, saved, commands>>

SerialDisconnects ==
  /\ serial = "disconnect"
  /\ Disconnect
  /\ serial' = "config"
  /\ UNCHANGED <<bootVars, new, saved, commands, mixed>>

SerialConfigures ==
  /\ serial = "config"
  /\ \E ok \in BOOLEAN : SetConfig(new, ok) /\ serial' = IF ok THEN "connect" ELSE "idle"
  /\ UNCHANGED <<bootVars, new, saved, commands, mixed>>

SerialConnects ==
  /\ serial = "connect"
  /\ \E ok \in BOOLEAN : Connect(ok) /\ serial' = IF ok THEN "wait" ELSE "idle"
  /\ UNCHANGED <<bootVars, new, saved, commands, mixed>>

SerialWaited ==
  /\ serial = "wait"
  /\ WaitReturns
  /\ serial' = IF bit THEN "save" ELSE "idle"
  /\ UNCHANGED <<wifiVars, bootVars, new, saved, commands, mixed>>

\* config_manager_save_wifi may fail.
SerialSaves ==
  /\ serial = "save"
  /\ saved' \in {new, saved}
  /\ serial' = "idle"
  /\ UNCHANGED <<wifiVars, bootVars, new, commands, mixed>>

FactoryReset ==
  /\ serial = "idle"
  /\ saved # None
  /\ saved' = None
  /\ UNCHANGED <<wifiVars, bootVars, serial, new, commands, mixed>>

Serial ==
  \/ SerialPrepares \/ SerialDisconnects \/ SerialConfigures
  \/ SerialConnects \/ SerialWaited \/ SerialSaves

-----------------------------------------------------------------------------
LinkComesUp ==
  /\ Associate
  /\ mixed' = (mixed \/ serial \in Starting)
  /\ UNCHANGED <<bootVars, serial, new, saved, commands>>

LinkBreaks == LoseLink /\ UNCHANGED <<bootVars, serialVars>>

EventLoop == (OnStart \/ OnDisconnected \/ OnGotIp) /\ UNCHANGED <<bootVars, serialVars>>

TimerTask == (TimerExpires \/ Retry) /\ UNCHANGED <<bootVars, serialVars>>

Next ==
  \/ Main \/ Serial
  \/ \E c \in Creds : SetWifi(c)
  \/ FactoryReset
  \/ LinkComesUp \/ LinkBreaks
  \/ EventLoop \/ TimerTask

Spec == Init /\ [][Next]_vars

\* The tasks run, a running timer runs out, a join ends one way or the other, and an
\* access point that would accept does so at last.  Nothing is assumed of commands.
FairSpec ==
  /\ Spec
  /\ WF_vars(Main) /\ WF_vars(Serial)
  /\ WF_vars(EventLoop) /\ WF_vars(TimerTask)
  /\ WF_vars(link = "joining" /\ LinkBreaks) /\ SF_vars(LinkComesUp)

-----------------------------------------------------------------------------
(* Properties *)

\* A device never gives the network up: whenever the driver is idle and no event is
\* waiting, the retry timer runs or its callback does, unless a set_wifi is about to
\* connect or the driver has refused a call it had no reason to refuse.  Three tasks
\* start and stop the timer, and a late event must not be the last to stop it.
RetryPending ==
  link = "idle" /\ events = <<>> /\ ~abandoned =>
    timer \/ retrying \/ serial \in Starting

\* As long as nobody changes the credentials, the status of a connected device whose
\* events have been handled says so.  (A set_wifi beside an expired timer breaks this.)
UpIsReported ==
  link = "up" /\ events = <<>> /\ commands = 0 => wifi_manager_is_connected

\* A USB device that has booted reads its sensor with exactly one task, whatever the
\* WiFi does or does not do (unless the streamer cannot start).
UsbReadsOnce ==
  main = "loop" /\ stream = "usb" /\ sensorOk /\ streamer # "failed" =>
    monitor # (streamer = "on")

\* The comment in handle_set_wifi: credentials that did not connect are not stored, so
\* that no wrong password stays in the flash.  So far as it holds: while
\* wifi_manager_connect runs, no other connection gets an address (or has one announced but
\* not handled), and wifi_manager_init does not put its own credentials into the driver.
SavesTestedUnlessMixed == [][saved' \in {saved, None} \cup tested \/ mixed]_vars

\* With credentials that would be accepted the device comes back, again and again.
Reconnects ==
  <>[](link # "off" /\ cfg \in Accepted /\ ~abandoned) => []<>(link = "up")
=============================================================================
