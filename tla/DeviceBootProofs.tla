--------------------------- MODULE DeviceBootProofs ---------------------------
(***************************************************************************)
(* Theorems about DeviceBoot, for every set of credentials, every set of   *)
(* faults and any number of commands.                                      *)
(***************************************************************************)
EXTENDS DeviceBoot, SequenceTheorems, TLAPS

(* Sequences *)

LEMMA TailTyped == ASSUME NEW S, NEW s \in Seq(S), s # <<>>
                   PROVE  /\ Tail(s) \in Seq(S)
                          /\ Tail(s) = <<>> => s[Len(s)] = Head(s)
                          /\ Tail(s) # <<>> => Tail(s)[Len(Tail(s))] = s[Len(s)]
<1>1. Tail(s) \in Seq(S) /\ Len(s) \in Nat \ {0} /\ Len(Tail(s)) = Len(s) - 1
  BY HeadTailProperties, EmptySeq
<1>2. Tail(s) = <<>> => Len(s) = 1
  <2>1. Tail(s) = <<>> => Len(Tail(s)) = 0
    BY EmptySeq, Zenon
  <2> QED BY <1>1, <2>1
<1>3. Tail(s) # <<>> => Len(Tail(s)) # 0
  BY <1>1, EmptySeq
<1>4. \A i \in 1..Len(Tail(s)) : Tail(s)[i] = s[i + 1]
  BY HeadTailProperties
<1> QED BY <1>1, <1>2, <1>3, <1>4

LEMMA AppendTyped == ASSUME NEW S, NEW s \in Seq(S), NEW e \in S
                     PROVE  /\ Append(s, e) \in Seq(S)
                            /\ Append(s, e) # <<>>
                            /\ Append(s, e)[Len(Append(s, e))] = e
BY AppendProperties

-----------------------------------------------------------------------------
(* Types *)

\* The types of the driver and the manager survive every step.
LEMMA WifiTypes == ASSUME WifiTypeOK, TypeOK, [Next]_vars PROVE WifiTypeOK'
<1> USE BootAssumption, WifiAssumption
<1>1. CASE Main
  <2>1. CASE MainBegins
    BY <2>1, <1>1 DEF MainBegins, WifiTypeOK, wifiVars, manager, CreateGroupAndTimer
  <2>2. CASE MainConfigures
    BY <2>2 DEF MainConfigures, WifiTypeOK, TypeOK, manager, InitConfig
  <2>3. CASE MainStarts
    BY <2>3 DEF MainStarts, WifiTypeOK, manager, esp_wifi_start, Events
  <2>4. CASE MainWaited \/ InitSensor \/ StartMonitor \/ StartStreamer
    BY <2>4 DEF MainWaited, InitSensor, StartMonitor, StartStreamer, WifiTypeOK, wifiVars, manager
  <2> QED BY <1>1, <2>1, <2>2, <2>3, <2>4 DEF Main
<1>2. CASE Serial
  <2>1. CASE SerialPrepares
    BY <2>1 DEF SerialPrepares, Prepare, WifiTypeOK
  <2>2. CASE SerialDisconnects
    BY <2>2 DEF SerialDisconnects, Disconnect, esp_wifi_disconnect, WifiTypeOK, manager, Events
  <2>3. CASE SerialConfigures
    BY <2>3 DEF SerialConfigures, SetConfig, esp_wifi_set_config, WifiTypeOK, TypeOK, manager
  <2>4. CASE SerialConnects
    BY <2>4 DEF SerialConnects, Connect, esp_wifi_connect, WifiTypeOK
  <2>5. CASE SerialWaited \/ SerialSaves
    BY <2>5 DEF SerialWaited, SerialSaves, WifiTypeOK, wifiVars, manager
  <2> QED BY <1>2, <2>1, <2>2, <2>3, <2>4, <2>5 DEF Serial
<1>3. CASE LinkComesUp \/ LinkBreaks
  BY <1>3 DEF LinkComesUp, LinkBreaks, Associate, LoseLink, WifiTypeOK, manager, Events
<1>4. CASE EventLoop
  <2>1. CASE OnStart
    BY <2>1, TailTyped DEF OnStart, Handle, esp_wifi_connect, WifiTypeOK
  <2>2. CASE OnDisconnected
    BY <2>2, TailTyped DEF OnDisconnected, Handle, WifiTypeOK
  <2>3. CASE OnGotIp
    BY <2>3, TailTyped DEF OnGotIp, Handle, WifiTypeOK
  <2> QED BY <1>4, <2>1, <2>2, <2>3 DEF EventLoop
<1>5. CASE TimerTask
  BY <1>5 DEF TimerTask, TimerExpires, Retry, esp_wifi_connect, WifiTypeOK
<1>6. CASE (\E c \in Creds : SetWifi(c)) \/ FactoryReset \/ UNCHANGED vars
  BY <1>6 DEF SetWifi, FactoryReset, vars, wifiVars, manager, WifiTypeOK
<1> QED BY <1>1, <1>2, <1>3, <1>4, <1>5, <1>6 DEF Next

\* The types of the callers, step by step.
LEMMA TypeStep == ASSUME TypeOK, [Next]_vars PROVE TypeOK'
<1> USE BootAssumption
<1>0. WifiTypeOK'
  BY WifiTypes DEF TypeOK
<1>1. CASE Main
  BY <1>0, <1>1 DEF Main, MainBegins, MainConfigures, MainStarts, MainWaited, InitSensor,
    StartMonitor, StartStreamer, TypeOK, serialVars
<1>2. CASE Serial
  <2>1. CASE SerialPrepares \/ SerialDisconnects
    BY <1>0, <2>1 DEF SerialPrepares, SerialDisconnects, TypeOK, bootVars, Starting
  <2>2. CASE SerialConfigures \/ SerialConnects
    BY <1>0, <2>2 DEF SerialConfigures, SerialConnects, TypeOK, bootVars, Starting
  <2>3. CASE SerialWaited \/ SerialSaves
    BY <1>0, <2>3 DEF SerialWaited, SerialSaves, TypeOK, bootVars
  <2> QED BY <1>2, <2>1, <2>2, <2>3 DEF Serial
<1>3. CASE LinkComesUp
  BY <1>0, <1>3 DEF LinkComesUp, TypeOK, bootVars
<1>4. CASE LinkBreaks \/ EventLoop \/ TimerTask
  BY <1>0, <1>4 DEF LinkBreaks, EventLoop, TimerTask, TypeOK, bootVars, serialVars
<1>5. CASE \E c \in Creds : SetWifi(c)
  BY <1>0, <1>5 DEF SetWifi, TypeOK, bootVars
<1>6. CASE FactoryReset
  BY <1>0, <1>6 DEF FactoryReset, TypeOK, bootVars
<1>7. CASE UNCHANGED vars
  BY <1>0, <1>7 DEF vars, TypeOK, bootVars, serialVars
<1> QED BY <1>1, <1>2, <1>3, <1>4, <1>5, <1>6, <1>7 DEF Next

\* Type correctness of the device, all of its variables.
THEOREM TypeCorrect == Spec => []TypeOK
<1>1. Init => TypeOK
  <2> SUFFICES ASSUME Init PROVE TypeOK
    OBVIOUS
  <2>1. events \in Seq(Events)
    BY EmptySeq DEF Init, WifiInit
  <2>2. WifiTypeOK
    BY <2>1 DEF Init, WifiInit, WifiTypeOK
  <2>3. commands \in 0..MaxCommands
    BY BootAssumption DEF Init
  <2>4. mainCred \in Creds /\ new \in Creds /\ saved \in Creds \cup {None}
    BY BootAssumption DEF Init
  <2> QED BY <2>2, <2>3, <2>4, Zenon DEF Init, TypeOK
<1> QED BY <1>1, TypeStep, PTL DEF Spec
-----------------------------------------------------------------------------
(* The retry *)

\* RetryPending is not inductive: while the queue is not empty, it must be known that the
\* last event in it is one that starts the timer or connects.  It is, since an idle driver
\* posts nothing.
RetryInv ==
  link = "idle" /\ ~abandoned =>
    IF events = <<>> THEN timer \/ retrying \/ serial \in Starting
    ELSE events[Len(events)] \in {"start", "disconnected"}

LEMMA RetryStep == ASSUME TypeOK, RetryInv, [Next]_vars PROVE RetryInv'
<1>0. events \in Seq(Events) /\ abandoned \in BOOLEAN
  BY DEF TypeOK, WifiTypeOK
<1>1. CASE MainStarts
  BY <1>0, <1>1, AppendTyped DEF MainStarts, esp_wifi_start, RetryInv, Events
<1>2. CASE Main /\ ~MainStarts
  BY <1>2 DEF Main, MainBegins, MainConfigures, MainWaited, InitSensor, StartMonitor, StartStreamer,
    CreateGroupAndTimer, InitConfig, RetryInv, wifiVars, manager, serialVars
<1>3. CASE SerialPrepares
  BY <1>3 DEF SerialPrepares, Prepare, RetryInv, Starting
<1>4. CASE SerialDisconnects
  BY <1>0, <1>4, AppendTyped DEF SerialDisconnects, Disconnect, esp_wifi_disconnect, RetryInv,
    manager, Events, Starting
<1>5. CASE SerialConfigures
  BY <1>5 DEF SerialConfigures, SetConfig, esp_wifi_set_config, RetryInv, manager, Starting
<1>6. CASE SerialConnects
  BY <1>6 DEF SerialConnects, Connect, esp_wifi_connect, RetryInv
<1>7. CASE SerialWaited \/ SerialSaves \/ FactoryReset \/ UNCHANGED vars
  BY <1>7 DEF SerialWaited, SerialSaves, FactoryReset, vars, wifiVars, manager, serialVars,
    RetryInv, Starting
<1>8. CASE \E c \in Creds : SetWifi(c)
  BY <1>8 DEF SetWifi, wifiVars, manager, RetryInv, Starting
<1>9. CASE LinkComesUp
  BY <1>9 DEF LinkComesUp, Associate, RetryInv
<1>10. CASE LinkBreaks
  BY <1>0, <1>10, AppendTyped DEF LinkBreaks, LoseLink, RetryInv, Events
<1>11. CASE OnStart /\ UNCHANGED <<bootVars, serialVars>>
  <2>1. link' = "idle" => link = "idle" /\ abandoned'
    BY <1>11 DEF OnStart, esp_wifi_connect
  <2> QED BY <2>1 DEF RetryInv
<1>12. CASE OnDisconnected /\ UNCHANGED <<bootVars, serialVars>>
  BY <1>0, <1>12, TailTyped DEF OnDisconnected, Handle, RetryInv
<1>13. CASE OnGotIp /\ UNCHANGED <<bootVars, serialVars>>
  <2>1. events # <<>> /\ Head(events) = "gotIp" /\ events' = Tail(events)
    BY <1>13 DEF OnGotIp, Handle
  <2>2. link' = link /\ abandoned' = abandoned
    BY <1>13 DEF OnGotIp
  <2>3. ASSUME link = "idle", ~abandoned PROVE events' # <<>>
    BY <1>0, <2>1, <2>3, TailTyped DEF RetryInv
  <2>4. ASSUME link = "idle", ~abandoned PROVE events'[Len(events')] = events[Len(events)]
    BY <1>0, <2>1, <2>3, <2>4, TailTyped
  <2> QED BY <2>1, <2>2, <2>3, <2>4 DEF RetryInv
<1>14. CASE TimerTask
  BY <1>14 DEF TimerTask, TimerExpires, Retry, esp_wifi_connect, RetryInv, serialVars
<1> QED
  BY <1>1, <1>2, <1>3, <1>4, <1>5, <1>6, <1>7, <1>8, <1>9, <1>10, <1>11, <1>12, <1>13, <1>14
    DEF Next, Main, Serial, EventLoop

\* An idle driver with nothing queued always has the timer, its callback or a starting
\* set_wifi to wake it, unless it has refused a call without a reason.
THEOREM AlwaysRetryPending == Spec => []RetryPending
<1>1. Init => RetryInv
  BY DEF Init, WifiInit, RetryInv
<1>2. RetryInv => RetryPending
  BY DEF RetryInv, RetryPending
<1> QED BY <1>1, <1>2, RetryStep, TypeCorrect, PTL DEF Spec

-----------------------------------------------------------------------------
(* The status *)

Quiet == ~timer /\ ~retrying

\* Before the first set_wifi, one thing at a time is under way: an event, the timer, its
\* callback or a join.
UpInv ==
  /\ main \in {"begin", "config", "start"} => link = "off"
  /\ commands = 0 =>
       /\ serial = "idle"
       /\ \/ Quiet /\ link = "off" /\ events = <<>>
          \/ Quiet /\ link = "idle"
             /\ events \in {<<"start">>, <<"disconnected">>, <<"gotIp", "disconnected">>}
          \/ (timer => ~retrying) /\ link = "idle" /\ events = <<>>
          \/ Quiet /\ link = "joining" /\ events = <<>>
          \/ Quiet /\ link = "up" /\ events = <<"gotIp">>
          \/ Quiet /\ link = "up" /\ events = <<>> /\ status = "connected"

LEMMA Queues == /\ Tail(<<"start">>) = <<>>
                /\ Tail(<<"disconnected">>) = <<>>
                /\ Tail(<<"gotIp">>) = <<>>
                /\ Tail(<<"gotIp", "disconnected">>) = <<"disconnected">>
                /\ Head(<<"start">>) = "start"
                /\ Head(<<"disconnected">>) = "disconnected"
                /\ Head(<<"gotIp">>) = "gotIp"
                /\ Head(<<"gotIp", "disconnected">>) = "gotIp"
                /\ \A e : Append(<<>>, e) = <<e>>
                /\ <<"start">> # <<>> /\ <<"disconnected">> # <<>> /\ <<"gotIp">> # <<>>
                /\ <<"gotIp", "disconnected">> # <<>>
OBVIOUS

LEMMA AppendPair == ASSUME NEW a, NEW b PROVE Append(<<a>>, b) = <<a, b>>
<1> DEFINE S == {a, b}
<1>1. <<a>> \in Seq(S) /\ <<a, b>> \in Seq(S)
  OBVIOUS
<1>2. Len(<<a>>) = 1 /\ Len(<<a, b>>) = 2 /\ <<a>>[1] = a /\ <<a, b>>[1] = a /\ <<a, b>>[2] = b
  OBVIOUS
<1>3. /\ Append(<<a>>, b) \in Seq(S)
      /\ Len(Append(<<a>>, b)) = 2
      /\ Append(<<a>>, b)[1] = a
      /\ Append(<<a>>, b)[2] = b
  BY <1>1, <1>2, AppendProperties
<1>4. \A i \in 1..2 : Append(<<a>>, b)[i] = <<a, b>>[i]
  BY <1>2, <1>3
<1> QED BY <1>1, <1>2, <1>3, <1>4, SeqEqual

LEMMA UpStep == ASSUME TypeOK, UpInv, [Next]_vars PROVE UpInv'
<1>1. CASE MainStarts
  BY <1>1, Queues DEF MainStarts, esp_wifi_start, UpInv, Quiet, manager, serialVars
<1>2. CASE Main /\ ~MainStarts
  BY <1>2 DEF Main, MainBegins, MainConfigures, MainWaited, InitSensor, StartMonitor, StartStreamer,
    CreateGroupAndTimer, InitConfig, UpInv, Quiet, wifiVars, manager, serialVars
<1>3. CASE Serial
  <2>1. serial # "idle" /\ commands' = commands /\ main' = main
    BY <1>3 DEF Serial, SerialPrepares, SerialDisconnects, SerialConfigures, SerialConnects,
      SerialWaited, SerialSaves, bootVars
  <2>2. link = "off" => link' = "off"
    BY <1>3 DEF Serial, SerialPrepares, SerialDisconnects, SerialConfigures, SerialConnects,
      SerialWaited, SerialSaves, Prepare, Disconnect, esp_wifi_disconnect, SetConfig, Connect,
      esp_wifi_connect, wifiVars
  <2> QED BY <2>1, <2>2 DEF UpInv
<1>4. CASE \E c \in Creds : SetWifi(c)
  <2>1. commands' # 0
    BY <1>4, BootAssumption DEF SetWifi, TypeOK
  <2> QED BY <1>4, <2>1 DEF SetWifi, UpInv, wifiVars, bootVars
<1>5. CASE FactoryReset \/ UNCHANGED vars
  BY <1>5 DEF FactoryReset, vars, wifiVars, manager, bootVars, serialVars, UpInv, Quiet
<1>6. CASE LinkComesUp
  BY <1>6, Queues DEF LinkComesUp, Associate, UpInv, Quiet, manager, bootVars
<1>7. CASE LinkBreaks
  <2>1. Append(<<"gotIp">>, "disconnected") = <<"gotIp", "disconnected">>
    BY AppendPair, Zenon
  <2> QED BY <1>7, <2>1, Queues
        DEF LinkBreaks, LoseLink, UpInv, Quiet, manager, bootVars, serialVars
<1>8. CASE OnStart /\ UNCHANGED <<bootVars, serialVars>>
  BY <1>8, Queues DEF OnStart, Handle, esp_wifi_connect, UpInv, Quiet, bootVars, serialVars
<1>9. CASE OnDisconnected /\ UNCHANGED <<bootVars, serialVars>>
  BY <1>9, Queues DEF OnDisconnected, Handle, UpInv, Quiet, bootVars, serialVars
<1>10. CASE OnGotIp /\ UNCHANGED <<bootVars, serialVars>>
  BY <1>10, Queues DEF OnGotIp, Handle, UpInv, Quiet, bootVars, serialVars
<1>11. CASE TimerTask
  BY <1>11 DEF TimerTask, TimerExpires, Retry, esp_wifi_connect, UpInv, Quiet, bootVars, serialVars
<1> QED
  BY <1>1, <1>2, <1>3, <1>4, <1>5, <1>6, <1>7, <1>8, <1>9, <1>10, <1>11 DEF Next, EventLoop

\* Until the first set_wifi, a connected device whose events are handled says that it is.
THEOREM AlwaysUpIsReported == Spec => []UpIsReported
<1>1. Init => UpInv
  BY DEF Init, WifiInit, UpInv, Quiet
<1>2. UpInv => UpIsReported
  BY Queues DEF UpInv, UpIsReported, wifi_manager_is_connected
<1> QED BY <1>1, <1>2, UpStep, TypeCorrect, PTL DEF Spec

-----------------------------------------------------------------------------
(* Who reads the sensor *)

UsbInv ==
  stream = "usb" /\ sensorOk =>
    /\ main = "check" => monitor = FALSE
    /\ main = "loop" => monitor = FALSE /\ streamer \in {"on", "failed"}

LEMMA UsbStep == ASSUME UsbInv, [Next]_vars PROVE UsbInv'
<1>1. CASE MainBegins \/ MainConfigures \/ MainStarts \/ MainWaited
  BY <1>1 DEF MainBegins, MainConfigures, MainStarts, MainWaited, UsbInv
<1>2. CASE InitSensor
  BY <1>2 DEF InitSensor, UsbInv
<1>3. CASE StartMonitor
  BY <1>3 DEF StartMonitor, MayStream, UsbInv
<1>4. CASE StartStreamer
  BY <1>4 DEF StartStreamer, MayStream, UsbInv
<1>5. ASSUME ~Main PROVE UNCHANGED bootVars
  BY <1>5 DEF Next, Serial, SerialPrepares, SerialDisconnects, SerialConfigures, SerialConnects,
    SerialWaited, SerialSaves, SetWifi, FactoryReset, LinkComesUp, LinkBreaks, EventLoop,
    TimerTask, vars
<1> QED BY <1>1, <1>2, <1>3, <1>4, <1>5 DEF Main, bootVars, UsbInv

\* On a USB device the two questions of app_main get the same answer, so exactly one task
\* reads the sensor.
THEOREM AlwaysUsbReadsOnce == Spec => []UsbReadsOnce
<1>1. Init => UsbInv
  BY DEF Init, UsbInv
<1>2. UsbInv => UsbReadsOnce
  BY DEF UsbInv, UsbReadsOnce
<1> QED BY <1>1, <1>2, UsbStep, PTL DEF Spec

-----------------------------------------------------------------------------
(* What may be saved *)

\* No address has been announced that is not handled yet.
NoIp == \A i \in DOMAIN events : events[i] # "gotIp"

\* Until the end of a set_wifi its credentials are followed through the driver: nothing
\* else is joined from the moment they are in it, so an address can only be theirs.
TestedInv ==
  /\ main \in {"begin", "config", "start"} => link = "off"
  /\ ~mixed =>
       /\ serial \in Starting => NoIp /\ ~bit
       /\ serial = "config" => link # "up"
       /\ serial = "connect" => cfg = new /\ link # "up"
       /\ serial = "wait" => cfg = new /\ link # "off"
       /\ serial \in {"connect", "wait"} /\ link \in {"joining", "up"} => joined = new
       /\ serial = "wait" => (NoIp /\ ~bit) \/ new \in tested
       /\ serial = "save" => new \in tested

LEMMA NoIpTail == ASSUME NEW s \in Seq(Events), s # <<>>, \A i \in DOMAIN s : s[i] # "gotIp"
                  PROVE  Head(s) # "gotIp" /\ \A i \in DOMAIN Tail(s) : Tail(s)[i] # "gotIp"
<1>1. /\ Tail(s) \in Seq(Events) /\ Len(s) \in Nat \ {0} /\ Len(Tail(s)) = Len(s) - 1
      /\ Head(s) = s[1] /\ \A i \in 1..Len(Tail(s)) : Tail(s)[i] = s[i + 1]
  BY HeadTailProperties, EmptySeq
<1>2. DOMAIN s = 1..Len(s) /\ DOMAIN Tail(s) = 1..Len(Tail(s))
  BY <1>1
<1> QED BY <1>1, <1>2

LEMMA NoIpAppend == ASSUME NEW s \in Seq(Events), NEW e \in Events \ {"gotIp"},
                           \A i \in DOMAIN s : s[i] # "gotIp"
                    PROVE  \A i \in DOMAIN Append(s, e) : Append(s, e)[i] # "gotIp"
<1>1. /\ Append(s, e) \in Seq(Events) /\ Len(Append(s, e)) = Len(s) + 1 /\ Len(s) \in Nat
      /\ \A i \in 1..Len(s) : Append(s, e)[i] = s[i] /\ Append(s, e)[Len(s) + 1] = e
  BY AppendProperties
<1>2. DOMAIN s = 1..Len(s) /\ DOMAIN Append(s, e) = 1..(Len(s) + 1)
  BY <1>1
<1>3. Append(s, e)[Len(s) + 1] = e
  BY AppendProperties
<1> QED BY <1>1, <1>2, <1>3

\* What a call to esp_wifi_connect may do.
LEMMA ConnectJoins ==
  ASSUME NEW ok, esp_wifi_connect(ok)
  PROVE  \/ link' = link /\ joined' = joined /\ (ok => link = "up")
         \/ link = "idle" /\ link' = "joining" /\ joined' = cfg
BY DEF esp_wifi_connect

LEMMA TestedStep == ASSUME TypeOK, TestedInv, [Next]_vars PROVE TestedInv'
<1>0. events \in Seq(Events) /\ mixed \in BOOLEAN
  BY DEF TypeOK, WifiTypeOK
<1>1. CASE MainBegins \/ MainWaited \/ InitSensor \/ StartMonitor \/ StartStreamer
  BY <1>1 DEF MainBegins, MainWaited, InitSensor, StartMonitor, StartStreamer,
    CreateGroupAndTimer, TestedInv, NoIp, wifiVars, manager, serialVars
<1>2. CASE MainConfigures
  BY <1>2 DEF MainConfigures, InitConfig, TestedInv, NoIp, Starting, manager
<1>3. CASE MainStarts
  <2>1. link = "off" /\ link' = "idle" /\ main' = "wait" /\ events' = Append(events, "start")
    BY <1>3 DEF MainStarts, esp_wifi_start, TestedInv
  <2>2. NoIp => NoIp'
    BY <1>0, <2>1, NoIpAppend DEF NoIp, Events
  <2> QED BY <1>3, <2>1, <2>2 DEF MainStarts, esp_wifi_start, TestedInv, manager, serialVars
<1>4. CASE SerialPrepares
  BY <1>4 DEF SerialPrepares, Prepare, TestedInv, NoIp, bootVars, Starting
<1>5. CASE SerialDisconnects
  <2>1. NoIp => NoIp'
    BY <1>0, <1>5, NoIpAppend DEF SerialDisconnects, Disconnect, esp_wifi_disconnect, NoIp, Events
  <2> QED BY <1>5, <2>1 DEF SerialDisconnects, Disconnect, esp_wifi_disconnect, TestedInv,
            Starting, bootVars, manager
<1>6. CASE SerialConfigures
  BY <1>6 DEF SerialConfigures, SetConfig, esp_wifi_set_config, TestedInv, NoIp, Starting,
    bootVars, manager
<1>7. CASE SerialConnects
  <2>1. PICK ok \in BOOLEAN : Connect(ok) /\ serial' = IF ok THEN "wait" ELSE "idle"
    BY <1>7 DEF SerialConnects
  <2>2. \/ link' = link /\ joined' = joined /\ (ok => link = "up")
        \/ link = "idle" /\ link' = "joining" /\ joined' = cfg
    BY <2>1, ConnectJoins DEF Connect
  <2> QED BY <1>7, <2>1, <2>2 DEF SerialConnects, Connect, TestedInv, NoIp, Starting, bootVars
<1>8. CASE SerialWaited \/ SerialSaves \/ FactoryReset \/ \E c \in Creds : SetWifi(c)
  BY <1>8 DEF SerialWaited, SerialSaves, FactoryReset, SetWifi, TestedInv, NoIp, Starting,
    wifiVars, manager, bootVars
<1>9. CASE LinkComesUp
  BY <1>9 DEF LinkComesUp, Associate, TestedInv, NoIp, Starting, bootVars, manager
<1>10. CASE LinkBreaks
  <2>1. NoIp => NoIp'
    BY <1>0, <1>10, NoIpAppend DEF LinkBreaks, LoseLink, NoIp, Events
  <2> QED BY <1>10, <2>1 DEF LinkBreaks, LoseLink, TestedInv, bootVars, serialVars, manager
<1>11. CASE /\ OnStart \/ OnDisconnected \/ Retry \/ TimerExpires
            /\ UNCHANGED <<bootVars, serialVars>>
  <2>1. NoIp => NoIp'
    BY <1>0, <1>11, NoIpTail DEF OnStart, OnDisconnected, Retry, TimerExpires, Handle, NoIp
  <2>2. UNCHANGED <<cfg, bit, tested>>
    BY <1>11 DEF OnStart, OnDisconnected, Retry, TimerExpires
  <2>3. \/ link' = link /\ joined' = joined
        \/ link = "idle" /\ link' = "joining" /\ joined' = cfg
    BY <1>11, ConnectJoins DEF OnStart, OnDisconnected, Retry, TimerExpires
  <2> QED BY <1>11, <2>1, <2>2, <2>3 DEF TestedInv, Starting, bootVars, serialVars
<1>12. CASE OnGotIp /\ UNCHANGED <<bootVars, serialVars>>
  <2>1. ~NoIp
    BY <1>0, <1>12, NoIpTail DEF OnGotIp, Handle, NoIp
  <2> QED BY <1>12, <2>1 DEF OnGotIp, TestedInv, bootVars, serialVars
<1>13. CASE UNCHANGED vars
  BY <1>13 DEF vars, wifiVars, manager, bootVars, serialVars, TestedInv, NoIp
<1> QED
  BY <1>1, <1>2, <1>3, <1>4, <1>5, <1>6, <1>7, <1>8, <1>9, <1>10, <1>11, <1>12, <1>13
     DEF Next, Main, Serial, EventLoop, TimerTask

\* Credentials that did not connect are not stored, so long as no other connection gets an
\* address, and wifi_manager_init does not put its own credentials into the driver, while
\* wifi_manager_connect runs.
THEOREM AlwaysSavesTested == Spec => SavesTestedUnlessMixed
<1>1. Init => TestedInv
  BY DEF Init, WifiInit, TestedInv, NoIp, Starting
<1>2. TypeOK /\ TestedInv /\ [Next]_vars => [saved' \in {saved, None} \cup tested \/ mixed]_vars
  <2> SUFFICES ASSUME TypeOK, TestedInv, Next PROVE saved' \in {saved, None} \cup tested \/ mixed
    OBVIOUS
  <2>1. CASE SerialSaves
    BY <2>1 DEF SerialSaves, TestedInv
  <2>2. CASE ~SerialSaves
    BY <2>2 DEF Next, Main, MainBegins, MainConfigures, MainStarts, MainWaited, InitSensor,
      StartMonitor, StartStreamer, Serial, SerialPrepares, SerialDisconnects, SerialConfigures,
      SerialConnects, SerialWaited, SetWifi, FactoryReset, LinkComesUp, LinkBreaks, EventLoop,
      TimerTask, serialVars
  <2> QED BY <2>1, <2>2
<1> QED BY <1>1, <1>2, TestedStep, TypeCorrect, PTL DEF Spec, SavesTestedUnlessMixed
=============================================================================
