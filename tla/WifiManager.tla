----------------------------- MODULE WifiManager -----------------------------
(***************************************************************************)
(* The firmware's WiFi manager (components/wifi_manager/wifi_manager.c)    *)
(* on top of the WiFi driver.  The manager's code runs in three tasks: the *)
(* event loop runs wifi_event_handler, the timer task wifi_retry_timer_cb, *)
(* and the callers run wifi_manager_init and wifi_manager_connect, step by *)
(* step beside the other two.  The callers are in DeviceBoot.              *)
(*                                                                         *)
(* The driver is external: it tries to join with the credentials it was    *)
(* configured with, posts an event when it has an address or has lost (or  *)
(* not got) the network, and refuses a call that does not fit its state.   *)
(***************************************************************************)
EXTENDS Sequences

CONSTANTS
  Creds,       \* WiFi credentials: SSID and password
  Accepted,    \* those the access points in reach would accept
  Faults       \* which misfortunes of the environment may happen

FaultKinds ==
  { "espError",     \* the driver refuses a call without a reason
    "okWhenUp",     \* a connected driver says yes to esp_wifi_connect and stays as it is
    "initFails" }   \* wifi_manager_init fails before it has created anything

ASSUME WifiAssumption ==
  /\ Accepted \subseteq Creds
  /\ Faults \subseteq FaultKinds

VARIABLES
  link,        \* the driver: "off", "idle", "joining", "up"
  cfg,         \* the credentials it is configured with
  joined,      \* the credentials of the present connection, or attempt
  events,      \* the event loop's queue
  created,     \* s_wifi_event_group and s_retry_timer exist
  status,      \* s_wifi_mgr.status
  timer,       \* s_retry_timer runs
  retrying,    \* wifi_retry_timer_cb has been entered
  bit,         \* WIFI_CONNECTED_BIT
  tested,      \* history: the credentials that have got an address
  abandoned    \* history: an idle driver refused a call, and nothing has joined since

manager == <<created, status, timer, retrying, bit>>

wifiVars == <<link, cfg, joined, events, manager, tested, abandoned>>

Events == {"start", "disconnected", "gotIp"}

WifiTypeOK ==
  /\ link \in {"off", "idle", "joining", "up"}
  /\ cfg \in Creds
  /\ joined \in Creds
  /\ events \in Seq(Events)
  /\ created \in BOOLEAN
  /\ status \in {"disconnected", "connecting", "connected"}
  /\ timer \in BOOLEAN
  /\ retrying \in BOOLEAN
  /\ bit \in BOOLEAN
  /\ tested \subseteq Creds
  /\ abandoned \in BOOLEAN

\* Before wifi_manager_init; cfg and joined mean nothing yet.
WifiInit ==
  /\ link = "off"
  /\ cfg \in Creds
  /\ joined = cfg
  /\ events = <<>>
  /\ created = FALSE
  /\ status = "disconnected"
  /\ timer = FALSE
  /\ retrying = FALSE
  /\ bit = FALSE
  /\ tested = {}
  /\ abandoned = FALSE

-----------------------------------------------------------------------------
(* The driver by itself *)

\* A join succeeds and DHCP brings an address.
Associate ==
  /\ link = "joining"
  /\ joined \in Accepted
  /\ link' = "up"
  /\ events' = Append(events, "gotIp")
  /\ tested' = tested \cup {joined}
  /\ UNCHANGED <<cfg, joined, manager, abandoned>>

\* The access point is out of reach, or refuses, or the connection breaks.
LoseLink ==
  /\ link \in {"joining", "up"}
  /\ link' = "idle"
  /\ events' = Append(events, "disconnected")
  /\ UNCHANGED <<cfg, joined, manager, tested, abandoned>>

-----------------------------------------------------------------------------
(* Calls into the driver; "ok" is what they return *)

\* A driver that is busy, or not started, refuses.
esp_wifi_connect(ok) ==
  \/ /\ link = "idle" /\ ok
     /\ link' = "joining"
     /\ joined' = cfg
     /\ abandoned' = FALSE
  \/ /\ link # "idle"
     /\ ok => link = "up" /\ "okWhenUp" \in Faults
     /\ UNCHANGED <<link, joined, abandoned>>
  \/ /\ "espError" \in Faults
     /\ link = "idle" /\ ~ok
     /\ abandoned' = TRUE
     /\ UNCHANGED <<link, joined>>

\* What is under way is cut off, and the event says so.
esp_wifi_disconnect ==
  IF link \in {"joining", "up"}
  THEN link' = "idle" /\ events' = Append(events, "disconnected")
  ELSE UNCHANGED <<link, events>>

\* Refused while the driver joins, and possible but not sure before it is started.
esp_wifi_set_config(c, ok) ==
  \/ /\ ok /\ link # "joining"
     /\ cfg' = c
     /\ UNCHANGED abandoned
  \/ /\ ~ok /\ link \in {"joining", "off"}
     /\ UNCHANGED <<cfg, abandoned>>
  \/ /\ "espError" \in Faults
     /\ ~ok /\ link = "idle"
     /\ abandoned' = TRUE
     /\ UNCHANGED cfg

-----------------------------------------------------------------------------
(* wifi_event_handler, in the event loop's task *)

Handle(e) ==
  /\ events # <<>>
  /\ Head(events) = e
  /\ events' = Tail(events)

\* What esp_wifi_connect returns is not looked at, here and in the timer.
OnStart ==
  /\ Handle("start")
  /\ status' = "connecting"
  /\ \E ok \in BOOLEAN : esp_wifi_connect(ok)
  /\ UNCHANGED <<cfg, created, timer, retrying, bit, tested>>

\* Slip: only a connection that was up is retried.
RetryOnlyOfConnected ==
  /\ Handle("disconnected")
  /\ timer' = (timer \/ status = "connected")
  /\ UNCHANGED <<link, cfg, joined, created, status, retrying, bit, tested, abandoned>>

\* Slip: the handler connects at once and starts the timer as well.
ReconnectAtOnce ==
  /\ Handle("disconnected")
  /\ timer' = TRUE
  /\ \E ok \in BOOLEAN : esp_wifi_connect(ok)
  /\ UNCHANGED <<cfg, created, status, retrying, bit, tested>>

\* The status and the bit stay as they are until the timer runs out.
OnDisconnected ==
  /\ Handle("disconnected")
  /\ timer' = TRUE
  /\ UNCHANGED <<link, cfg, joined, created, status, retrying, bit, tested, abandoned>>

OnGotIp ==
  /\ Handle("gotIp")
  /\ status' = "connected"
  /\ timer' = FALSE
  /\ bit' = TRUE
  /\ UNCHANGED <<link, cfg, joined, created, retrying, tested, abandoned>>

-----------------------------------------------------------------------------
(* wifi_retry_timer_cb, in the timer task, which has the lowest priority: much may
   happen between the expiry, after which the timer cannot be stopped, and the body *)

TimerExpires ==
  /\ timer /\ ~retrying
  /\ timer' = FALSE
  /\ retrying' = TRUE
  /\ UNCHANGED <<link, cfg, joined, events, created, status, bit, tested, abandoned>>

\* Slip: nothing is done for a device that is connected, as its status says.
RetryUnlessConnected ==
  /\ retrying
  /\ retrying' = FALSE
  /\ IF status = "connected"
     THEN UNCHANGED <<link, joined, status, abandoned>>
     ELSE status' = "connecting" /\ \E ok \in BOOLEAN : esp_wifi_connect(ok)
  /\ UNCHANGED <<cfg, events, created, timer, bit, tested>>

Retry ==
  /\ retrying
  /\ retrying' = FALSE
  /\ status' = "connecting"
  /\ \E ok \in BOOLEAN : esp_wifi_connect(ok)
  /\ UNCHANGED <<cfg, events, created, timer, bit, tested>>

-----------------------------------------------------------------------------
(* wifi_manager_init, for its caller *)

CreateGroupAndTimer ==
  /\ created' = TRUE
  /\ UNCHANGED <<link, cfg, joined, events, status, timer, retrying, bit, tested, abandoned>>

InitConfig(c) ==
  /\ cfg' = c
  /\ UNCHANGED <<link, joined, events, manager, tested, abandoned>>

esp_wifi_start ==
  /\ link' = "idle"
  /\ events' = Append(events, "start")
  /\ UNCHANGED <<cfg, joined, manager, tested, abandoned>>

-----------------------------------------------------------------------------
(* wifi_manager_connect, for its caller: up to each call into the driver *)

\* Slip: the bit of the old network stays set.
KeepBit ==
  /\ timer' = FALSE
  /\ UNCHANGED <<link, cfg, joined, events, created, status, retrying, bit, tested, abandoned>>

Prepare ==
  /\ timer' = FALSE
  /\ bit' = FALSE
  /\ UNCHANGED <<link, cfg, joined, events, created, status, retrying, tested, abandoned>>

Disconnect ==
  /\ esp_wifi_disconnect
  /\ UNCHANGED <<cfg, joined, manager, tested, abandoned>>

SetConfig(c, ok) ==
  /\ esp_wifi_set_config(c, ok)
  /\ UNCHANGED <<link, joined, events, manager, tested>>

Connect(ok) ==
  /\ status' = "connecting"
  /\ esp_wifi_connect(ok)
  /\ UNCHANGED <<cfg, events, created, timer, retrying, bit, tested>>

wifi_manager_is_connected == status = "connected"
=============================================================================
