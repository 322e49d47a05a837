-------------------------- MODULE ConfigStoreProofs --------------------------
(***************************************************************************)
(* Theorems about ConfigStore, for every set of networks and of faults.    *)
(***************************************************************************)
EXTENDS ConfigStore, TLAPS

\* What the setup tool writes are whole settings.
LEMMA SettingsAreWhole ==
  ASSUME NEW n \in Nets, NEW a \in {"", "addr"}, NEW t \in {"udp", "usb"}
  PROVE  Settings(n, a, t) \in Keys /\ Whole(Settings(n, a, t))
BY StoreAssumption DEF Settings, PassOf, Keys, Whole

\* An empty store has neither half of the pair.
LEMMA BlankIsWhole == Blank \in Keys /\ Whole(Blank)
BY DEF Blank, Keys, Whole

\* The types survive every step.
LEMMA TypeStep == ASSUME TypeOK, [Next]_vars PROVE TypeOK'
<1> USE StoreAssumption
<1>1. CASE HostWrites
  BY <1>1, SettingsAreWhole, BlankIsWhole DEF HostWrites, TypeOK, boot
<1>2. CASE PowerOn
  BY <1>2, BlankIsWhole DEF PowerOn, Defaults, TypeOK, Configs, Reading
<1>3. CASE PowerCut
  BY <1>3 DEF PowerCut, TypeOK
<1>4. CASE Main
  <2>1. CASE HasStream \/ LoadIp \/ HasWifi \/ WifiInit
    BY <2>1 DEF HasStream, LoadIp, HasWifi, WifiInit, TypeOK, Reading, storage, boot, task
  <2>2. CASE LoadRest \/ LoadSsid \/ LoadPass
    <3>1. cfg \in Configs /\ nvs \in Keys
      BY DEF TypeOK
    <3>2. cfg' \in Configs
      <4>1. CASE LoadRest
        BY ONLY <3>1, <4>1 DEF LoadRest, Configs
      <4>2. CASE LoadSsid
        BY ONLY <3>1, <4>2 DEF LoadSsid, Keys, Configs
      <4>3. CASE LoadPass
        BY ONLY <3>1, <4>3 DEF LoadPass, Keys, Configs
      <4> QED BY <2>2, <4>1, <4>2, <4>3
    <3>3. main' \in Reading \cup {"off", "up"}
      BY ONLY <2>2 DEF LoadRest, LoadSsid, LoadPass, Reading
    <3>4. UNCHANGED <<storage, image, crossed, task>>
      BY ONLY <2>2 DEF LoadRest, LoadSsid, LoadPass
    <3> QED BY <3>2, <3>3, <3>4 DEF TypeOK, storage, task
  <2> QED BY <1>4, <2>1, <2>2 DEF Main
<1>5. CASE Serial
  <2>1. CASE SetSsid \/ SetPass
    BY <2>1 DEF SetSsid, SetPass, PassOf, TypeOK, Keys, boot
  <2>2. CASE Commit \/ NothingToErase \/ Erase \/ CommitErase
    BY <2>2, BlankIsWhole DEF Commit, NothingToErase, Erase, CommitErase, TypeOK, boot, storage
  <2> QED BY <1>5, <2>1, <2>2 DEF Serial
<1>6. CASE WriteFails \/ FactoryReset \/ \E n \in Nets : SaveWifi(n)
  BY <1>6 DEF WriteFails, FactoryReset, SaveWifi, TypeOK, storage, boot
<1>7. CASE UNCHANGED vars
  BY <1>7 DEF vars, storage, boot, task, TypeOK
<1> QED BY <1>1, <1>2, <1>3, <1>4, <1>5, <1>6, <1>7 DEF Next

\* Every variable keeps to its type.
THEOREM TypeCorrect == Spec => []TypeOK
<1>1. ASSUME Init PROVE TypeOK
  BY <1>1, StoreAssumption, BlankIsWhole DEF Init, TypeOK, Defaults, Configs, Reading
<1> QED BY <1>1, TypeStep, PTL DEF Spec

-----------------------------------------------------------------------------
(* The store *)

\* With nothing under way that is not committed, a power cut takes nothing.
LEMMA CutKeepsCommitted ==
  ASSUME TypeOK, nvs = flash, PowerCut PROVE nvs' = nvs /\ flash' = flash
<1>1. nvs \in Keys /\ nvs' \in Keys
  BY DEF TypeOK, PowerCut
<1>2. \A x \in {"ssid", "pass", "ip", "transport"} : nvs'[x] = nvs[x]
  BY <1>1 DEF PowerCut, Keys
<1>3. ASSUME NEW k \in Keys
      PROVE  k = [x \in {"ssid", "pass", "ip", "transport"} |-> k[x]]
  BY <1>3 DEF Keys
<1>4. nvs' = nvs
  BY <1>1, <1>2, <1>3
<1> QED BY <1>4 DEF PowerCut

\* StoreInv survives every step.
LEMMA StoreStep == ASSUME TypeOK, StoreInv, [Next]_vars PROVE StoreInv'
<1> USE StoreAssumption
<1>1. CASE HostWrites
  BY <1>1, SettingsAreWhole, BlankIsWhole DEF HostWrites, StoreInv, boot
<1>2. CASE PowerOn
  <2>1. main = "off" /\ main' = "hasStream" /\ serial' = "idle"
    BY <1>2 DEF PowerOn, StoreInv
  <2>2. CASE UNCHANGED <<nvs, flash, answer, torn>>
    BY <2>1, <2>2 DEF StoreInv
  <2>3. CASE nvs' = Blank /\ flash' = Blank /\ answer' = "none" /\ torn' = FALSE
    BY <2>1, <2>3, BlankIsWhole DEF StoreInv
  <2> QED BY <1>2, <2>2, <2>3 DEF PowerOn
<1>3. CASE PowerCut
  BY <1>3, CutKeepsCommitted DEF PowerCut, StoreInv, TypeOK
<1>4. CASE Main
  <2>1. main' # "off" /\ UNCHANGED <<nvs, flash, task>>
    BY <1>4 DEF Main, HasStream, LoadIp, LoadRest, HasWifi, LoadSsid, LoadPass, WifiInit,
                storage, boot
  <2> QED BY <2>1 DEF StoreInv, task
<1>5. CASE Serial
  <2>1. CASE SetSsid \/ SetPass
    BY <2>1 DEF SetSsid, SetPass, StoreInv, TypeOK, Keys, boot
  <2>2. CASE Commit
    BY <2>2 DEF Commit, StoreInv, TypeOK, Whole, boot
  <2>3. CASE NothingToErase \/ Erase \/ CommitErase
    BY <2>3, BlankIsWhole DEF NothingToErase, Erase, CommitErase, StoreInv, storage, boot
  <2> QED BY <1>5, <2>1, <2>2, <2>3 DEF Serial
<1>6. CASE WriteFails \/ FactoryReset \/ \E n \in Nets : SaveWifi(n)
  BY <1>6 DEF WriteFails, FactoryReset, SaveWifi, StoreInv, storage, boot
<1>7. CASE UNCHANGED vars
  BY <1>7 DEF vars, storage, boot, task, StoreInv
<1> QED BY <1>1, <1>2, <1>3, <1>4, <1>5, <1>6, <1>7 DEF Next

\* The inductive invariant holds in every state: nothing a finished operation wrote is still
\* at the mercy of a power cut.
THEOREM AlwaysStoreInv == Spec => []StoreInv
<1>1. ASSUME Init PROVE StoreInv
  BY <1>1, StoreAssumption, BlankIsWhole DEF Init, StoreInv
<1> QED BY <1>1, StoreStep, TypeCorrect, PTL DEF Spec

\* A name and the password of another network never meet, unless an operation was broken
\* off: for any number of power cuts, failures and commands.
THEOREM AlwaysPairIsWhole == Spec => []PairIsWhole
<1>1. StoreInv => PairIsWhole
  BY DEF StoreInv, PairIsWhole
<1> QED BY <1>1, AlwaysStoreInv, PTL

\* What was answered to be saved, or erased, stays so through any number of power cuts.
THEOREM AlwaysDoneIsDurable == Spec => []DoneIsDurable
<1>1. StoreInv => DoneIsDurable
  BY DEF StoreInv, DoneIsDurable
<1> QED BY <1>1, AlwaysStoreInv, PTL

-----------------------------------------------------------------------------
(* The boot *)

\* What the keys mean for the stream, case by case.
LEMMA StreamCases ==
  ASSUME NEW k
  PROVE  /\ k.transport = "usb" => StreamOf(k) = "usb"
         /\ k.ip \notin {"", Absent} /\ k.transport # "usb" => StreamOf(k) = "wifi"
         /\ k.ip \in {"", Absent} /\ k.transport # "usb" => StreamOf(k) = "none"
<1>1. ASSUME k.transport = "usb" PROVE StreamOf(k) = "usb"
  BY <1>1, Zenon DEF StreamOf
<1>2. ASSUME k.ip \notin {"", Absent}, k.transport # "usb" PROVE StreamOf(k) = "wifi"
  BY <1>2, Zenon DEF StreamOf
<1>3. ASSUME k.ip \in {"", Absent}, k.transport # "usb" PROVE StreamOf(k) = "none"
  BY <1>3, Zenon DEF StreamOf
<1> QED BY <1>1, <1>2, <1>3

\* While app_main reads, the task of the serial protocol changes no key but by erasing all
\* of them, and that is remembered.
LEMMA ReadingIsAlone ==
  ASSUME TypeOK, ReadInv, Serial, main \in Reading
  PROVE  /\ UNCHANGED <<main, cfg, image>>
         /\ serial' \in {"idle", "erase", "commitErase"}
         /\ ~crossed' => ~crossed /\ nvs' = nvs /\ ready' = ready
<1>1. serial \in {"idle", "erase", "commitErase"}
  BY DEF ReadInv
<1>2. NothingToErase \/ Erase \/ CommitErase
  BY <1>1 DEF Serial, SetSsid, SetPass, Commit
<1> QED BY <1>2 DEF NothingToErase, Erase, CommitErase, storage, boot, TypeOK

\* ReadInv survives every step that app_main takes while it boots.
LEMMA MainReads == ASSUME TypeOK, ReadInv, Main PROVE ReadInv'
<1> USE StoreAssumption
<1>1. UNCHANGED <<nvs, image, crossed, serial>> /\ main # "off" /\ main' # "off"
  BY DEF Main, HasStream, LoadIp, LoadRest, HasWifi, LoadSsid, LoadPass, WifiInit,
         storage, boot, task
<1>2. CASE crossed
  <2>1. main' \in Reading => main \in Reading
    BY <1>2 DEF Main, HasStream, LoadIp, LoadRest, HasWifi, LoadSsid, LoadPass, WifiInit,
                Reading, boot
  <2> QED BY <1>1, <1>2, <2>1 DEF ReadInv
<1>3. CASE ~crossed
  <2>1. image \in Keys /\ (main \in Reading => ready /\ nvs = image)
    BY <1>3 DEF ReadInv, TypeOK
  <2>s. /\ image.transport = "usb" => StreamOf(image) = "usb"
        /\ image.ip \notin {"", Absent} /\ image.transport # "usb" => StreamOf(image) = "wifi"
        /\ image.ip \in {"", Absent} /\ image.transport # "usb" => StreamOf(image) = "none"
    BY StreamCases
  <2>i. StreamOf(image') = StreamOf(image) /\ Halved(image') = Halved(image)
    BY <1>1
  <2>2. CASE HasStream
    <3>1. main = "hasStream" /\ cfg' = cfg /\ cfg = Defaults /\ ready' = ready
      BY <2>2, <1>3 DEF HasStream, ReadInv, storage
    <3>2. ready /\ nvs = image
      BY <2>1, <3>1 DEF Reading
    <3>3. serial \in {"idle", "erase", "commitErase"}
      BY <3>1 DEF ReadInv, Reading
    <3>4. CASE main' = "loadIp"
      <4>1. image.transport = "usb" \/ image.ip \notin {"", Absent}
        BY <2>2, <3>2, <3>4 DEF HasStream, config_manager_has_stream
      <4> QED BY <1>1, <3>1, <3>2, <3>3, <3>4, <4>1 DEF ReadInv, Reading
    <3>5. CASE main' = "hasWifi"
      <4>1. StreamOf(image) = "none"
        BY <2>2, <3>2, <3>5, <2>s DEF HasStream, config_manager_has_stream
      <4> QED BY <1>1, <2>i, <3>1, <3>2, <3>3, <3>5, <4>1 DEF ReadInv, Reading, Defaults
    <3> QED BY <2>2, <3>4, <3>5 DEF HasStream
  <2>3. CASE LoadIp
    <3>1. main = "loadIp" /\ cfg' = cfg /\ cfg = Defaults /\ ready' = ready
      BY <2>3, <1>3 DEF LoadIp, ReadInv, storage
    <3>2. /\ ready /\ nvs = image /\ serial \in {"idle", "erase", "commitErase"}
          /\ image.transport = "usb" \/ image.ip \notin {"", Absent}
      BY <1>3, <2>1, <3>1 DEF ReadInv, Reading
    <3>3. CASE main' = "loadRest"
      <4>1. image.ip # Absent
        BY <2>3, <3>2, <3>3 DEF LoadIp
      <4> QED BY <1>1, <3>1, <3>2, <3>3, <4>1 DEF ReadInv, Reading
    <3>4. CASE main' = "hasWifi"
      <4>1. Halved(image)
        BY <2>3, <3>2, <3>4 DEF LoadIp, Halved
      <4> QED BY <1>1, <2>i, <3>1, <3>2, <3>4, <4>1 DEF ReadInv, Reading, Defaults
    <3> QED BY <2>3, <3>3, <3>4 DEF LoadIp
  <2>4. CASE LoadRest
    <3>1. main = "loadRest" /\ cfg = Defaults /\ ready' = ready
      BY <2>4, <1>3 DEF LoadRest, ReadInv, storage
    <3>2. /\ ready /\ nvs = image /\ serial \in {"idle", "erase", "commitErase"}
          /\ image.ip # Absent /\ (image.transport = "usb" \/ image.ip # "")
      BY <1>3, <2>1, <3>1 DEF ReadInv, Reading
    <3>3. CASE main' = "up"
      BY <1>1, <3>3 DEF ReadInv, Reading
    <3>4. CASE nvs.transport # "usb" /\ cfg' = [cfg EXCEPT !.stream = "wifi"] /\ main' = "hasWifi"
      <4>1. StreamOf(image) = "wifi"
        BY <2>s, <3>2, <3>4
      <4>2. cfg'.stream = "wifi" /\ cfg'.ssid = "Kconfig" /\ cfg'.pass = "Kconfig"
        BY <3>1, <3>4 DEF Defaults
      <4> QED BY <1>1, <2>i, <3>1, <3>2, <3>4, <4>1, <4>2 DEF ReadInv, Reading
    <3> QED BY <2>4, <3>3, <3>4 DEF LoadRest
  <2>5. CASE HasWifi \/ LoadSsid \/ LoadPass
    BY <1>1, <1>3, <2>1, <2>5
       DEF HasWifi, LoadSsid, LoadPass, ReadInv, Reading, TypeOK, Configs, storage, task
  <2>6. CASE WifiInit
    BY <1>1, <1>3, <2>6 DEF WifiInit, ReadInv, Reading, boot, task
  <2> QED BY <2>2, <2>3, <2>4, <2>5, <2>6 DEF Main
<1> QED BY <1>2, <1>3

\* ReadInv survives every step.
LEMMA ReadStep == ASSUME TypeOK, ReadInv, [Next]_vars PROVE ReadInv'
<1> USE StoreAssumption
<1>1. CASE HostWrites
  BY <1>1 DEF HostWrites, ReadInv, boot, Reading
<1>2. CASE PowerOn
  BY <1>2 DEF PowerOn, ReadInv, Reading
<1>3. CASE PowerCut
  BY <1>3 DEF PowerCut, ReadInv, Reading
<1>4. CASE Main
  BY <1>4, MainReads
<1>5. CASE Serial
  <2>1. CASE main \in Reading
    <3>1. main # "off"
      BY <2>1 DEF Reading
    <3>2. /\ UNCHANGED <<main, cfg, image>>
          /\ serial' \in {"idle", "erase", "commitErase"}
          /\ ~crossed' => ~crossed /\ nvs' = nvs /\ ready' = ready
      BY <1>5, <2>1, ReadingIsAlone
    <3>3. StreamOf(image') = StreamOf(image) /\ Halved(image') = Halved(image)
      BY <3>2
    <3>4. CASE crossed'
      BY <2>1, <3>1, <3>2, <3>4 DEF ReadInv
    <3>5. CASE ~crossed'
      <4>1. ~crossed /\ UNCHANGED <<nvs, ready>>
        BY <3>2, <3>5
      <4> QED BY <2>1, <3>1, <3>2, <3>3, <4>1 DEF ReadInv
    <3> QED BY <3>4, <3>5
  <2>2. CASE main \notin Reading
    <3>1. UNCHANGED <<main, cfg, image>> /\ (~crossed' => ~crossed)
      BY <1>5 DEF TypeOK, Serial, SetSsid, SetPass, Commit, NothingToErase, Erase, CommitErase,
                  storage, boot
    <3>2. main # "off"
      BY <1>5 DEF ReadInv, Serial, SetSsid, SetPass, Commit, NothingToErase, Erase,
                  CommitErase
    <3> QED BY <2>2, <3>1, <3>2 DEF ReadInv, Reading
  <2> QED BY <2>1, <2>2
<1>6. CASE WriteFails \/ FactoryReset \/ \E n \in Nets : SaveWifi(n)
  BY <1>6 DEF WriteFails, FactoryReset, SaveWifi, ReadInv, Reading, storage, boot
<1>7. CASE UNCHANGED vars
  BY <1>7 DEF vars, storage, boot, task, ReadInv
<1> QED BY <1>1, <1>2, <1>3, <1>4, <1>5, <1>6, <1>7 DEF Next

\* What app_main reads key by key, while commands come in and the power may fail, is what
\* the keys meant together when the device was switched on.
THEOREM AlwaysReadInv == Spec => []ReadInv
<1>1. ASSUME Init PROVE ReadInv
  BY <1>1 DEF Init, ReadInv, Reading
<1> QED BY <1>1, ReadStep, TypeCorrect, PTL DEF Spec

\* A device that stands on app_main's loop works by the settings it was switched on with.
THEOREM AlwaysBootFollowsFlash == Spec => []BootFollowsFlash
<1> USE StoreAssumption
<1>1. ASSUME Init PROVE BootFollowsFlash
  BY <1>1 DEF Init, BootFollowsFlash
<1>2. ASSUME TypeOK, ReadInv, BootFollowsFlash, [Next]_vars PROVE BootFollowsFlash'
  <2>1. CASE main = "up"
    <3>1. (UNCHANGED <<main, cfg, image>> /\ (~crossed' => ~crossed)) \/ main' = "off"
      BY <1>2, <2>1
         DEF Next, HostWrites, PowerOn, PowerCut, Main, HasStream, LoadIp, LoadRest, HasWifi,
             LoadSsid, LoadPass, WifiInit, Serial, SetSsid, SetPass, Commit, NothingToErase,
             Erase, CommitErase, WriteFails, FactoryReset, SaveWifi, vars, storage, boot
    <3> QED BY <1>2, <2>1, <3>1 DEF BootFollowsFlash
  <2>2. CASE main # "up" /\ main' = "up" /\ ~crossed'
    <3>1. Main /\ main # "off" /\ main \in Reading
      BY <1>2, <2>2
         DEF Next, HostWrites, PowerOn, PowerCut, Main, HasStream, LoadIp, LoadRest, HasWifi,
             LoadSsid, LoadPass, WifiInit, Serial, SetSsid, SetPass, Commit, NothingToErase,
             Erase, CommitErase, WriteFails, FactoryReset, SaveWifi, vars, storage, boot,
             Reading
    <3>2. ~crossed /\ ready /\ nvs = image /\ image' = image /\ Halved(image') = Halved(image)
      <4>1. image' = image /\ crossed' = crossed
        BY <3>1 DEF Main, HasStream, LoadIp, LoadRest, HasWifi, LoadSsid, LoadPass,
                    WifiInit, boot
      <4> QED BY <1>2, <2>2, <3>1, <4>1 DEF ReadInv
    <3>3. CASE LoadRest
      <4>1. /\ cfg = Defaults /\ cfg' = [cfg EXCEPT !.stream = "usb"]
            /\ image.ip # Absent /\ image.transport = "usb"
        BY <1>2, <2>2, <3>2, <3>3 DEF LoadRest, ReadInv
      <4>2. StreamOf(image) = "usb"
        BY <4>1, StreamCases
      <4>3. CredentialsOf(image) = <<"Kconfig", "Kconfig">>
        BY <4>2 DEF CredentialsOf
      <4>4. cfg'.stream = "usb" /\ cfg'.ssid = "Kconfig" /\ cfg'.pass = "Kconfig"
        BY <4>1 DEF Defaults
      <4> QED BY <3>2, <4>2, <4>3, <4>4 DEF BootFollowsFlash
    <3>4. CASE HasWifi
      <4>1. /\ cfg' = cfg /\ (~Halved(image) => cfg.stream = StreamOf(image))
            /\ image.ssid = Absent
            /\ cfg.pass = "Kconfig" /\ cfg.ssid = "Kconfig"
        BY <1>2, <2>2, <3>2, <3>4 DEF HasWifi, ReadInv
      <4> QED BY <3>2, <4>1 DEF CredentialsOf, BootFollowsFlash
    <3>5. CASE LoadSsid
      BY <1>2, <2>2, <3>2, <3>5 DEF LoadSsid, ReadInv
    <3>6. CASE LoadPass
      BY <1>2, <2>2, <3>2, <3>6
         DEF LoadPass, ReadInv, CredentialsOf, BootFollowsFlash, TypeOK, Configs
    <3> QED
      BY <2>2, <3>1, <3>3, <3>4, <3>5, <3>6 DEF Main, HasStream, LoadIp, WifiInit
  <2> QED BY <2>1, <2>2 DEF BootFollowsFlash
<1> QED BY <1>1, <1>2, TypeCorrect, AlwaysReadInv, PTL DEF Spec
=============================================================================
