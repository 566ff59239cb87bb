--------------------------- MODULE BootModeProofs ---------------------------
(***************************************************************************)
(* What the settings and the modes of the next boot keep to, for every     *)
(* number of retries and of interventions.  That nothing is lost by the    *)
(* interleaved saves rests on what the tasks in save_config have yet to    *)
(* write: an item that differs in flash is on the way of one of them.      *)
(***************************************************************************)
EXTENDS BootMode, TLAPS

\* The items that the task s has yet to write.
AtPos(k) == Item[((k - 1) % Len(Item)) + 1]
Total(s) == Passes(s) * Len(Item)
ToWrite(s) == {AtPos(k) : k \in {j \in 1 .. Total(s) : save[s] > 0 /\ j >= save[s]}}

Pending == \A i \in Items : nvs[i] = config[i] \/ \E s \in Saver : i \in ToWrite(s)

\* Nothing runs before app_main has ended.
Quiet == phase # "up" => save = NotSaving /\ link = "none" /\ ~served
                         /\ nvs = config /\ timer = [boot |-> "off", loss |-> "off"]

\* In a station that has not connected only the console writes.
Unserved ==
    phase = "up" /\ mode = "station" /\ ~served =>
        /\ link # "up" /\ save["event"] = 0 /\ save["http"] = 0
        /\ save["console"] = 0 => nvs["wifi_mode"] = "soft_ap"

SoftAPHasNoLink == link # "none" => phase = "up" /\ mode = "station"

IInv == TypeOK /\ ServingKept /\ Pending /\ Quiet /\ Unserved /\ SoftAPHasNoLink

\* The three items of the table, in the order save_config writes them, once or twice.
LEMMA Positions ==
    /\ Len(Item) = 3
    /\ AtPos(1) = "wifi_ssid" /\ AtPos(2) = "wifi_pswd" /\ AtPos(3) = "wifi_mode"
    /\ \A s \in Saver : Total(s) \in {3, 6}
    /\ \A k \in 1 .. 6 : AtPos(k) \in Items
<1>1. Len(Item) = 3 /\ Item[1] = "wifi_ssid" /\ Item[2] = "wifi_pswd" /\ Item[3] = "wifi_mode"
  BY DEF Item
<1>2. \A s \in Saver : Total(s) \in {3, 6}
  BY <1>1 DEF Total, Passes
<1>3. /\ ((1 - 1) % 3) + 1 = 1 /\ ((2 - 1) % 3) + 1 = 2 /\ ((3 - 1) % 3) + 1 = 3
      /\ \A k \in 1 .. 6 : ((k - 1) % 3) + 1 \in {1, 2, 3}
  OBVIOUS
<1>4. AtPos(1) = "wifi_ssid" /\ AtPos(2) = "wifi_pswd" /\ AtPos(3) = "wifi_mode"
  BY <1>1, <1>3 DEF AtPos
<1>5. \A k \in 1 .. 6 : AtPos(k) \in Items
  <2> SUFFICES ASSUME NEW k \in 1 .. 6 PROVE AtPos(k) \in Items
    OBVIOUS
  <2>1. AtPos(k) = Item[((k - 1) % 3) + 1]
    BY <1>1 DEF AtPos
  <2>2. ((k - 1) % 3) + 1 \in {1, 2, 3}
    BY <1>3
  <2> QED
    BY <1>1, <2>1, <2>2 DEF Items
<1> QED
  BY <1>1, <1>2, <1>4, <1>5

\* A task that starts to save has every item to write.
LEMMA AllToWrite ==
    ASSUME NEW s \in Saver, StartSave(s), save \in [Saver -> Nat]
    PROVE  /\ save'[s] = 1
           /\ \A r \in Saver \ {s} : save'[r] = save[r]
           /\ \A i \in Items : i \in ToWrite(s)'
<1>1. save'[s] = 1 /\ \A r \in Saver \ {s} : save'[r] = save[r]
  BY DEF StartSave
<1>2. \A k \in 1 .. 3 : AtPos(k) \in ToWrite(s)'
  BY <1>1, Positions DEF ToWrite, Total, AtPos, Passes
<1>3. \A i \in Items : \E k \in 1 .. 3 : i = AtPos(k)
  BY Positions DEF Items
<1> QED
  BY <1>1, <1>2, <1>3

\* What a task still has to write after one write is the rest.
LEMMA RestToWrite ==
    ASSUME NEW s \in Saver, save \in [Saver -> Nat], save[s] > 0, save[s] <= Total(s),
           save' = [save EXCEPT ![s] = IF LastWrite(s) THEN 0 ELSE save[s] + 1]
    PROVE  \A i \in ToWrite(s) : i = Written(s) \/ i \in ToWrite(s)'
<1> SUFFICES ASSUME NEW i \in ToWrite(s), i # Written(s)
             PROVE  i \in ToWrite(s)'
  OBVIOUS
<1>1. PICK k \in 1 .. Total(s) : i = AtPos(k) /\ k >= save[s]
  BY DEF ToWrite
<1>2. Total(s) \in Nat
  BY Positions
<1>3. k # save[s]
  BY <1>1 DEF Written, AtPos
<1>4. k > save[s] /\ save[s] \in Nat /\ k <= Total(s)
  BY <1>1, <1>2, <1>3
<1>5. ~LastWrite(s)
  BY <1>2, <1>4 DEF LastWrite, Total
<1>6. save'[s] = save[s] + 1
  BY <1>5
<1>7. save'[s] > 0 /\ k >= save'[s]
  BY <1>1, <1>4, <1>6
<1>8. ToWrite(s)' = {AtPos(j) : j \in {j \in 1 .. Total(s) : save'[s] > 0 /\ j >= save'[s]}}
  BY DEF ToWrite, Total, AtPos, Passes
<1> QED
  BY <1>1, <1>7, <1>8

\* After a restart only the flash is left, and the table is read from it.
LEMMA RestartIInv ==
    ASSUME NEW flash \in Table, Restart(flash), UNCHANGED router,
           IInv, touches' \in 0 .. MaxTouches
    PROVE  IInv'
<1>1. /\ phase' = "off" /\ mode' = "soft_ap" /\ nvs' = flash /\ config' = flash /\ used' = flash
      /\ flag' = FALSE /\ timer' = [boot |-> "off", loss |-> "off"]
      /\ link' = "none" /\ retry' = 0 /\ served' = FALSE
      /\ save' = [s \in Saver |-> 0] /\ router' = router
  BY DEF Restart, NotSaving
<1>2. \A s \in Saver : save'[s] = 0 /\ save'[s] <= Passes(s) * Len(Item)
  BY <1>1 DEF Passes, Item
<1>3. timer' \in [{"boot", "loss"} -> {"off", "armed", "fired"}]
  BY <1>1
<1>4. save' \in [Saver -> Nat]
  BY <1>1
<1>5. retry' \in 0 .. MaxRetry
  BY <1>1, BootAssumption
<1>6. router' \in BOOLEAN
  BY <1>1 DEF IInv, TypeOK
<1>7. flag' \in BOOLEAN /\ served' \in BOOLEAN
  BY <1>1
<1>8. TypeOK'
  BY <1>1, <1>2, <1>3, <1>4, <1>5, <1>6, <1>7 DEF TypeOK, Modes
<1> QED
  BY <1>1, <1>8
  DEF IInv, ServingKept, Pending, Quiet, Unserved, SoftAPHasNoLink, NotSaving

\* The gateway as it is taken out of its box satisfies the invariant.
LEMMA InitIInv == Init => IInv
<1> SUFFICES ASSUME Init PROVE IInv
  OBVIOUS
<1>1. nvs \in Table /\ config = nvs /\ used = nvs
  BY DEF Init, Table, Values, Items
<1>2. \A s \in Saver : save[s] = 0 /\ save[s] <= Passes(s) * Len(Item)
  BY DEF Init, NotSaving, Passes, Item
<1>3. save \in [Saver -> Nat] /\ timer \in [{"boot", "loss"} -> {"off", "armed", "fired"}]
  BY DEF Init, NotSaving
<1>4. retry \in 0 .. MaxRetry /\ touches \in 0 .. MaxTouches
  BY BootAssumption DEF Init
<1>5. flag \in BOOLEAN /\ served \in BOOLEAN
  BY DEF Init
<1>6. TypeOK
  BY <1>1, <1>2, <1>3, <1>4, <1>5 DEF Init, TypeOK, Modes
<1> QED
  BY <1>1, <1>6
  DEF Init, IInv, ServingKept, Pending, Quiet, Unserved, SoftAPHasNoLink

\* Steps that leave the settings and the saves as they are.
LEMMA SameSettings ==
    ASSUME Pending, UNCHANGED <<nvs, config, save>>
    PROVE  Pending'
BY DEF Pending, ToWrite, Total, AtPos

\* An item written by save_config brings the table in flash closer to the one in memory.
LEMMA WriteIInv == IInv /\ (\E s \in Saver : WriteItem(s)) => IInv'
<1> SUFFICES ASSUME IInv, NEW s \in Saver, WriteItem(s) PROVE IInv'
  OBVIOUS
<1> DEFINE flash == [nvs EXCEPT ![Written(s)] = config[Written(s)]]
<1>1. save \in [Saver -> Nat] /\ save[s] > 0 /\ save[s] <= Total(s) /\ save[s] \in 1 .. 6
  BY Positions DEF IInv, TypeOK, WriteItem, Total
<1>2. Written(s) \in Items
  BY <1>1, Positions DEF Written, AtPos
<1>3. nvs \in Table /\ config \in Table /\ flash \in Table
  <2>1. nvs \in Table /\ config \in Table
    BY DEF IInv, TypeOK
  <2> QED
    BY <1>2, <2>1 DEF Table
<1>4. touches \in 0 .. MaxTouches
  BY DEF IInv, TypeOK
<1>5. CASE LastWrite(s) /\ s = "console"
  BY <1>3, <1>4, <1>5, RestartIInv DEF WriteItem
<1>6. CASE ~(LastWrite(s) /\ s = "console")
  <2>1. /\ nvs' = flash
        /\ save' = [save EXCEPT ![s] = IF LastWrite(s) THEN 0 ELSE save[s] + 1]
        /\ UNCHANGED <<phase, mode, config, used, flag, timer, link, retry, served, router, touches>>
    BY <1>6 DEF WriteItem
  <2>2. /\ save' \in [Saver -> Nat] /\ save'[s] <= Passes(s) * Len(Item)
        /\ \A r \in Saver \ {s} : save'[r] = save[r]
    BY <1>1, <2>1, Positions DEF LastWrite, Total
  <2>3. TypeOK'
    BY <1>3, <2>1, <2>2 DEF IInv, TypeOK
  <2>4. Pending'
    <3> SUFFICES ASSUME NEW i \in Items, nvs'[i] # config'[i]
                 PROVE  \E r \in Saver : i \in ToWrite(r)'
      BY DEF Pending
    <3>1. nvs[i] # config[i] /\ i # Written(s)
      BY <1>3, <2>1 DEF Table
    <3>2. PICK r \in Saver : i \in ToWrite(r)
      BY <3>1 DEF IInv, Pending
    <3>3. CASE r = s
      BY <1>1, <2>1, <3>1, <3>2, <3>3, RestToWrite
    <3>4. CASE r # s
      BY <2>2, <3>2, <3>4 DEF ToWrite, Total, AtPos
    <3> QED
      BY <3>3, <3>4
  <2>5. phase = "up"
    BY <1>1 DEF IInv, Quiet, NotSaving
  <2>6. Unserved'
    <3> SUFFICES ASSUME mode = "station", ~served
                 PROVE  /\ link' # "up" /\ save'["event"] = 0 /\ save'["http"] = 0
                        /\ save'["console"] = 0 => nvs'["wifi_mode"] = "soft_ap"
      BY <2>1 DEF Unserved
    <3>1. link # "up" /\ save["event"] = 0 /\ save["http"] = 0
      BY <2>5 DEF IInv, Unserved
    <3>2. s = "console"
      BY <1>1, <3>1 DEF Saver
    <3>3. ~LastWrite(s)
      BY <1>6, <3>2
    <3>4. save'["console"] = save["console"] + 1
      BY <1>1, <2>1, <3>2, <3>3
    <3> QED
      BY <1>1, <2>1, <2>2, <3>1, <3>2, <3>4 DEF Saver
  <2> QED
    BY <2>1, <2>3, <2>4, <2>5, <2>6 DEF IInv, ServingKept, Quiet, SoftAPHasNoLink
<1> QED
  BY <1>5, <1>6

\* A form of the web page leaves a table.
LEMMA UpdatedTable ==
    ASSUME NEW t \in Table, NEW new \in Forms
    PROVE  Updated(t, new) \in Table
<1>1. PICK S \in SUBSET Items :
          /\ new \in [S -> {"home", "other"} \cup Modes]
          /\ \A i \in S : new[i] \in Values(i)
  BY DEF Forms
<1>2. \A i \in Items : Updated(t, new)[i] \in Values(i) \cup {"none"}
  BY <1>1 DEF Updated, Table
<1>3. \A i \in Items : Values(i) \subseteq {"home", "other"} \cup Modes
  BY DEF Values
<1> QED
  BY <1>2, <1>3 DEF Table, Updated

\* So does a change of the mode.
LEMMA ModeOfTable ==
    ASSUME NEW t \in Table, NEW m \in Modes
    PROVE  /\ [t EXCEPT !["wifi_mode"] = m] \in Table
           /\ [t EXCEPT !["wifi_mode"] = m]["wifi_mode"] = m
BY DEF Table, Values, Items, Modes

\* A task that starts to save covers every item: nothing else is asked of the table.
LEMMA PendingOnceStarted ==
    ASSUME NEW s \in Saver, StartSave(s), save \in [Saver -> Nat], save[s] = 0
    PROVE  /\ Pending'
           /\ save' \in [Saver -> Nat]
           /\ save'[s] = 1 /\ \A r \in Saver \ {s} : save'[r] = save[r]
           /\ save'[s] <= Passes(s) * Len(Item)
<1>1. 1 <= Passes(s) * Len(Item)
  BY Positions DEF Passes
<1>2. save' \in [Saver -> Nat]
  BY DEF StartSave
<1> QED
  BY <1>1, <1>2, AllToWrite DEF Pending

\* Every step keeps the invariant.
LEMMA NextIInv == IInv /\ [Next]_vars => IInv'
<1> SUFFICES ASSUME IInv, [Next]_vars PROVE IInv'
  OBVIOUS
<1> USE DEF IInv
<1>0. TypeOK /\ Pending /\ MaxRetry \in Nat /\ MaxTouches \in Nat
  BY BootAssumption
<1>1. CASE PowerOn
  <2>1. /\ phase = "off" /\ phase' = "boot"
        /\ UNCHANGED <<config, nvs, used, flag, timer, link, retry, served, save, router>>
    BY <1>1 DEF PowerOn
  <2>2. mode' \in Modes /\ touches' \in 0 .. MaxTouches
    BY <1>0, <1>1 DEF PowerOn, ModeFor, Modes, Touch, TypeOK
  <2>3. TypeOK'
    BY <1>0, <2>1, <2>2 DEF TypeOK
  <2>4. Pending'
    BY <2>1, SameSettings
  <2> QED
    BY <2>1, <2>3, <2>4 DEF ServingKept, Quiet, Unserved, SoftAPHasNoLink
<1>2. CASE Prepare
  <2>1. /\ phase = "boot" /\ phase' = "up"
        /\ config' = OtherMode(config) /\ nvs' = config'
        /\ flag' = TRUE /\ timer' = [timer EXCEPT !.boot = "armed"]
        /\ link' \in {"connecting", "none"} /\ (link' # "none" => mode = "station")
        /\ UNCHANGED <<mode, used, retry, served, save, router, touches>>
    BY <1>2 DEF Prepare
  <2>2. save = NotSaving
    BY <2>1 DEF Quiet
  <2>3. config' \in Table /\ (mode = "station" => nvs'["wifi_mode"] = "soft_ap")
    BY <1>0, <2>1, ModeOfTable, ZenonT(40) DEF OtherMode, TypeOK, Modes
  <2>4. TypeOK'
    BY <1>0, <2>1, <2>3 DEF TypeOK
  <2>5. Pending'
    BY <2>1 DEF Pending
  <2>6. Unserved'
    BY <2>1, <2>2, <2>3 DEF Unserved, NotSaving, Saver
  <2> QED
    BY <2>1, <2>4, <2>5, <2>6 DEF ServingKept, Quiet, SoftAPHasNoLink
<1>3. CASE PowerCut
  BY <1>0, <1>3, RestartIInv DEF PowerCut, Touch, TypeOK
<1>4. ASSUME NEW t \in {"boot", "loss"}, TimerFires(t) PROVE IInv'
  <2>1. CASE flag
    BY <1>0, <1>4, <2>1, RestartIInv DEF TimerFires, TypeOK
  <2>2. CASE ~flag
    <3>1. /\ timer[t] = "armed" /\ timer' = [timer EXCEPT ![t] = "fired"]
          /\ UNCHANGED <<phase, mode, config, nvs, used, flag, link, retry, served, save,
                         router, touches>>
      BY <1>4, <2>2 DEF TimerFires
    <3>2. TypeOK'
      BY <1>0, <3>1 DEF TypeOK
    <3>3. Pending'
      BY <3>1, SameSettings
    <3>4. phase = "up"
      BY <3>1 DEF Quiet
    <3> QED
      BY <3>1, <3>2, <3>3, <3>4 DEF ServingKept, Quiet, Unserved, SoftAPHasNoLink
  <2> QED
    BY <2>1, <2>2
<1>5. ASSUME NEW s \in Saver, WriteItem(s) PROVE IInv'
  BY <1>5, WriteIInv
<1>6. CASE Connected
  <2>1. /\ link = "connecting" /\ save["event"] = 0
        /\ link' = "up" /\ retry' = 0 /\ flag' = FALSE /\ served' = TRUE
        /\ UNCHANGED <<phase, mode, nvs, used, timer, router, touches>>
    BY <1>6 DEF Connected
  <2>2. phase = "up" /\ mode = "station"
    BY <2>1 DEF SoftAPHasNoLink
  <2>3. /\ config' \in Table /\ Pending' /\ save' \in [Saver -> Nat]
        /\ \A s \in Saver : save'[s] <= Passes(s) * Len(Item)
    <3>1. CASE served
      <4>1. UNCHANGED <<config, save, nvs>>
        BY <1>6, <3>1 DEF Connected
      <4> QED
        BY <1>0, <4>1, SameSettings DEF TypeOK, Passes
    <3>2. CASE ~served
      <4>1. config' = [config EXCEPT !["wifi_mode"] = "station"] /\ StartSave("event")
        BY <1>6, <3>2 DEF Connected
      <4>2. config' \in Table
        BY <1>0, <4>1, ModeOfTable DEF TypeOK, Modes
      <4>3. /\ "event" \in Saver /\ save \in [Saver -> Nat]
            /\ \A s \in Saver : save[s] <= Passes(s) * Len(Item)
        BY <1>0 DEF TypeOK, Saver
      <4> QED
        BY <2>1, <4>1, <4>2, <4>3, PendingOnceStarted DEF Passes
    <3> QED
      BY <3>1, <3>2
  <2>4. TypeOK'
    <3>1. retry' \in 0 .. MaxRetry
      BY <1>0, <2>1
    <3>2. flag' \in BOOLEAN /\ served' \in BOOLEAN
      BY <2>1
    <3> QED
      BY <1>0, <2>1, <2>3, <3>1, <3>2 DEF TypeOK
  <2> QED
    BY <2>1, <2>2, <2>3, <2>4 DEF ServingKept, Quiet, Unserved, SoftAPHasNoLink
<1>7. CASE Disconnected
  <2>1. /\ link # "none" /\ link' = "connecting"
        /\ timer' = [timer EXCEPT !.loss = IF @ = "off" THEN "armed" ELSE @]
        /\ UNCHANGED <<phase, mode, config, nvs, used, served, save, router, touches>>
    BY <1>7 DEF Disconnected
  <2>2. retry' \in 0 .. MaxRetry /\ flag' \in BOOLEAN
    <3>1. retry \in 0 .. MaxRetry /\ flag \in BOOLEAN
      BY <1>0 DEF TypeOK
    <3>2. CASE retry < MaxRetry
      <4>1. retry' = retry + 1 /\ flag' = flag
        BY <1>7, <3>2 DEF Disconnected
      <4> QED
        BY <1>0, <3>1, <3>2, <4>1
    <3>3. CASE ~(retry < MaxRetry)
      <4>1. retry' = 0 /\ flag' = TRUE
        BY <1>7, <3>3 DEF Disconnected
      <4> QED
        BY <1>0, <4>1
    <3> QED
      BY <3>2, <3>3
  <2>3. TypeOK'
    BY <1>0, <2>1, <2>2 DEF TypeOK
  <2>4. Pending'
    BY <2>1, SameSettings
  <2>5. phase = "up" /\ mode = "station"
    BY <2>1 DEF SoftAPHasNoLink
  <2> QED
    BY <2>1, <2>3, <2>4, <2>5 DEF ServingKept, Quiet, Unserved, SoftAPHasNoLink
<1>8. CASE RouterChanges
  <2>1. /\ router' = ~router
        /\ UNCHANGED <<phase, mode, config, nvs, used, flag, timer, link, retry,
                       served, save, touches>>
    BY <1>8 DEF RouterChanges
  <2>2. TypeOK'
    BY <1>0, <2>1 DEF TypeOK
  <2>3. Pending'
    BY <2>1, SameSettings
  <2> QED
    BY <2>1, <2>2, <2>3 DEF ServingKept, Quiet, Unserved, SoftAPHasNoLink
<1>9. CASE Apply
  <2>1. /\ phase = "up" /\ (mode = "soft_ap" \/ link = "up") /\ save["http"] = 0
        /\ touches' \in 0 .. MaxTouches /\ StartSave("http")
        /\ UNCHANGED <<phase, mode, nvs, used, flag, timer, link, retry, served, router>>
    BY <1>0, <1>9 DEF Apply, WebReachable, Touch, TypeOK
  <2>2. PICK new \in Forms : config' = Updated(config, new)
    BY <1>9 DEF Apply
  <2>3. config' \in Table
    BY <1>0, <2>2, UpdatedTable DEF TypeOK
  <2>4. /\ Pending' /\ save' \in [Saver -> Nat]
        /\ \A s \in Saver : save'[s] <= Passes(s) * Len(Item)
        /\ \A r \in Saver \ {"http"} : save'[r] = save[r]
    <3>1. /\ "http" \in Saver /\ save \in [Saver -> Nat]
          /\ \A s \in Saver : save[s] <= Passes(s) * Len(Item)
      BY <1>0 DEF TypeOK, Saver
    <3> QED
      BY <2>1, <3>1, PendingOnceStarted DEF Passes
  <2>5. TypeOK'
    BY <1>0, <2>1, <2>3, <2>4 DEF TypeOK
  <2>6. ~(mode = "station" /\ ~served)
    BY <2>1 DEF Unserved, Modes
  <2> QED
    BY <2>1, <2>4, <2>5, <2>6 DEF ServingKept, Quiet, Unserved, SoftAPHasNoLink
<1>10. CASE WebReboot
  BY <1>0, <1>10, RestartIInv DEF WebReboot, Touch, TypeOK
<1>11. CASE Command
  <2>1. /\ phase = "up" /\ save["console"] = 0
        /\ touches' \in 0 .. MaxTouches /\ flag' = FALSE
        /\ UNCHANGED <<phase, mode, nvs, used, timer, link, retry, served, router>>
    BY <1>0, <1>11 DEF Command, Touch, TypeOK
  <2>2. CASE UNCHANGED <<config, save>>
    <3>1. TypeOK'
      BY <1>0, <2>1, <2>2 DEF TypeOK
    <3>2. Pending'
      BY <2>1, <2>2, SameSettings
    <3> QED
      BY <2>1, <2>2, <3>1, <3>2 DEF ServingKept, Quiet, Unserved, SoftAPHasNoLink
  <2>3. CASE \E new \in Forms :
                /\ config' = [Updated(config, new) EXCEPT !["wifi_mode"] = "station"]
                /\ StartSave("console")
    <3>1. PICK new \in Forms :
             /\ config' = [Updated(config, new) EXCEPT !["wifi_mode"] = "station"]
             /\ StartSave("console")
      BY <2>3
    <3>2. config' \in Table
      BY <1>0, <3>1, UpdatedTable, ModeOfTable DEF TypeOK, Modes
    <3>3. /\ Pending' /\ save' \in [Saver -> Nat] /\ save'["console"] = 1
          /\ \A s \in Saver : save'[s] <= Passes(s) * Len(Item)
          /\ \A r \in Saver \ {"console"} : save'[r] = save[r]
      <4>1. /\ "console" \in Saver /\ save \in [Saver -> Nat]
            /\ \A s \in Saver : save[s] <= Passes(s) * Len(Item)
        BY <1>0 DEF TypeOK, Saver
      <4> QED
        BY <2>1, <3>1, <4>1, PendingOnceStarted DEF Passes
    <3>4. TypeOK'
      BY <1>0, <2>1, <3>2, <3>3 DEF TypeOK
    <3>5. Unserved'
      BY <2>1, <3>3 DEF Unserved, Saver
    <3> QED
      BY <2>1, <3>3, <3>4, <3>5 DEF ServingKept, Quiet, SoftAPHasNoLink
  <2> QED
    BY <1>11, <2>2, <2>3 DEF Command
<1>12. CASE UNCHANGED vars
  <2>1. UNCHANGED <<phase, mode, config, nvs, used, flag, timer, link, retry, served,
                    save, router, touches>>
    BY <1>12 DEF vars
  <2>2. TypeOK'
    BY <1>0, <2>1 DEF TypeOK
  <2>3. Pending'
    BY <2>1, SameSettings
  <2> QED
    BY <2>1, <2>2, <2>3 DEF ServingKept, Quiet, Unserved, SoftAPHasNoLink
<1> QED
  BY <1>1, <1>2, <1>3, <1>4, <1>5, <1>6, <1>7, <1>8, <1>9, <1>10, <1>11, <1>12 DEF Next

\* It therefore holds always.
LEMMA AlwaysIInv == Spec => []IInv
<1> QED
  BY InitIInv, NextIInv, PTL DEF Spec

\* Every variable keeps to its type, and the saves to their items.
THEOREM BootTyped == Spec => []TypeOK
<1>1. IInv => TypeOK
  BY DEF IInv
<1> QED
  BY <1>1, AlwaysIInv, PTL

\* No setting is lost to the interleaving of the saves of three tasks: once none is
\* saving, the flash holds the table.
THEOREM SettingsSaved == Spec => []SavedWhenQuiet
<1>1. IInv => SavedWhenQuiet
  <2> SUFFICES ASSUME IInv, phase = "up", save = NotSaving PROVE nvs = config
    BY DEF SavedWhenQuiet
  <2>1. \A s \in Saver : ToWrite(s) = {}
    BY DEF ToWrite, NotSaving
  <2>2. \A i \in Items : nvs[i] = config[i]
    BY <2>1 DEF IInv, Pending
  <2>3. nvs \in [Items -> {"none", "home", "other"} \cup Modes]
        /\ config \in [Items -> {"none", "home", "other"} \cup Modes]
    BY DEF IInv, TypeOK, Table
  <2> QED
    BY <2>2, <2>3
<1> QED
  BY <1>1, AlwaysIInv, PTL

\* A station boot that is cut short before it has served is followed by a soft access
\* point, whatever cut it short.
THEOREM UnservedAlwaysReturns == Spec => []UnservedReturns
<1>1. IInv => UnservedReturns
  BY DEF IInv, Unserved, UnservedReturns
<1> QED
  BY <1>1, AlwaysIInv, PTL

\* A connected gateway never reboots by a timer.
THEOREM ServingAlwaysKept == Spec => []ServingKept
<1>1. IInv => ServingKept
  BY DEF IInv
<1> QED
  BY <1>1, AlwaysIInv, PTL
=============================================================================
