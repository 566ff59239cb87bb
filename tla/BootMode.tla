------------------------------- MODULE BootMode -------------------------------
(***************************************************************************)
(* How the gateway alternates between its two modes until it can serve: as *)
(* a Wi-Fi station it forwards packets, as a soft access point it lets a   *)
(* user give it the settings of the router.  At each boot app_main writes  *)
(* the other mode in flash, sets reboot_flag and starts a timer that       *)
(* reboots if the flag is then still set.  The Wi-Fi events, the console   *)
(* and the web pages change the flag and the settings, and each saves the  *)
(* whole table of settings, one item after the other, with no mutex.       *)
(*                                                                         *)
(* Of the settings only the two that decide whether the router accepts the *)
(* gateway are kept, and the mode of the next boot.  A setting is "home"   *)
(* when it is the router's.                                                *)
(***************************************************************************)
EXTENDS Naturals, Sequences

CONSTANTS
    MaxRetry,    \* WIFI_MAXIMUM_RETRY
    MaxTouches   \* bound: interventions of the user, and power cuts

ASSUME BootAssumption == MaxRetry \in Nat /\ MaxTouches \in Nat

VARIABLES
    phase,     \* "off", "boot": in app_main, "up": running
    mode,      \* the mode this boot is in
    config,    \* the table config, in memory
    nvs,       \* the table in flash
    used,      \* what wifi_init_sta was given: wifi_ssid, wifi_pswd
    flag,      \* reboot_flag
    timer,     \* the one-shot timers: of the boot, and of the first Wi-Fi loss
    link,      \* the link to the router
    retry,     \* s_retry_num
    served,    \* task_started: the forwarder was started since the boot
    save,      \* save[s]: the item that the task s, in save_config, writes next
    router,    \* whether the router is there
    touches    \* interventions so far

vars == <<phase, mode, config, nvs, used, flag, timer, link, retry, served,
          save, router, touches>>

Modes == {"soft_ap", "station"}
Item == <<"wifi_ssid", "wifi_pswd", "wifi_mode">>   \* in the order of tag_e
Items == {"wifi_ssid", "wifi_pswd", "wifi_mode"}
Values(i) == IF i = "wifi_mode" THEN Modes ELSE {"home", "other"}
Table == {t \in [Items -> {"none", "home", "other"} \cup Modes] :
             \A i \in Items : t[i] \in Values(i) \cup {"none"}}

Saver == {"event", "http", "console"}
Passes(s) == IF s = "console" THEN 2 ELSE 1   \* the console saves twice
NotSaving == [s \in Saver |-> 0]

Fits(t) == t["wifi_ssid"] = "home" /\ t["wifi_pswd"] = "home"

Init ==
    /\ phase = "off" /\ mode = "soft_ap"
    /\ nvs = [i \in Items |-> "none"] /\ config = nvs /\ used = nvs
    /\ flag = FALSE
    /\ timer = [boot |-> "off", loss |-> "off"]
    /\ link = "none" /\ retry = 0 /\ served = FALSE
    /\ save = NotSaving
    /\ router \in BOOLEAN
    /\ touches = 0

Touch == touches < MaxTouches /\ touches' = touches + 1

-----------------------------------------------------------------------------
(* Restarting and booting.                                                    *)

\* esp_restart, or the power cut: only the flash is kept.
Restart(flash) ==
    /\ nvs' = flash
    /\ phase' = "off" /\ mode' = "soft_ap"
    /\ config' = flash /\ used' = flash
    /\ flag' = FALSE
    /\ timer' = [boot |-> "off", loss |-> "off"]
    /\ link' = "none" /\ retry' = 0 /\ served' = FALSE
    /\ save' = NotSaving

ModeFor(saved) == IF saved \in {"none", "soft_ap"} THEN "soft_ap" ELSE "station"

\* app_main: read the table, choose the mode.
PowerOn ==
    /\ phase = "off"
    /\ phase' = "boot"
    /\ \/ mode' = ModeFor(nvs["wifi_mode"]) /\ UNCHANGED touches
       \/ mode' \in Modes /\ Touch                     \* a button is held
    /\ UNCHANGED <<config, nvs, used, flag, timer, link, retry, served, save, router>>

\* Mutant: the next boot will be in the same mode.
SameMode(t) == [t EXCEPT !["wifi_mode"] = mode]

\* config_wifi_mode, as app_main calls it: the next boot is in the other mode.
OtherMode(t) ==
    [t EXCEPT !["wifi_mode"] = IF mode = "soft_ap" THEN "station" ELSE "soft_ap"]

\* The rest of app_main.  No other task writes yet: of the save only the mode counts.
Prepare ==
    /\ phase = "boot"
    /\ config' = OtherMode(config) /\ nvs' = config'
    /\ flag' = TRUE
    /\ timer' = [timer EXCEPT !.boot = "armed"]
    /\ link' = IF mode = "station" /\ used["wifi_ssid"] # "none" THEN "connecting" ELSE "none"
    /\ phase' = "up"
    /\ UNCHANGED <<mode, used, retry, served, save, router, touches>>

\* Mutant: the flag is taken for a request not to reboot.
TimerFiresInverted(t) ==
    /\ timer[t] = "armed"
    /\ IF ~flag
       THEN Restart(nvs)
       ELSE /\ timer' = [timer EXCEPT ![t] = "fired"]
            /\ UNCHANGED <<phase, mode, config, nvs, used, flag, link, retry, served, save>>
    /\ UNCHANGED <<router, touches>>

\* reboot_timer_callback
TimerFires(t) ==
    /\ timer[t] = "armed"
    /\ IF flag
       THEN Restart(nvs)
       ELSE /\ timer' = [timer EXCEPT ![t] = "fired"]
            /\ UNCHANGED <<phase, mode, config, nvs, used, flag, link, retry, served, save>>
    /\ UNCHANGED <<router, touches>>

PowerCut ==
    /\ phase # "off" /\ Touch
    /\ Restart(nvs)
    /\ UNCHANGED router

-----------------------------------------------------------------------------
(* save_config, called by several tasks: each item is read from the table and
   written when its turn comes.                                               *)

StartSave(s) == save' = [save EXCEPT ![s] = 1]

Written(s) == Item[((save[s] - 1) % Len(Item)) + 1]

LastWrite(s) == save[s] = Passes(s) * Len(Item)

WriteItem(s) ==
    /\ save[s] > 0
    /\ LET flash == [nvs EXCEPT ![Written(s)] = config[Written(s)]] IN
       IF LastWrite(s) /\ s = "console"
       THEN Restart(flash)
       ELSE /\ nvs' = flash
            /\ save' = [save EXCEPT ![s] = IF LastWrite(s) THEN 0 ELSE @ + 1]
            /\ UNCHANGED <<phase, mode, config, used, flag, timer, link, retry, served>>
    /\ UNCHANGED <<router, touches>>

-----------------------------------------------------------------------------
(* The Wi-Fi events, handled one at a time.                                   *)

CanConnect == router /\ Fits(used)

\* Mutant: the flag set by an earlier failure stays.
ConnectedFlagKept ==
    /\ link = "connecting" /\ CanConnect /\ save["event"] = 0
    /\ link' = "up" /\ retry' = 0
    /\ served' = TRUE
    /\ IF served THEN UNCHANGED <<config, save>>
       ELSE config' = [config EXCEPT !["wifi_mode"] = "station"] /\ StartSave("event")
    /\ UNCHANGED <<phase, mode, nvs, used, flag, timer, router, touches>>

\* Mutant: the forwarder starts without the mode of the next boot being saved.
ConnectedUnsaved ==
    /\ link = "connecting" /\ CanConnect /\ save["event"] = 0
    /\ link' = "up" /\ retry' = 0 /\ flag' = FALSE
    /\ served' = TRUE
    /\ config' = [config EXCEPT !["wifi_mode"] = "station"]
    /\ UNCHANGED <<phase, mode, nvs, used, timer, save, router, touches>>

\* IP_EVENT_STA_GOT_IP
Connected ==
    /\ link = "connecting" /\ CanConnect /\ save["event"] = 0
    /\ link' = "up" /\ retry' = 0 /\ flag' = FALSE
    /\ served' = TRUE
    /\ IF served THEN UNCHANGED <<config, save>>
       ELSE config' = [config EXCEPT !["wifi_mode"] = "station"] /\ StartSave("event")
    /\ UNCHANGED <<phase, mode, nvs, used, timer, router, touches>>

\* WIFI_EVENT_STA_DISCONNECTED: an attempt has failed, or the link is lost.
Disconnected ==
    /\ link # "none" /\ save["event"] = 0
    /\ link' = "connecting"
    /\ timer' = [timer EXCEPT !.loss = IF @ = "off" THEN "armed" ELSE @]
    /\ IF retry < MaxRetry
       THEN retry' = retry + 1 /\ UNCHANGED flag
       ELSE retry' = 0 /\ flag' = TRUE
    /\ UNCHANGED <<phase, mode, config, nvs, used, served, save, router, touches>>

RouterChanges ==
    /\ router' = ~router
    /\ UNCHANGED <<phase, mode, config, nvs, used, flag, timer, link, retry,
                   served, save, touches>>

-----------------------------------------------------------------------------
(* The user.                                                                  *)

\* The table t after a form, or a command, that gives the items of new.
Updated(t, new) == [i \in Items |-> IF i \in DOMAIN new THEN new[i] ELSE t[i]]

Forms == UNION {{f \in [S -> {"home", "other"} \cup Modes] : \A i \in S : f[i] \in Values(i)}
                : S \in SUBSET Items}

WebReachable == phase = "up" /\ (mode = "soft_ap" \/ link = "up") /\ save["http"] = 0

\* gw_response_handler: the Apply button.
Apply ==
    /\ WebReachable /\ Touch
    /\ \E new \in Forms : config' = Updated(config, new)
    /\ StartSave("http")
    /\ UNCHANGED <<phase, mode, nvs, used, flag, timer, link, retry, served, router>>

\* gw_reboot_handler: the Reboot button.
WebReboot ==
    /\ WebReachable /\ Touch
    /\ Restart(nvs)
    /\ UNCHANGED router

\* do_net_config_cmd
Command ==
    /\ phase = "up" /\ save["console"] = 0 /\ Touch
    /\ flag' = FALSE
    /\ \E new \in Forms :
          /\ "wifi_mode" \notin DOMAIN new
          /\ \/ DOMAIN new = {} /\ UNCHANGED <<config, save>>
             \/ /\ config' = [Updated(config, new) EXCEPT !["wifi_mode"] = "station"]
                /\ StartSave("console")
    /\ UNCHANGED <<phase, mode, nvs, used, timer, link, retry, served, router>>

-----------------------------------------------------------------------------
Next ==
    \/ PowerOn \/ Prepare \/ PowerCut
    \/ \E t \in {"boot", "loss"} : TimerFires(t)
    \/ \E s \in Saver : WriteItem(s)
    \/ Connected \/ Disconnected \/ RouterChanges
    \/ Apply \/ WebReboot \/ Command

Spec == Init /\ [][Next]_vars

\* The tasks run and the timers expire; a failed attempt to connect is reported; and
\* when the router can be reached time after time, some attempt succeeds.
FairSpec ==
    /\ Spec
    /\ WF_vars(PowerOn) /\ WF_vars(Prepare)
    /\ \A t \in {"boot", "loss"} : WF_vars(TimerFires(t))
    /\ \A s \in Saver : WF_vars(WriteItem(s))
    /\ SF_vars(Connected)
    /\ WF_vars(~CanConnect /\ Disconnected)

-----------------------------------------------------------------------------
TypeOK ==
    /\ phase \in {"off", "boot", "up"} /\ mode \in Modes
    /\ config \in Table /\ nvs \in Table /\ used \in Table
    /\ flag \in BOOLEAN /\ served \in BOOLEAN /\ router \in BOOLEAN
    /\ timer \in [{"boot", "loss"} -> {"off", "armed", "fired"}]
    /\ link \in {"none", "connecting", "up"}
    /\ retry \in 0 .. MaxRetry
    /\ save \in [Saver -> Nat] /\ \A s \in Saver : save[s] <= Passes(s) * Len(Item)
    /\ touches \in 0 .. MaxTouches

\* No setting is lost: when no task is saving, the flash holds the table in memory,
\* however the saves of the three tasks were interleaved.
SavedWhenQuiet == phase = "up" /\ save = NotSaving => nvs = config

\* Until the forwarder has been started, a station boot that is cut short, by a timer
\* or by the power, is followed by one as a soft access point: the user can always
\* reach a gateway that cannot reach its router.
UnservedReturns ==
    phase = "up" /\ mode = "station" /\ ~served /\ save["console"] = 0
        => nvs["wifi_mode"] = "soft_ap"

\* A gateway that is connected to its router is not about to reboot by itself.
ServingKept == link = "up" => ~flag

\* A gateway that cannot connect after it has booted as a station becomes a soft
\* access point, if no command stops the reboot.
StrandedReturns ==
    (mode = "station" /\ ~served /\ timer.boot = "armed")
        ~> (served \/ (phase = "up" /\ (mode = "soft_ap" \/ ~flag)))

\* A soft access point that is left alone becomes a station.
SoftAPGivesWay ==
    (phase = "up" /\ mode = "soft_ap")
        ~> (phase = "up" /\ (mode = "station" \/ ~flag))

\* Settings that suit a router that stays there are used in the end: whatever power
\* cuts and failures came before, the gateway connects, unless a command has stopped
\* its reboot as a soft access point.
Serves ==
    <>[](router /\ Fits(nvs)) =>
        \/ []<>(link = "up")
        \/ <>[](phase = "up" /\ mode = "soft_ap" /\ ~flag)

\* A gateway that nobody touches gets out of each mode in which it cannot serve, and
\* serves in the end if it can (app_main, the reboot timers and event_handler).
LeftAlone == StrandedReturns /\ SoftAPGivesWay /\ Serves

\* doc/user_guide.md:34: a station that has lost the router, and does not find it
\* again, reboots to the soft access point.
LossReturns ==
    (phase = "up" /\ served /\ link = "connecting")
        ~> (link = "up" \/ (phase = "up" /\ mode = "soft_ap"))
=============================================================================
