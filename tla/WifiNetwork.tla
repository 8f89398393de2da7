----------------------------- MODULE WifiNetwork -----------------------------
(***************************************************************************)
(* The Wi-Fi side of the network task (ShotStopperNetwork): the station it *)
(* keeps joined, the access point it raises when it cannot, the web server,*)
(* and a changed configuration, which is on trial until the user reaches   *)
(* the device over it and is taken back otherwise.                         *)
(*                                                                         *)
(* One action per service of a pass of the task, per request and per       *)
(* command of the serial line.  Times are not modelled: what has a timeout *)
(* may happen at any time while its timer runs.  A scan of the user's only *)
(* delays what is here.  Not modelled: the time server and power saving.   *)
(***************************************************************************)
EXTENDS Naturals

CONSTANT Networks     \* networks the user may configure

VARIABLES
    config,           \* the persisted part of settings_
    wifi,             \* the driver: "down", "trying", "up"
    station,          \* status_.staState
    access,           \* status_.apActive
    web,              \* server_
    started,          \* startupComplete_
    joined,           \* staEverConnected_
    holds,            \* staReconnectHeld_, apStartHeld_, httpStartHeld_
    keepAccess,       \* apKeepRequested_
    exhausted,        \* apAutoRaiseExhausted_
    restartAccess,    \* apRestartPending_
    confirming,       \* pendingConfirmRequest_
    armed,            \* staConfirmArmed_
    restart,          \* restartPending_
    proved,           \* history: what was joined since the device started with
                      \* it, or was set on the serial line
    forced,           \* history: since the start an access point was restarted,
                      \* or the network forgotten
    early             \* history: a save or a forgetting that no restart has
                      \* followed yet, and the networks confirmed before it did

networkVars == <<config, wifi, station, access, web, started, joined, holds,
                 keepAccess, exhausted, restartAccess, confirming, armed,
                 restart, proved, forced, early>>
serverVars == <<joined, holds, keepAccess, exhausted, restartAccess>>
trialVars == <<config, confirming, armed, proved>>
otherVars == <<restart, forced, early>>

None == "none"
NoConfig == [active |-> None, state |-> "CONFIRMED", lkg |-> None]
Configured == config.active # None
Pending == Configured /\ config.state = "PENDING"

Fresh(settings) ==
    /\ config = settings
    /\ wifi = "down" /\ station = "NOT_CONFIGURED"
    /\ access = FALSE /\ web = FALSE /\ started = FALSE /\ joined = FALSE
    /\ holds = [sta |-> FALSE, ap |-> FALSE, http |-> FALSE]
    /\ keepAccess = FALSE /\ exhausted = FALSE /\ restartAccess = FALSE
    /\ confirming = FALSE /\ armed = FALSE /\ restart = FALSE

NetworkInit ==
    /\ Fresh(NoConfig)
    /\ proved = {} /\ forced = FALSE
    /\ early = [saved |-> FALSE, networks |-> {}]

\* The restart that was asked for, once no brew is in its way, or a power cut:
\* only what is persisted remains.
Reboot ==
    /\ wifi' = "down" /\ station' = "NOT_CONFIGURED"
    /\ access' = FALSE /\ web' = FALSE /\ started' = FALSE /\ joined' = FALSE
    /\ holds' = [sta |-> FALSE, ap |-> FALSE, http |-> FALSE]
    /\ keepAccess' = FALSE /\ exhausted' = FALSE /\ restartAccess' = FALSE
    /\ confirming' = FALSE /\ armed' = FALSE /\ restart' = FALSE
    /\ forced' = FALSE /\ early' = [early EXCEPT !.saved = FALSE]
    /\ UNCHANGED <<config, proved>>

-----------------------------------------------------------------------------
(* Parts of the services *)

\* While a brew is under way or the scale connects, the radio is theirs.  Either
\* may be so in one pass and over in the next, so that it is no state here: an
\* action that depends on it has a disjunct for each.
\*
\* beginStationConnect, the radio being free: the driver drops what it has and
\* starts again.
BeginConnect == station' = "CONNECTING" /\ wifi' \in {"trying", "down"}

\* ensureAccessPoint, past its guards: a server in use by the station stays.
RaiseAccess(ready) ==
    LET keepWeb == ~holds.http /\ wifi = "up" /\ Configured /\ web IN
    /\ access' = ready
    /\ web' = (keepWeb \/ (ready /\ ~holds.http))
    /\ wifi' = IF Configured THEN wifi ELSE "down"
    /\ station' = CASE ~Configured -> "NOT_CONFIGURED"
                    [] Configured /\ station = "CONNECTED" /\ wifi # "up" ->
                         "DISCONNECTED"
                    [] OTHER -> station

\* revertPendingNetwork: the last known good network, or none.  What is left of
\* the station is not restarted here, and when it had joined, no access point
\* takes its place.
RevertPending(stationNow) ==
    LET back == IF config.lkg # None
                THEN [config EXCEPT !.active = config.lkg, !.state = "CONFIRMED"]
                ELSE NoConfig
    IN  \/ /\ config' = back /\ armed' = FALSE /\ wifi' = "down"
           /\ IF back = NoConfig /\ joined
              THEN /\ access' = FALSE /\ web' = FALSE
                   /\ station' = "NOT_CONFIGURED" /\ UNCHANGED started
              ELSE /\ started' = FALSE /\ station' = stationNow
                   /\ UNCHANGED <<access, web>>
        \/ /\ started' = FALSE /\ wifi' = "down" /\ station' = stationNow
           /\ UNCHANGED <<config, armed, access, web>>

-----------------------------------------------------------------------------
(* The pass of the network task *)

\* startNetwork, tried again until it succeeds.
StartNetwork ==
    /\ ~started
    /\ \/ /\ Configured
          /\ access' = FALSE /\ web' = FALSE /\ started' = TRUE /\ armed' = FALSE
          /\ \/ station' = "DISCONNECTED" /\ UNCHANGED wifi
             \/ station' = "CONNECTING" /\ wifi' = "trying"
             \/ station' = "DISCONNECTED" /\ wifi' = "down"
       \/ /\ ~Configured /\ ~exhausted /\ ~holds.ap
          /\ \E ready \in BOOLEAN : RaiseAccess(ready) /\ started' = ready
          /\ UNCHANGED armed
    /\ UNCHANGED <<config, confirming, proved, serverVars, otherVars>>

\* confirmPendingNetwork: the request is used up whatever comes of it.
FaultyMayConfirm == Pending /\ ~access
MayConfirm == Pending /\ ~access /\ station = "CONNECTED"
ConfirmPending ==
    /\ started /\ confirming
    /\ confirming' = FALSE
    /\ \/ /\ MayConfirm
          /\ config' = [config EXCEPT !.state = "CONFIRMED",
                                      !.lkg = config.active]
          /\ armed' = FALSE
          /\ early' = IF early.saved /\ config.active \notin proved
                      THEN [early EXCEPT !.networks = @ \cup {config.active}]
                      ELSE early
       \/ UNCHANGED <<config, armed, early>>
    /\ UNCHANGED <<wifi, station, access, web, started, proved, serverVars,
                   restart, forced>>

\* serviceStaState, from here to Reconnect: the first that applies.
\* The radio is no longer free.
AbortConnect ==
    /\ started /\ Configured
    /\ station = "CONNECTING" /\ wifi # "up"
    /\ station' = "DISCONNECTED" /\ wifi' = "down"
    /\ UNCHANGED <<access, web, started, trialVars, serverVars, otherVars>>

StationLost ==
    /\ started /\ Configured
    /\ station = "CONNECTED" /\ wifi # "up"
    /\ \/ station' = "DISCONNECTED" /\ UNCHANGED wifi
       \/ ~holds.sta /\ BeginConnect
    /\ UNCHANGED <<access, web, started, trialVars, serverVars, otherVars>>

\* While it is connected: the access point that nobody asked for goes, the
\* server is brought back, and a trial ends when its time is over.
WebAfter(stopped) ==
    web' \in IF holds.http THEN {web /\ ~stopped} ELSE {web /\ ~stopped, TRUE}
StationUp ==
    /\ started /\ Configured
    /\ station = "CONNECTED" /\ wifi = "up"
    /\ \/ /\ access' = (access /\ keepAccess)
          /\ WebAfter(access /\ ~keepAccess)
          /\ UNCHANGED <<config, armed, wifi, station, started>>
       \/ /\ armed /\ Pending
          /\ RevertPending("CONNECTED")
    /\ UNCHANGED <<confirming, proved, serverVars, otherVars>>

\* A link that is up counts, also when it was made with the settings before.
StationJoined ==
    /\ started /\ Configured
    /\ station \in {"CONNECTING", "DISCONNECTED", "FAILED"} /\ wifi = "up"
    /\ station' = "CONNECTED" /\ joined' = TRUE
    /\ access' = (access /\ keepAccess)
    /\ WebAfter(access /\ ~keepAccess)
    /\ armed' = (armed \/ Pending)
    /\ proved' = proved \cup (IF early.saved THEN {} ELSE {config.active})
    /\ UNCHANGED <<config, confirming, wifi, started, holds, keepAccess,
                   exhausted, restartAccess, otherVars>>

\* The time for an attempt is over, with no access point up.
FaultyMayRaise == ~holds.ap /\ ~exhausted
MayRaise == ~joined /\ ~holds.ap /\ ~exhausted
ConnectTimeout ==
    /\ started /\ Configured
    /\ station = "CONNECTING" /\ wifi # "up" /\ ~access
    /\ \/ Pending /\ RevertPending("FAILED")
       \/ /\ ~Pending /\ ~MayRaise
          /\ station' = "DISCONNECTED" /\ wifi' = "down"
          /\ UNCHANGED <<config, armed, access, web, started>>
       \/ /\ ~Pending /\ MayRaise
          /\ \E ready \in BOOLEAN :
                /\ access' = ready
                /\ web' = (ready /\ ~holds.http)
                /\ started' = ready
                /\ station' = IF ready THEN "DISCONNECTED" ELSE "FAILED"
          /\ wifi' = "down"
          /\ UNCHANGED <<config, armed>>
    /\ UNCHANGED <<confirming, proved, serverVars, otherVars>>

RaiseForBootstrap ==
    /\ started /\ Configured
    /\ station \in {"DISCONNECTED", "FAILED"} /\ wifi # "up"
    /\ MayRaise /\ ~access
    /\ \E ready \in BOOLEAN : RaiseAccess(ready) /\ started' = ready
    /\ UNCHANGED <<trialVars, serverVars, otherVars>>

\* An attempt beside the access point only ages: the driver goes on trying.
RecoveryAged ==
    /\ started /\ Configured
    /\ station = "CONNECTING" /\ wifi # "up" /\ access
    /\ station' = "DISCONNECTED"
    /\ UNCHANGED <<wifi, access, web, started, trialVars, serverVars, otherVars>>

Reconnect ==
    /\ started /\ Configured
    /\ station \in {"DISCONNECTED", "FAILED"} /\ wifi # "up"
    /\ ~holds.sta
    /\ BeginConnect
    /\ UNCHANGED <<access, web, started, trialVars, serverVars, otherVars>>

\* serviceSoftApIdle
AccessIdle ==
    /\ started /\ access /\ ~keepAccess
    /\ exhausted' = TRUE /\ access' = FALSE
    /\ web' = (web /\ station = "CONNECTED" /\ wifi = "up")
    /\ UNCHANGED <<wifi, station, started, joined, holds, keepAccess,
                   restartAccess, trialVars, otherVars>>

\* service: the access point is restarted with its new password, whatever was
\* asked in the meantime.
RestartAccess ==
    /\ started /\ restartAccess
    /\ restartAccess' = FALSE /\ forced' = TRUE
    /\ \E ready \in BOOLEAN : RaiseAccess(ready) /\ started' = ready
    /\ UNCHANGED <<joined, holds, keepAccess, exhausted, trialVars, restart, early>>

-----------------------------------------------------------------------------
(* Requests, and commands of the serial line *)

\* processPersistedCommand: what was confirmed becomes the last known good, and
\* the serial line commits at once.  The settings are the new ones from here on,
\* with the link, the server and the requests of the old ones until the restart.
ChangeConfig(settings) ==
    /\ config' = settings /\ restart' = TRUE
    /\ early' = [saved |-> TRUE, networks |-> early.networks \cap {settings.lkg}]
    /\ UNCHANGED <<wifi, station, access, web, started, confirming, armed,
                   serverVars>>

SaveNetwork(network, commit) ==
    LET lkg == CASE commit -> network
                 [] ~commit /\ Configured /\ ~Pending -> config.active
                 [] OTHER -> config.lkg
    IN  /\ ChangeConfig([active |-> network, lkg |-> lkg,
                         state |-> IF commit THEN "CONFIRMED" ELSE "PENDING"])
        /\ proved' = (proved \cap {lkg}) \cup (IF commit THEN {network} ELSE {})
        /\ UNCHANGED forced
ForgetNetwork == ChangeConfig(NoConfig) /\ proved' = {} /\ forced' = TRUE

\* The command to restart, and the roll back of an update.
OnlyRestart ==
    /\ restart' = TRUE
    /\ UNCHANGED <<wifi, station, access, web, started, trialVars, serverVars,
                   forced, early>>

\* A command that cannot be saved takes back the restarts that wait, also those
\* of the commands before it, unless it is for the roll back of an update.
SaveFails ==
    /\ restart' \in {restart, FALSE}
    /\ restartAccess' = FALSE
    /\ UNCHANGED <<wifi, station, access, web, started, joined, holds, keepAccess,
                   exhausted, trialVars, forced, early>>

\* service: the wait is over, and the restart is the control task's to carry out,
\* which lets a brew finish.
\* It may come at any time then, and is not told apart from a power cut (Reboot).
AskRestart ==
    /\ restart
    /\ restart' = FALSE
    /\ UNCHANGED <<wifi, station, access, web, started, trialVars, serverVars,
                   forced, early>>

ChangeDevicePassword ==
    /\ restartAccess' \in {access, FALSE}
    /\ UNCHANGED <<wifi, station, access, web, started, joined, holds, keepAccess,
                   exhausted, trialVars, otherVars>>

\* requestPendingNetworkConfirm, in the HTTP task.
RequestConfirm ==
    /\ web /\ Pending /\ ~access
    /\ confirming' = TRUE
    /\ UNCHANGED <<wifi, station, access, web, started, config, armed, proved,
                   serverVars, otherVars>>

\* noteCliNetworkProgress
NoteProgress ==
    started' = (started \/ access' \/ web'
                \/ station' \in {"CONNECTING", "CONNECTED"})

WifiConnect ==
    /\ Configured /\ ~(station = "CONNECTED" /\ wifi = "up")
    /\ holds' = [holds EXCEPT !.sta = FALSE]
    /\ BeginConnect \/ UNCHANGED <<wifi, station>>
    /\ UNCHANGED <<access, web, joined, keepAccess, exhausted, restartAccess,
                   trialVars, otherVars>>
    /\ NoteProgress

WifiRestart ==
    /\ Configured
    /\ holds' = [holds EXCEPT !.sta = FALSE]
    /\ \/ station' = "DISCONNECTED" /\ UNCHANGED wifi
       \/ BeginConnect
    /\ UNCHANGED <<access, web, joined, keepAccess, exhausted, restartAccess,
                   trialVars, otherVars>>
    /\ NoteProgress

WifiDisconnect ==
    /\ holds' = [holds EXCEPT !.sta = TRUE]
    /\ wifi' = "down"
    /\ station' = IF Configured THEN "DISCONNECTED" ELSE "NOT_CONFIGURED"
    /\ UNCHANGED <<access, web, joined, keepAccess, exhausted, restartAccess,
                   trialVars, otherVars>>
    /\ NoteProgress

ApStart ==
    /\ holds' = [holds EXCEPT !.ap = FALSE]
    /\ \E ready \in BOOLEAN : RaiseAccess(ready) /\ keepAccess' = ready
    /\ UNCHANGED <<joined, exhausted, restartAccess, trialVars, otherVars>>
    /\ NoteProgress

ApStop ==
    /\ holds' = [holds EXCEPT !.ap = TRUE]
    /\ keepAccess' = FALSE /\ access' = FALSE
    /\ web' = (web /\ (access => station = "CONNECTED" /\ wifi = "up"))
    /\ UNCHANGED <<wifi, station, joined, exhausted, restartAccess, trialVars,
                   otherVars>>
    /\ NoteProgress

\* WEBUI_START, WEBUI_RESTART, WEBUI_STOP
WebUi ==
    /\ \/ holds' = [holds EXCEPT !.http = FALSE] /\ web' \in BOOLEAN
       \/ holds' = [holds EXCEPT !.http = TRUE] /\ web' = FALSE
    /\ UNCHANGED <<wifi, station, access, joined, keepAccess, exhausted,
                   restartAccess, trialVars, otherVars>>
    /\ NoteProgress

-----------------------------------------------------------------------------
(* The driver and the radio *)

DriverJoins ==
    /\ wifi = "trying" /\ wifi' = "up"
    /\ UNCHANGED <<station, access, web, started, trialVars, serverVars, otherVars>>
DriverLoses ==
    /\ wifi # "down" /\ wifi' = "down"
    /\ UNCHANGED <<station, access, web, started, trialVars, serverVars, otherVars>>

\* service does no more than take commands while a restart is due.
Service ==
    /\ ~restart
    /\ \/ StartNetwork \/ ConfirmPending \/ AbortConnect \/ StationLost
       \/ StationUp \/ StationJoined \/ ConnectTimeout \/ RaiseForBootstrap
       \/ RecoveryAged \/ Reconnect \/ AccessIdle \/ RestartAccess

NetworkNext ==
    \/ Service \/ AskRestart \/ Reboot \/ OnlyRestart \/ SaveFails
    \/ \E network \in Networks \ {None}, commit \in BOOLEAN : SaveNetwork(network, commit)
    \/ ForgetNetwork \/ ChangeDevicePassword \/ RequestConfirm
    \/ WifiConnect \/ WifiRestart \/ WifiDisconnect \/ ApStart \/ ApStop \/ WebUi
    \/ DriverJoins \/ DriverLoses
NetworkSpec == NetworkInit /\ [][NetworkNext]_networkVars

-----------------------------------------------------------------------------
(* Properties *)

\* Once the station has joined, the access point (which competes with the scale
\* for the radio) is up only for AP_START, through lost links, timeouts, trials
\* taken back, failed starts and restarts that are delayed.  A restart for a new
\* device password may raise it even after AP_STOP, and a forgotten network before
\* the device is restarted for it.
AccessOnlyWhenAsked == joined /\ access => keepAccess \/ forced

\* What the device would go back to has worked: a configuration counts as
\* confirmed, and as the last known good, only when the station has joined it
\* since the device started with it, or the serial line set it, however the
\* request to confirm, which another task raises, meets a lost link, a timeout or
\* a restart.  The exception is a network whose save no restart has followed yet:
\* the link of the old settings is then taken for its own, and a request that
\* comes over it confirms what was never joined.
ConfirmedHasWorked ==
    /\ config.lkg \in proved \cup early.networks \cup {None}
    /\ config.state = "CONFIRMED" =>
          config.active \in proved \cup early.networks \cup {None}
=============================================================================
