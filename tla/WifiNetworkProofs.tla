-------------------------- MODULE WifiNetworkProofs --------------------------
(***************************************************************************)
(* Proofs about the network task, for every set of networks: only a        *)
(* network that has worked is confirmed, and once the station has joined   *)
(* no access point comes up unasked.                                       *)
(***************************************************************************)
EXTENDS WifiNetwork, TLAPS

\* What ConfirmedHasWorked rests on: the station counts as connected only with
\* a configuration it has joined, unless that is one whose restart is yet to come.  A trial that is taken back leaves the state
\* of the station as it was, but only for a network that has worked before.
ConnectedHasWorked ==
  /\ config = [active |-> config.active, state |-> config.state,
               lkg |-> config.lkg]
  /\ config.state \in {"PENDING", "CONFIRMED"}
  /\ early = [saved |-> early.saved, networks |-> early.networks]
  /\ early.saved \in BOOLEAN
  /\ station = "CONNECTED" /\ ~early.saved =>
        config.active \in proved \cup early.networks \cup {None}
  /\ ConfirmedHasWorked

\* The device never confirms, nor goes back to, a network that has not worked
\* since it was started with it, unless the serial line set it, or it was confirmed
\* before the restart that its save asks for (confirmPendingNetwork,
\* revertPendingNetwork, processPersistedCommand).
THEOREM ConfirmedWorked == NetworkSpec => []ConfirmedHasWorked
<1> USE DEF serverVars, trialVars, otherVars
<1>1. NetworkInit => ConnectedHasWorked
  BY DEF NetworkInit, Fresh, NoConfig, ConnectedHasWorked, ConfirmedHasWorked
<1>2. ConnectedHasWorked /\ [NetworkNext]_networkVars => ConnectedHasWorked'
  <2> SUFFICES ASSUME ConnectedHasWorked, [NetworkNext]_networkVars
               PROVE  ConnectedHasWorked'
    OBVIOUS
  <2> USE DEF ConnectedHasWorked, ConfirmedHasWorked
  <2>1. ASSUME UNCHANGED <<config, proved, early>>,
               station' = "CONNECTED" => station = "CONNECTED"
        PROVE  ConnectedHasWorked'
    BY <2>1
  <2>2. ASSUME NEW stationNow,
               RevertPending(stationNow), UNCHANGED <<proved, early>>,
               stationNow = "CONNECTED" => station = "CONNECTED"
        PROVE  ConnectedHasWorked'
    <3>1. CASE UNCHANGED config /\ station' = stationNow
      BY <2>2, <3>1
    <3>2. CASE config.lkg = None /\ config' = NoConfig
      BY <2>2, <3>2 DEF NoConfig
    <3>3. CASE config.lkg # None
               /\ config' = [config EXCEPT !.active = config.lkg,
                                           !.state = "CONFIRMED"]
      BY <2>2, <3>3
    <3> QED
      BY <2>2, <3>1, <3>2, <3>3 DEF RevertPending
  <2>3. \A ready : RaiseAccess(ready)
                     => (station' = "CONNECTED" => station = "CONNECTED")
    BY DEF RaiseAccess
  <2>4. BeginConnect => (station' = "CONNECTED" => station = "CONNECTED")
    BY DEF BeginConnect
  <2>5. CASE StartNetwork
    BY <2>1, <2>3, <2>5 DEF StartNetwork
  <2>6. CASE ConfirmPending
    <3>1. UNCHANGED <<station, proved>>
      BY <2>6 DEF ConfirmPending
    <3>2. CASE UNCHANGED <<config, early>>
      BY <2>1, <3>1, <3>2
    <3>3. CASE /\ MayConfirm
               /\ config' = [config EXCEPT !.state = "CONFIRMED",
                                           !.lkg = config.active]
               /\ early' = IF early.saved /\ config.active \notin proved
                           THEN [early EXCEPT !.networks = @ \cup {config.active}]
                           ELSE early
      <4>1. /\ config'.active = config.active /\ config'.lkg = config.active
            /\ config'.state = "CONFIRMED"
            /\ config' = [active |-> config'.active, state |-> config'.state,
                          lkg |-> config'.lkg]
        BY <3>3
      <4>2. /\ early'.saved = early.saved
            /\ early' = [saved |-> early'.saved, networks |-> early'.networks]
            /\ config.active \in proved \cup early'.networks \cup {None}
        BY <3>3 DEF MayConfirm
      <4> QED
        BY <3>1, <4>1, <4>2
    <3> QED
      BY <2>6, <3>2, <3>3 DEF ConfirmPending
  <2>7. CASE AbortConnect \/ StationLost \/ RecoveryAged \/ Reconnect
    BY <2>1, <2>4, <2>7 DEF AbortConnect, StationLost, RecoveryAged, Reconnect
  <2>8. CASE StationUp
    BY <2>1, <2>2, <2>8 DEF StationUp
  <2>9. CASE StationJoined
    BY <2>9 DEF StationJoined
  <2>10. CASE ConnectTimeout
    BY <2>1, <2>2, <2>10 DEF ConnectTimeout
  <2>11. CASE RaiseForBootstrap \/ AccessIdle \/ RestartAccess
    BY <2>1, <2>3, <2>11 DEF RaiseForBootstrap, AccessIdle, RestartAccess
  <2>12. ASSUME NEW network \in Networks \ {None}, NEW commit \in BOOLEAN,
                SaveNetwork(network, commit)
         PROVE  ConnectedHasWorked'
    BY <2>12 DEF SaveNetwork, ChangeConfig, Pending, Configured, None
  <2>13. CASE ForgetNetwork
    BY <2>13 DEF ForgetNetwork, ChangeConfig, NoConfig
  <2>19. CASE Reboot
    BY <2>19 DEF Reboot
  <2>20. CASE OnlyRestart \/ SaveFails \/ AskRestart
    BY <2>1, <2>20 DEF OnlyRestart, SaveFails, AskRestart
  <2>14. CASE ChangeDevicePassword \/ RequestConfirm
    BY <2>1, <2>14 DEF ChangeDevicePassword, RequestConfirm
  <2>15. CASE WifiConnect \/ WifiRestart \/ WifiDisconnect
    BY <2>1, <2>4, <2>15 DEF WifiConnect, WifiRestart, WifiDisconnect
  <2>16. CASE ApStart \/ ApStop \/ WebUi
    BY <2>1, <2>3, <2>16 DEF ApStart, ApStop, WebUi
  <2>17. CASE DriverJoins \/ DriverLoses
    BY <2>1, <2>17 DEF DriverJoins, DriverLoses
  <2>18. CASE UNCHANGED networkVars
    BY <2>1, <2>18 DEF networkVars
  <2> QED
    BY <2>5, <2>6, <2>7, <2>8, <2>9, <2>10, <2>11, <2>12, <2>13, <2>14, <2>15,
       <2>16, <2>17, <2>18, <2>19, <2>20 DEF NetworkNext, Service
<1>3. ConnectedHasWorked => ConfirmedHasWorked
  BY DEF ConnectedHasWorked
<1> QED
  BY <1>1, <1>2, <1>3, PTL DEF NetworkSpec
-----------------------------------------------------------------------------
(* The access point *)

\* What AccessOnlyWhenAsked rests on: a station that has joined and is left
\* without a network is not started again, which would raise the access point.
AskedInvariant ==
  /\ DOMAIN config = {"active", "state", "lkg"}
  /\ AccessOnlyWhenAsked
  /\ joined /\ ~Configured => started \/ forced

\* Once the station has joined, the access point is up only for AP_START, or
\* because a new device password restarted it (ensureAccessPoint and its callers,
\* revertPendingNetwork).
THEOREM AccessAsked == NetworkSpec => []AccessOnlyWhenAsked
<1> USE DEF serverVars, trialVars, otherVars, Configured
<1>1. NetworkInit => AskedInvariant
  BY DEF NetworkInit, Fresh, NoConfig, AskedInvariant, AccessOnlyWhenAsked
<1>2. AskedInvariant /\ [NetworkNext]_networkVars => AskedInvariant'
  <2> SUFFICES ASSUME AskedInvariant, [NetworkNext]_networkVars
               PROVE  AskedInvariant'
    OBVIOUS
  <2> USE DEF AskedInvariant, AccessOnlyWhenAsked
  <2>1. ASSUME UNCHANGED <<config, joined, forced>>,
               access' => access \/ keepAccess',
               keepAccess => keepAccess' \/ ~access', started => started'
        PROVE  AskedInvariant'
    BY <2>1
  <2>2. ASSUME NEW stationNow, started, Configured, RevertPending(stationNow),
               UNCHANGED <<serverVars, forced>>
        PROVE  AskedInvariant'
    <3>1. CASE config.lkg = None
      <4>1. DOMAIN NoConfig = {"active", "state", "lkg"}
        BY DEF NoConfig
      <4>2. UNCHANGED <<joined, keepAccess, forced>>
        BY <2>2
      <4>3. CASE config' = NoConfig /\ joined /\ access' = FALSE /\ started' = started
        BY <2>2, <4>1, <4>2, <4>3
      <4>4. CASE config' = NoConfig /\ ~joined
        BY <4>1, <4>2, <4>4
      <4>5. CASE UNCHANGED <<config, access>>
        BY <2>2, <4>2, <4>5
      <4> QED
        BY <2>2, <3>1, <4>3, <4>4, <4>5 DEF RevertPending
    <3>2. CASE config.lkg # None
      <4> DEFINE back == [config EXCEPT !.active = config.lkg,
                                        !.state = "CONFIRMED"]
      <4>1. back.active = config.lkg /\ DOMAIN back = DOMAIN config
        OBVIOUS
      <4>2. back # NoConfig
        BY <3>2, <4>1 DEF NoConfig
      <4>3. /\ UNCHANGED access
            /\ config' = back \/ (config' = config /\ Configured)
        BY <2>2, <3>2, <4>2 DEF RevertPending, Pending
      <4> QED
        BY <2>2, <3>2, <4>1, <4>3
    <3> QED
      BY <3>1, <3>2
  <2>3. CASE StartNetwork
    BY <2>3 DEF StartNetwork
  <2>4. CASE ConfirmPending
    BY <2>4 DEF ConfirmPending, MayConfirm, Pending
  <2>5. CASE AbortConnect \/ StationLost \/ RecoveryAged \/ Reconnect
    BY <2>1, <2>5 DEF AbortConnect, StationLost, RecoveryAged, Reconnect
  <2>6. CASE StationUp
    BY <2>1, <2>2, <2>6 DEF StationUp
  <2>7. CASE StationJoined
    BY <2>7 DEF StationJoined
  <2>8. CASE ConnectTimeout
    <3>1. CASE Pending /\ RevertPending("FAILED")
      BY <2>2, <2>8, <3>1 DEF ConnectTimeout
    <3>2. CASE UNCHANGED <<config, access, started>>
      BY <2>1, <2>8, <3>2 DEF ConnectTimeout
    <3>3. CASE ~joined /\ UNCHANGED config
      BY <2>8, <3>3 DEF ConnectTimeout
    <3> QED
      BY <2>8, <3>1, <3>2, <3>3 DEF ConnectTimeout, MayRaise
  <2>9. CASE RaiseForBootstrap
    BY <2>9 DEF RaiseForBootstrap, MayRaise
  <2>10. CASE AccessIdle \/ RestartAccess
    BY <2>10 DEF AccessIdle, RestartAccess
  <2>11. ASSUME NEW network \in Networks \ {None}, NEW commit \in BOOLEAN,
                SaveNetwork(network, commit)
         PROVE  AskedInvariant'
    <3>1. UNCHANGED <<access, started, joined, keepAccess, forced>>
      BY <2>11 DEF SaveNetwork, ChangeConfig
    <3>2. config'.active # None /\ DOMAIN config' = {"active", "state", "lkg"}
      BY <2>11 DEF SaveNetwork, ChangeConfig
    <3> QED
      BY <3>1, <3>2
  <2>12. CASE ForgetNetwork
    <3>1. DOMAIN NoConfig = {"active", "state", "lkg"}
      BY DEF NoConfig
    <3>2. config' = NoConfig /\ forced'
      BY <2>12 DEF ForgetNetwork, ChangeConfig
    <3> QED
      BY <3>1, <3>2
  <2>18. CASE Reboot
    BY <2>18 DEF Reboot
  <2>19. CASE OnlyRestart \/ SaveFails \/ AskRestart
    BY <2>1, <2>19 DEF OnlyRestart, SaveFails, AskRestart
  <2>13. CASE ChangeDevicePassword \/ RequestConfirm
    BY <2>1, <2>13 DEF ChangeDevicePassword, RequestConfirm
  <2>14. CASE WifiConnect \/ WifiRestart \/ WifiDisconnect
    BY <2>1, <2>14 DEF WifiConnect, WifiRestart, WifiDisconnect, NoteProgress
  <2>15. CASE ApStart \/ ApStop \/ WebUi
    <3>1. CASE ApStart
      <4>1. UNCHANGED <<config, joined, forced>>
        BY <3>1 DEF ApStart
      <4>2. access' = keepAccess'
        BY <3>1 DEF ApStart, RaiseAccess
      <4>3. started => started'
        BY <3>1 DEF ApStart, NoteProgress
      <4> QED
        BY <2>1, <4>1, <4>2, <4>3
    <3>2. CASE ApStop
      BY <2>1, <3>2 DEF ApStop, NoteProgress
    <3>3. CASE WebUi
      BY <2>1, <3>3 DEF WebUi, NoteProgress
    <3> QED
      BY <2>15, <3>1, <3>2, <3>3
  <2>16. CASE DriverJoins \/ DriverLoses
    BY <2>1, <2>16 DEF DriverJoins, DriverLoses
  <2>17. CASE UNCHANGED networkVars
    BY <2>1, <2>17 DEF networkVars
  <2> QED
    BY <2>3, <2>4, <2>5, <2>6, <2>7, <2>8, <2>9, <2>10, <2>11, <2>12, <2>13,
       <2>14, <2>15, <2>16, <2>17, <2>18, <2>19 DEF NetworkNext, Service
<1>3. AskedInvariant => AccessOnlyWhenAsked
  BY DEF AskedInvariant
<1> QED
  BY <1>1, <1>2, <1>3, PTL DEF NetworkSpec
=============================================================================
