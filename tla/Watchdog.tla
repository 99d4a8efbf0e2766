------------------------------ MODULE Watchdog ------------------------------
(***************************************************************************)
(* The external watchdog of the Launch Manager: class WatchdogImpl and the  *)
(* device behind it.  All operations are calls of the main thread, which    *)
(* MainLoop makes.                                                          *)
(*                                                                          *)
(* The device counts down once it is started and resets the machine when it *)
(* gets to zero.  Its time is kept in two halves: it is fresh after it was  *)
(* serviced, then stale, then the machine is reset.                         *)
(***************************************************************************)
EXTENDS Integers

CONSTANTS
  TimeoutsMs,  \* values of max_timeout_ms in the configuration
  NoConfig     \* no watchdog is configured

VARIABLES
  watchdogConfig,  \* watchdog_config_ of the process group manager
  watchdogDevice,  \* watchdogDevice_: the configuration taken over, or NoConfig
  watchdogState,   \* state_
  deviceOpen,      \* fileDescriptor >= 0
  device,          \* external: "off", "fresh", "stale"
  machineReset     \* external: the device has reset the machine

watchdogVars == <<watchdogConfig, watchdogDevice, watchdogState, deviceOpen, device,
                  machineReset>>

WatchdogConfig ==
  [max_timeout_ms : TimeoutsMs, deactivate_on_shutdown : BOOLEAN,
   require_magic_close : BOOLEAN]

\* The limits of a Linux target.
kTimeoutMinMillis == 1000
kTimeoutResolution == 1000
kTimeoutMaxMillis == 30000
kMainLoopCycleTimeMs == 50

WatchdogInit ==
  /\ watchdogConfig \in WatchdogConfig \cup {NoConfig}
  /\ watchdogDevice = NoConfig
  /\ watchdogState = "idle"
  /\ deviceOpen = FALSE
  /\ device = "off"
  /\ machineReset = FALSE

-----------------------------------------------------------------------------

HasValidTimeout(timeoutMax) ==
  /\ timeoutMax \in kTimeoutMinMillis .. kTimeoutMaxMillis
  /\ timeoutMax % kTimeoutResolution = 0

\* The checks of init(), configureDevice() and isValidDeviceConfig(); the timeout is
\* cut to 16 bits after it was compared with the largest value of that width.
IsValidDeviceConfig(config) ==
  LET timeoutMax == config.max_timeout_ms % 2^16 IN
    /\ config.max_timeout_ms < 2^16
    /\ watchdogState = "idle"
    /\ watchdogDevice = NoConfig
    /\ HasValidTimeout(timeoutMax)
    /\ timeoutMax >= kMainLoopCycleTimeMs

\* init(): takes the configuration over, or refuses it.
WatchdogConfigure(ok) ==
  /\ ok <=> IsValidDeviceConfig(watchdogConfig)
  /\ watchdogDevice' = IF ok THEN watchdogConfig ELSE watchdogDevice
  /\ UNCHANGED <<watchdogConfig, watchdogState, deviceOpen, device, machineReset>>

\* enableDevice(): opens the device file, reads and sets the timeout, starts the
\* device.  A failing step ends it and leaves open what is open; a Linux driver
\* has started the device when its file is opened, others do when they are told to.
EnableDevice(ok) ==
  \/ ok /\ deviceOpen' = TRUE /\ device' = "fresh"
  \/ ~ok /\ deviceOpen' = TRUE /\ device' \in {"off", "fresh"}
  \/ ~ok /\ UNCHANGED <<deviceOpen, device>>

\* enable(): nothing to do without a device.
WatchdogEnable(ok) ==
  /\ watchdogState = "idle"
  /\ IF watchdogDevice = NoConfig
       THEN ok /\ UNCHANGED <<deviceOpen, device, watchdogState>>
       ELSE EnableDevice(ok) /\ watchdogState' = IF ok THEN "activated" ELSE "idle"
  /\ UNCHANGED <<watchdogConfig, watchdogDevice, machineReset>>

\* disableDevice(): the result of stopping the device is ignored.
DisableDevice ==
  /\ deviceOpen' = FALSE
  /\ device' \in {"off", device}

\* disable(): only a device that may be deactivated is.
WatchdogDisable ==
  IF watchdogState = "activated" /\ watchdogDevice.deactivate_on_shutdown
    THEN /\ DisableDevice
         /\ watchdogState' = "idle"
         /\ UNCHANGED <<watchdogConfig, watchdogDevice, machineReset>>
    ELSE UNCHANGED watchdogVars

\* serviceWatchdog(): WDIOC_KEEPALIVE, whose failure is ignored.
ServiceWatchdog ==
  /\ device' \in IF watchdogState = "activated" THEN {"fresh", device} ELSE {device}
  /\ UNCHANGED <<watchdogConfig, watchdogDevice, watchdogState, deviceOpen, machineReset>>

\* fireWatchdogReaction() up to waitForever(): a timeout of zero is set, if the
\* driver takes it.
FireWatchdogReaction ==
  /\ watchdogState = "activated"
  /\ watchdogState' = "react"
  /\ device' \in {"stale", device}
  /\ UNCHANGED <<watchdogConfig, watchdogDevice, deviceOpen, machineReset>>

-----------------------------------------------------------------------------
(* The device, which no code of the repository implements.                  *)

\* Half of the timeout passes without a service.
Elapse ==
  /\ ~machineReset
  /\ \/ device = "fresh" /\ device' = "stale" /\ UNCHANGED machineReset
     \/ device = "stale" /\ machineReset' = TRUE /\ UNCHANGED device
  /\ UNCHANGED <<watchdogConfig, watchdogDevice, watchdogState, deviceOpen>>
=============================================================================
