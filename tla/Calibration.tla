---------------------------- MODULE Calibration ----------------------------
(***************************************************************************)
(* The RainMaker device's configuration and its calibration: write_cb and   *)
(* auto_calibrate_timercb of connect_rainmaker/main/app_main.c, and the     *)
(* boot.  A write from the cloud runs in RainMaker's task, the callback in  *)
(* FreeRTOS's timer service, and once more in RainMaker's task when a write  *)
(* ends a calibration.  Nothing is locked.  The device may reboot anywhere. *)
(*                                                                         *)
(* move_threshold stands for the fields that a write only stores:           *)
(* someone_timeout, filter_window and filter_count are treated like it.     *)
(***************************************************************************)
EXTENDS Integers, Sequences

CONSTANTS
  Interval,     \* AUTO_CALIBRATE_RAPORT_INTERVAL: 5
  Width,        \* threshold_calibrate_timeout is an uint8_t: 256
  TimeoutsSent, \* values that the cloud writes to it: 10 .. 3600
  MoveThresholds,
  MaxWrites     \* bound; fewer than the timer service's queue has room for

ASSUME CalibrationAssumption ==
  /\ {Interval, Width} \subseteq Nat \ {0} /\ TimeoutsSent \subseteq Nat
  /\ MoveThresholds # {} /\ MaxWrites \in Nat

VARIABLES
  g_detect_config,  \* [calibrate, timeout, threshold]
  nvs,              \* "detect_config"; as long as there is none, the defaults
  timerleft,        \* g_auto_calibrate_timerleft
  active, posted,   \* the timer runs; commands for it that are queued
  training,         \* the radar library trains
  cloudFlag,        \* threshold_calibrate as the cloud was told
  at,               \* where each task is
  loaded, val,      \* its local values: timerleft, and what is written
  writes,
  astray,           \* history: the last write of the flag met the callback, or
                    \* the device rebooted in a calibration since
  span, ticks       \* history: the timeout when the calibration began, and the
                    \* callbacks since

timerVars       == <<timerleft, active, posted>>
calibrationVars == <<g_detect_config, nvs, timerVars, training, cloudFlag, at, loaded, val,
                     writes, astray, span, ticks>>

Contexts == {"rainmaker", "service"}

(* RainMaker's task is handling a write of the flag.                        *)
WritingFlag == at["rainmaker"] \notin {"idle", "blob"}

CalibrationInit ==
  /\ \E t \in TimeoutsSent, m \in MoveThresholds :
       g_detect_config = [calibrate |-> FALSE, timeout |-> t % Width, threshold |-> m]
  /\ nvs = g_detect_config
  /\ timerleft = 0 /\ active = FALSE /\ posted = << >>
  /\ training = FALSE /\ cloudFlag = FALSE
  /\ at = [c \in Contexts |-> "idle"] /\ loaded = [c \in Contexts |-> 0] /\ val = FALSE
  /\ writes = 0 /\ astray = FALSE /\ span = 0 /\ ticks = 0

-----------------------------------------------------------------------------
(* auto_calibrate_timercb, in task c.                                       *)

Move(c, from, to) == at[c] = from /\ at' = [at EXCEPT ![c] = to]

(* timerleft -= Interval is a load ...                                      *)
LoadLeft(c) ==
  /\ Move(c, "load", "store")
  /\ loaded' = [loaded EXCEPT ![c] = timerleft]
  /\ UNCHANGED <<g_detect_config, nvs, timerVars, training, cloudFlag, val, writes, astray,
                 span, ticks>>

(* ... and a store; less than an interval left is the end.                  *)
StoreLeft(c) ==
  /\ Move(c, "store", IF loaded[c] - Interval < Interval THEN "reset" ELSE "param")
  /\ timerleft' = loaded[c] - Interval
  /\ loaded' = [loaded EXCEPT ![c] = 0]
  /\ UNCHANGED <<g_detect_config, nvs, active, posted, training, cloudFlag, val, writes, astray,
                 span, ticks>>

ResetLeft(c) ==
  /\ Move(c, "reset", "clear")
  /\ timerleft' = g_detect_config.timeout
  /\ UNCHANGED <<g_detect_config, nvs, active, posted, training, cloudFlag, loaded, val, writes,
                 astray, span, ticks>>

ClearFlag(c) ==
  /\ Move(c, "clear", "stop")
  /\ g_detect_config' = [g_detect_config EXCEPT !.calibrate = FALSE]
  /\ UNCHANGED <<nvs, timerVars, training, cloudFlag, loaded, val, writes, astray, span, ticks>>

(* Mutation: the timer is left running.                                     *)
StopTimerNot(c) ==
  /\ Move(c, "stop", "trained")
  /\ UNCHANGED <<g_detect_config, nvs, timerVars, training, cloudFlag, loaded, val, writes,
                 astray, span, ticks>>

StopTimer(c) ==
  /\ Move(c, "stop", "trained")
  /\ posted' = Append(posted, "stop")
  /\ UNCHANGED <<g_detect_config, nvs, timerleft, active, training, cloudFlag, loaded, val,
                 writes, astray, span, ticks>>

(* esp_radar_train_stop stores the thresholds that it found.                *)
TrainStop(c) ==
  /\ Move(c, "trained", "save")
  /\ training' = FALSE
  /\ \E m \in MoveThresholds : g_detect_config' = [g_detect_config EXCEPT !.threshold = m]
  /\ UNCHANGED <<nvs, timerVars, cloudFlag, loaded, val, writes, astray, span, ticks>>

(* nvs_set_blob: a blob is written as a whole.                              *)
StoreBlob(c) ==
  /\ Move(c, "save", "param")
  /\ nvs' = g_detect_config
  /\ UNCHANGED <<g_detect_config, timerVars, training, cloudFlag, loaded, val, writes, astray,
                 span, ticks>>

(* The cloud is told; a write goes on, the timer service returns to its      *)
(* commands.                                                                *)
TellFlag(c) ==
  /\ Move(c, "param", IF c = "rainmaker" THEN "report" ELSE "drain")
  /\ cloudFlag' = g_detect_config.calibrate
  /\ UNCHANGED <<g_detect_config, nvs, timerVars, training, loaded, val, writes, astray, span,
                 ticks>>

auto_calibrate_timercb(c) ==
  \/ LoadLeft(c) \/ StoreLeft(c) \/ ResetLeft(c) \/ ClearFlag(c)
  \/ StopTimer(c) \/ TrainStop(c) \/ StoreBlob(c) \/ TellFlag(c)

-----------------------------------------------------------------------------
(* The timer service: after a callback all commands that are queued come     *)
(* first; otherwise an expiry and a command may come in either order.       *)
Expire ==
  /\ active
  /\ Move("service", "idle", "load")
  /\ ticks' = ticks + 1
  /\ astray' = (astray \/ WritingFlag)
  /\ UNCHANGED <<g_detect_config, nvs, timerVars, training, cloudFlag, loaded, val, writes, span>>

TimerCommand ==
  /\ at["service"] \in {"idle", "drain"} /\ posted # << >>
  /\ active' = (Head(posted) = "start")
  /\ posted' = Tail(posted)
  /\ UNCHANGED <<g_detect_config, nvs, timerleft, training, cloudFlag, at, loaded, val, writes,
                 astray, span, ticks>>

Drained ==
  /\ posted = << >>
  /\ Move("service", "drain", "idle")
  /\ UNCHANGED <<g_detect_config, nvs, timerVars, training, cloudFlag, loaded, val, writes, astray,
                 span, ticks>>

-----------------------------------------------------------------------------
(* write_cb, in RainMaker's task.                                           *)

Write == writes < MaxWrites /\ writes' = writes + 1

(* The fields that are only stored, truncated to their width.               *)
WriteField ==
  /\ Write
  /\ Move("rainmaker", "idle", "blob")
  /\ \/ \E t \in TimeoutsSent : g_detect_config' = [g_detect_config EXCEPT !.timeout = t % Width]
     \/ \E m \in MoveThresholds : g_detect_config' = [g_detect_config EXCEPT !.threshold = m]
  /\ UNCHANGED <<nvs, timerVars, training, cloudFlag, loaded, val, astray, span, ticks>>

(* threshold_calibrate.  The timer is created once and never deleted: it is  *)
(* at rest until it is started.                                             *)
WriteFlag ==
  /\ Write
  /\ Move("rainmaker", "idle", "test")
  /\ val' \in BOOLEAN
  /\ g_detect_config' = [g_detect_config EXCEPT !.calibrate = val']
  /\ astray' = (at["service"] \notin {"idle", "drain"})
  /\ UNCHANGED <<nvs, timerVars, training, cloudFlag, loaded, span, ticks>>

(* The field is read again.                                                 *)
TestFlag ==
  /\ Move("rainmaker", "test", IF g_detect_config.calibrate THEN "left" ELSE "zero")
  /\ UNCHANGED <<g_detect_config, nvs, timerVars, training, cloudFlag, loaded, val, writes, astray,
                 span, ticks>>

SetLeft ==
  /\ Move("rainmaker", "left", "start")
  /\ timerleft' = g_detect_config.timeout
  /\ span' = g_detect_config.timeout /\ ticks' = 0
  /\ UNCHANGED <<g_detect_config, nvs, active, posted, training, cloudFlag, loaded, val, writes,
                 astray>>

StartTimer ==
  /\ Move("rainmaker", "start", "train")
  /\ posted' = Append(posted, "start")
  /\ UNCHANGED <<g_detect_config, nvs, timerleft, active, training, cloudFlag, loaded, val, writes,
                 astray, span, ticks>>

TrainStart ==
  /\ Move("rainmaker", "train", "report")
  /\ training' = TRUE
  /\ UNCHANGED <<g_detect_config, nvs, timerVars, cloudFlag, loaded, val, writes, astray, span,
                 ticks>>

(* The end of a calibration is left to the callback, called by this task.   *)
ZeroLeft ==
  /\ Move("rainmaker", "zero", "load")
  /\ timerleft' = 0
  /\ UNCHANGED <<g_detect_config, nvs, active, posted, training, cloudFlag, loaded, val, writes,
                 astray, span, ticks>>

ReportFlag ==
  /\ Move("rainmaker", "report", "blob")
  /\ cloudFlag' = val /\ val' = FALSE
  /\ UNCHANGED <<g_detect_config, nvs, timerVars, training, loaded, writes, astray, span, ticks>>

StoreWritten ==
  /\ Move("rainmaker", "blob", "idle")
  /\ nvs' = g_detect_config
  /\ UNCHANGED <<g_detect_config, timerVars, training, cloudFlag, loaded, val, writes, astray, span,
                 ticks>>

write_cb ==
  \/ WriteField \/ WriteFlag \/ TestFlag \/ SetLeft \/ StartTimer \/ TrainStart \/ ZeroLeft
  \/ ReportFlag \/ StoreWritten

-----------------------------------------------------------------------------
(* A reset at any moment, and app_main: the configuration is read from NVS,  *)
(* the parameters are created from it.  No timer and no training is started. *)
Reboot ==
  /\ g_detect_config' = nvs
  /\ timerleft' = 0 /\ active' = FALSE /\ posted' = << >>
  /\ training' = FALSE /\ cloudFlag' = nvs.calibrate
  /\ at' = [c \in Contexts |-> "idle"] /\ loaded' = [c \in Contexts |-> 0] /\ val' = FALSE
  /\ astray' = nvs.calibrate /\ span' = 0 /\ ticks' = 0
  /\ UNCHANGED <<nvs, writes>>

CalibrationNext ==
  \/ \E c \in Contexts : auto_calibrate_timercb(c)
  \/ Expire \/ TimerCommand \/ Drained \/ write_cb \/ Reboot

CalibrationSpec == CalibrationInit /\ [][CalibrationNext]_calibrationVars

-----------------------------------------------------------------------------
AtRest == \A c \in Contexts : at[c] \in {"idle", "drain"}

(* Between handlers NVS holds the configuration, in whatever order the       *)
(* cloud's writes and the end of a calibration change and store it: a        *)
(* reboot then restores what was in force.  Unless a write of the flag met   *)
(* the callback, or the device rebooted in a calibration, the flag, the      *)
(* timer, the library and the cloud agree then; and a calibration that is on *)
(* has not had as many intervals as the timeout that it began with, whatever  *)
(* was written to the timeout since.                                        *)
CalibrationAgrees ==
  AtRest =>
    LET flag == g_detect_config.calibrate
        runs == IF posted = << >> THEN active ELSE posted[Len(posted)] = "start"
    IN  /\ nvs = g_detect_config
        /\ ~ astray => /\ runs = flag /\ training = flag /\ cloudFlag = flag
                       /\ flag => timerleft = span - Interval * ticks
                       /\ flag /\ ticks > 0 => Interval * (ticks + 1) <= span
=============================================================================
