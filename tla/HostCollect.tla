---------------------------- MODULE HostCollect ----------------------------
(***************************************************************************)
(* The collect panel of esp_csi_tool.py: pushButton_collect_show and the   *)
(* two timers behind it.  The fields that the user sets are counted down    *)
(* in place and put back at the end, and stay editable while they count.    *)
(***************************************************************************)
EXTENDS Naturals

CONSTANTS MaxNumber, MaxDelay   \* bounds of the two fields

ASSUME CollectPanelAssumption == MaxNumber \in Nat /\ MaxDelay \in Nat

VARIABLES
  collectText,                 \* of pushButton_collect_start
  number, delay,               \* spinBox_collect_number, timeEdit_collect_delay
  label_number, label_delay,   \* their values at the start
  timer_collect_duration, timer_collect_delay,
  target,                      \* comboBox_collect_target is not at index 0
  labelling,                   \* history: the device was told to collect, and
                               \* neither told to stop nor has it counted down
  wanted                       \* history: the fields, as the user set them
                               \* while nothing was counted

panelVars == <<collectText, number, delay, label_number, label_delay,
               timer_collect_duration, timer_collect_delay, target, labelling, wanted>>

Fields(n, d) == [number |-> n, delay |-> d]

CollectPanelInit ==
  /\ collectText = "start"
  /\ number = 1 /\ delay = 0 /\ label_number = 1 /\ label_delay = 0
  /\ timer_collect_duration = FALSE /\ timer_collect_delay = FALSE
  /\ target = FALSE /\ labelling = FALSE
  /\ wanted = Fields(1, 0)

-----------------------------------------------------------------------------
(* The user's edits, while the fields count or not.                         *)
EditFields ==
  /\ number' \in 0..MaxNumber /\ delay' \in 0..MaxDelay
  /\ wanted' = IF collectText = "start" THEN Fields(number', delay') ELSE wanted
  /\ UNCHANGED <<collectText, label_number, label_delay, timer_collect_duration,
                 timer_collect_delay, target, labelling>>

ChooseTarget ==
  /\ target' = ~ target
  /\ UNCHANGED <<collectText, number, delay, label_number, label_delay,
                 timer_collect_duration, timer_collect_delay, labelling, wanted>>

(* pushButton_collect_show with the text "start"; without a target or a     *)
(* number it shows an error and returns.                                    *)
StartCollect ==
  /\ collectText = "start" /\ target /\ number # 0
  /\ collectText' = "stop"
  /\ timer_collect_delay' = TRUE
  /\ label_number' = number /\ label_delay' = delay
  /\ UNCHANGED <<number, delay, timer_collect_duration, target, labelling, wanted>>

PutBack == number' = label_number /\ delay' = label_delay

(* Mutation: only the timer that counts the samples is stopped.             *)
StopCollectHalf ==
  /\ collectText = "stop"
  /\ PutBack
  /\ timer_collect_duration' = FALSE
  /\ labelling' = FALSE
  /\ collectText' = "start"
  /\ UNCHANGED <<label_number, label_delay, timer_collect_delay, target, wanted>>

(* ... and with the text "stop".                                            *)
StopCollect ==
  /\ collectText = "stop"
  /\ PutBack
  /\ timer_collect_delay' = FALSE /\ timer_collect_duration' = FALSE
  /\ labelling' = FALSE
  /\ collectText' = "start"
  /\ UNCHANGED <<label_number, label_delay, target, wanted>>

(* timeEdit_collect_delay_show: each second, and at zero the device is told *)
(* to collect as many samples as the field says then.                       *)
DelayTick ==
  /\ timer_collect_delay
  /\ \/ /\ delay > 0
        /\ delay' = delay - 1
        /\ UNCHANGED <<timer_collect_delay, timer_collect_duration, labelling>>
     \/ /\ delay = 0
        /\ timer_collect_delay' = FALSE /\ timer_collect_duration' = TRUE
        /\ labelling' = (number > 0)
        /\ UNCHANGED delay
  /\ UNCHANGED <<collectText, number, label_number, label_delay, target, wanted>>

(* spinBox_collect_number_show: each duration of a sample.  The end sends    *)
(* no command; the device counts on its own.                                *)
NumberTick ==
  /\ timer_collect_duration
  /\ \/ /\ number >= 1
        /\ number' = number - 1
        /\ UNCHANGED <<delay, timer_collect_duration, collectText>>
     \/ /\ number = 0
        /\ timer_collect_duration' = FALSE
        /\ PutBack
        /\ collectText' = "start"
  /\ UNCHANGED <<label_number, label_delay, timer_collect_delay, target, labelling,
                 wanted>>

(* The device has taken the last sample that it was told to take.           *)
DeviceCounted ==
  /\ labelling
  /\ labelling' = FALSE
  /\ UNCHANGED <<collectText, number, delay, label_number, label_delay,
                 timer_collect_duration, timer_collect_delay, target, wanted>>

CollectPanelNext ==
  \/ EditFields \/ ChooseTarget \/ StartCollect \/ StopCollect
  \/ DelayTick \/ NumberTick \/ DeviceCounted

CollectPanelSpec == CollectPanelInit /\ [][CollectPanelNext]_panelVars

-----------------------------------------------------------------------------
(* Whatever the user edits while the fields count down, and whether the     *)
(* collection ends by itself or is stopped: afterwards nothing counts any   *)
(* more and the fields are back as they were set; before that exactly one   *)
(* timer runs.                                                              *)
CollectAtRest ==
  /\ collectText = "start" =>
       /\ ~ timer_collect_delay /\ ~ timer_collect_duration
       /\ Fields(number, delay) = wanted
  /\ collectText = "stop" => timer_collect_delay # timer_collect_duration
=============================================================================
