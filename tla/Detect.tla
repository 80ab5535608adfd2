-------------------------------- MODULE Detect --------------------------------
(***************************************************************************)
(* Room and human status from the radar's waveforms: wifi_radar_cb of      *)
(* examples/esp-radar/console_test/main/app_main.c.                        *)
(*                                                                         *)
(* The radar library calls wifi_radar_cb with one wander and one jitter    *)
(* value after another.  The callback keeps both in ring buffers of        *)
(* predict_buff_size slots, counts the values above the thresholds and     *)
(* compares the counts with predict_outliers_number.  The console changes  *)
(* the size, the number and the thresholds at any time.                    *)
(*                                                                         *)
(* Values are levels.  The variables recent, lastSize, since and steady    *)
(* are history: the program does not have them.                            *)
(***************************************************************************)
EXTENDS Naturals, Sequences, FiniteSets

CONSTANTS
  Levels,     (* Values of a waveform and of a threshold.                  *)
  ArraySize,  (* Slots that are allocated: 100 in the code.                *)
  Sizes,      (* Values of --predict_buff_size.                            *)
  Outliers,   (* Values of --predict_outliers_number.                      *)
  Modulus     (* s_buff_count is an uint32_t: 2^32 in the code.            *)

ASSUME LevelAssumption    == Levels \subseteq Nat /\ 0 \in Levels
ASSUME SizeAssumption     == ArraySize \in Nat \ {0} /\ Sizes \subseteq 1..ArraySize
ASSUME OutlierAssumption  == Outliers \subseteq Nat \ {0}
ASSUME ModulusAssumption  == Modulus \in Nat /\ Modulus > ArraySize

VARIABLES
  predict_buff_size,         (* The fields of g_console_input_config.      *)
  predict_outliers_number,
  predict_someone_threshold,
  predict_move_threshold,
  s_buff_wander,             (* The ring buffers.                          *)
  s_buff_jitter,
  s_buff_count,
  callback,                  (* Where wifi_radar_cb is.                    *)
  buff_max_size,             (* Its local variables.                       *)
  buff_outliers_num,
  i,
  someone_count,
  move_count,
  recent,                    (* History: the last values, newest first.    *)
  lastSize,                  (* The size with which the last was stored.   *)
  since,                     (* How many were stored with that size.       *)
  steady                     (* Did the thresholds stay while it counted?  *)

configVars  == <<predict_buff_size, predict_outliers_number, predict_someone_threshold,
                 predict_move_threshold>>
ringVars    == <<s_buff_wander, s_buff_jitter, s_buff_count>>
localVars   == <<callback, buff_max_size, buff_outliers_num, i, someone_count, move_count>>
historyVars == <<recent, lastSize, since, steady>>
vars == <<configVars, ringVars, localVars, historyVars>>

Slots == 0..(ArraySize - 1)
Samples == [wander : Levels, jitter : Levels]

Init ==
  /\ predict_buff_size \in Sizes
  /\ predict_outliers_number \in Outliers
  /\ predict_someone_threshold \in Levels
  /\ predict_move_threshold \in Levels
  /\ s_buff_wander = [k \in Slots |-> 0]
  /\ s_buff_jitter = [k \in Slots |-> 0]
  /\ s_buff_count = 0
  /\ callback = "idle"
  /\ buff_max_size = predict_buff_size
  /\ buff_outliers_num = predict_outliers_number
  /\ i = 0
  /\ someone_count = 0
  /\ move_count = 0
  /\ recent = <<>>
  /\ lastSize = predict_buff_size
  /\ since = 0
  /\ steady = TRUE

-----------------------------------------------------------------------------
(* The radar command, in the console's task: each option is one store.     *)

SetSize ==
  /\ predict_buff_size' \in Sizes
  /\ UNCHANGED <<predict_outliers_number, predict_someone_threshold, predict_move_threshold,
                 ringVars, localVars, historyVars>>

SetOutliers ==
  /\ predict_outliers_number' \in Outliers
  /\ UNCHANGED <<predict_buff_size, predict_someone_threshold, predict_move_threshold,
                 ringVars, localVars, historyVars>>

(* By the user, or as the result of a calibration. *)
SetThreshold ==
  /\ \/ predict_someone_threshold' \in Levels /\ UNCHANGED predict_move_threshold
     \/ predict_move_threshold' \in Levels /\ UNCHANGED predict_someone_threshold
  /\ steady' = FALSE
  /\ UNCHANGED <<predict_buff_size, predict_outliers_number, ringVars, localVars, recent,
                 lastSize, since>>

-----------------------------------------------------------------------------
(* wifi_radar_cb, in the radar library's task.                             *)

Least(a, b) == IF a < b THEN a ELSE b

Remember(sample) ==
  /\ recent' = SubSeq(<<sample>> \o recent, 1, Least(Len(recent) + 1, ArraySize))
  /\ lastSize' = predict_buff_size
  /\ since' = IF lastSize = predict_buff_size THEN Least(since + 1, ArraySize) ELSE 1
  /\ steady' = TRUE

(* Mutation: the ring is indexed with its full size, and read with the     *)
(* size that is configured.                                                *)
StoreByArraySize ==
  /\ callback = "idle"
  /\ buff_max_size' = predict_buff_size
  /\ buff_outliers_num' = predict_outliers_number
  /\ \E sample \in Samples :
       /\ s_buff_wander' = [s_buff_wander EXCEPT ![s_buff_count % ArraySize] = sample.wander]
       /\ s_buff_jitter' = [s_buff_jitter EXCEPT ![s_buff_count % ArraySize] = sample.jitter]
       /\ Remember(sample)
  /\ s_buff_count' = (s_buff_count + 1) % Modulus
  /\ callback' = IF s_buff_count' < buff_max_size' THEN "idle" ELSE "judge"
  /\ UNCHANGED <<configVars, i, someone_count, move_count>>

(* The size and the number are loaded once; the sample is stored, and      *)
(* nothing more is done until the buffers were filled once.                *)
Store ==
  /\ callback = "idle"
  /\ buff_max_size' = predict_buff_size
  /\ buff_outliers_num' = predict_outliers_number
  /\ \E sample \in Samples :
       /\ s_buff_wander' = [s_buff_wander EXCEPT ![s_buff_count % buff_max_size'] = sample.wander]
       /\ s_buff_jitter' = [s_buff_jitter EXCEPT ![s_buff_count % buff_max_size'] = sample.jitter]
       /\ Remember(sample)
  /\ s_buff_count' = (s_buff_count + 1) % Modulus
  /\ callback' = IF s_buff_count' < buff_max_size' THEN "idle" ELSE "judge"
  /\ UNCHANGED <<configVars, i, someone_count, move_count>>

(* One turn of the loop: the thresholds are loaded in every turn. *)
Judge ==
  /\ callback = "judge" /\ i < buff_max_size
  /\ someone_count' =
       IF s_buff_wander[i] > predict_someone_threshold THEN someone_count + 1 ELSE someone_count
  /\ move_count' =
       IF s_buff_jitter[i] > predict_move_threshold THEN move_count + 1 ELSE move_count
  /\ i' = i + 1
  /\ UNCHANGED <<configVars, ringVars, callback, buff_max_size, buff_outliers_num, historyVars>>

(* After the loop. *)
room_status  == someone_count >= buff_outliers_num
human_status == move_count >= buff_outliers_num

Judged == callback = "judge" /\ i = buff_max_size

(* The row is printed and the LED is set; the callback returns. *)
Report ==
  /\ Judged
  /\ callback' = "idle"
  /\ i' = 0
  /\ someone_count' = 0
  /\ move_count' = 0
  /\ UNCHANGED <<configVars, ringVars, buff_max_size, buff_outliers_num, historyVars>>

Next ==
  \/ SetSize \/ SetOutliers \/ SetThreshold
  \/ Store \/ Judge \/ Report

Spec == Init /\ [][Next]_vars

-----------------------------------------------------------------------------
(* Properties.                                                             *)

TypeOK ==
  /\ predict_buff_size \in Sizes
  /\ predict_outliers_number \in Outliers
  /\ predict_someone_threshold \in Levels
  /\ predict_move_threshold \in Levels
  /\ s_buff_wander \in [Slots -> Levels]
  /\ s_buff_jitter \in [Slots -> Levels]
  /\ s_buff_count \in 0..(Modulus - 1)
  /\ callback \in {"idle", "judge"}
  /\ buff_max_size \in Sizes
  /\ buff_outliers_num \in Outliers
  /\ i \in 0..buff_max_size
  /\ someone_count \in 0..i
  /\ move_count \in 0..i
  /\ recent \in Seq(Samples) /\ Len(recent) <= ArraySize
  /\ lastSize \in Sizes
  /\ since \in 0..ArraySize
  /\ steady \in BOOLEAN

Above(n, waveform, threshold) == {k \in 1..n : recent[k][waveform] > threshold}

(* The statuses are those of the last predict_buff_size samples, as soon   *)
(* as so many were stored with that size, whatever sizes were in use       *)
(* before and although the count wraps: then nothing is reported until the *)
(* buffers were filled again.                                              *)
StatusOfRecentSamples ==
  Judged /\ steady /\ since >= buff_max_size =>
    LET Reference(waveform, threshold) ==
          Cardinality(Above(buff_max_size, waveform, threshold)) >= buff_outliers_num
    IN  /\ room_status  <=> Reference("wander", predict_someone_threshold)
        /\ human_status <=> Reference("jitter", predict_move_threshold)

(* "In filter outliers, set how many times the threshold is reached in a   *)
(* row to determine the room/people state", says the README.  The callback *)
(* counts the values above the threshold wherever they are in the buffer.  *)
OutliersInARow ==
  Judged /\ steady /\ since >= buff_max_size /\ human_status =>
    \E k \in 1..(buff_max_size + 1 - buff_outliers_num) :
      k..(k + buff_outliers_num - 1)
        \subseteq Above(buff_max_size, "jitter", predict_move_threshold)
=============================================================================
