---------------------------- MODULE MCRadarConfig ----------------------------
(* Two devices' configurations for TLC: the console test's (RadarConfig) and *)
(* the RainMaker device's, with what that device reports (Calibration,       *)
(* Presence).  The modules share no variable, and nothing that one of them   *)
(* does changes what another can do: a behaviour takes the steps of the one  *)
(* that focus names, and checks its properties.                             *)
(*                                                                          *)
(* RadarConfig has two servers, one after the other, and two GOT_IPs,       *)
(* commands and clients, so that any two updates may overlap.               *)
EXTENDS RadarConfig, Calibration, Presence

VARIABLE focus

MCVars == <<vars, calibrationVars, presenceVars, focus>>

MCInit ==
  /\ focus \in {"config", "calibration", "presence"}
  /\ Init /\ CalibrationInit /\ PresenceInit
  /\ focus # "config" => eager /\ resources
  /\ focus # "calibration" => /\ g_detect_config.timeout = 10
                              /\ g_detect_config.threshold = 1
  /\ focus # "presence" => someone_timeout = 2

MCNext ==
  \/ focus = "config" /\ Next /\ UNCHANGED <<calibrationVars, presenceVars, focus>>
  \/ focus = "calibration" /\ CalibrationNext /\ UNCHANGED <<vars, presenceVars, focus>>
  \/ focus = "presence" /\ PresenceNext /\ UNCHANGED <<vars, calibrationVars, focus>>

(* The fairness of RadarConfig's FairSpec.                                  *)
MCSpec ==
  /\ MCInit /\ [][MCNext]_MCVars
  /\ focus = "config" => WF_vars(Event) /\ \A v \in Servers : WF_vars(Serve(v))
=============================================================================
