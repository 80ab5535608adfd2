------------------------------ MODULE MCHostTool ------------------------------
(* The host tool's modules for TLC.  They share no variable, and nothing that *)
(* one of them does changes what another can do, so that the interleavings    *)
(* between them add nothing: a behaviour takes the steps of one module, which *)
(* focus names, and checks that module's properties while the others rest.    *)
EXTENDS HostTool, HostConfig, HostCollect, HostTrain, HostRecords

VARIABLE focus

MCClockOf ==
  LET At(d, h, m, s) == [date |-> d, hour |-> h, minute |-> m, second |-> s]
  IN  <<At(1, 23, 0, 59), At(1, 23, 59, 59), At(2, 0, 0, 0)>>

MCVars == <<toolVars, configVars, panelVars, trainVars, recordVars, focus>>

(* HostConfig has many initial states; they are wanted once only.             *)
MCInit ==
  /\ focus \in {"tool", "config", "collect", "train", "records"}
  /\ ToolInit /\ CollectPanelInit /\ TrainInit /\ RecordsInit /\ ConfigInit
  /\ focus # "config" => file = [checked |-> {}, ssid |-> NoSsid]

MCNext ==
  \/ /\ focus = "tool" /\ ToolNext
     /\ UNCHANGED <<configVars, panelVars, trainVars, recordVars, focus>>
  \/ /\ focus = "config" /\ ConfigNext
     /\ UNCHANGED <<toolVars, panelVars, trainVars, recordVars, focus>>
  \/ /\ focus = "collect" /\ CollectPanelNext
     /\ UNCHANGED <<toolVars, configVars, trainVars, recordVars, focus>>
  \/ /\ focus = "train" /\ TrainNext
     /\ UNCHANGED <<toolVars, configVars, panelVars, recordVars, focus>>
  \/ /\ focus = "records" /\ RecordsNext
     /\ UNCHANGED <<toolVars, configVars, panelVars, trainVars, focus>>

MCSpec == MCInit /\ [][MCNext]_MCVars /\ (focus = "tool" => ToolFairness)
===============================================================================
