------------------------------ MODULE MCViewers ------------------------------
(* The get-started viewers for TLC: their arrays, their training and their    *)
(* log.  The modules share no variable, and nothing that one of them does     *)
(* changes what another can do: a behaviour takes the steps of the one that   *)
(* focus names, and checks its properties.                                   *)
EXTENDS Viewer, TrainRecog, LogWindow

CONSTANT MaxWork   \* bound: frames and acts of the training together

VARIABLE focus

MCCut == [t \in LogTools |-> IF t = "logx" THEN 2 ELSE 1]

MCVars == <<viewerVars, trainRecogVars, logVars, focus>>

MCInit ==
  /\ focus \in {"viewer", "train", "log"}
  /\ ViewerInit /\ TrainRecogInit /\ LogInit
  /\ focus # "viewer" => tool = "parse"
  /\ focus # "train" => trainTool = "org"
  /\ focus # "log" => logTool = "org"

MCNext ==
  \/ focus = "viewer" /\ ViewerNext /\ UNCHANGED <<trainRecogVars, logVars, focus>>
  \/ focus = "train" /\ TrainRecogNext /\ acts' + frameNo' <= MaxWork
     /\ UNCHANGED <<viewerVars, logVars, focus>>
  \/ focus = "log" /\ LogNext /\ UNCHANGED <<viewerVars, trainRecogVars, focus>>

MCSpec == MCInit /\ [][MCNext]_MCVars /\ (focus = "viewer" => ViewerFairness)
==============================================================================
