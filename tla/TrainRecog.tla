----------------------------- MODULE TrainRecog -----------------------------
(***************************************************************************)
(* Training and recognition in the viewers csi_data_read_parse_org.py,      *)
(* _low.py and _3d.py.  The Train button allocates the rows of a label; the  *)
(* reader thread fills one row with each frame and reads the label from the  *)
(* text field for each cell.  In low the thread also passes its reports to   *)
(* the window in two lists.  Nothing is locked.                             *)
(*                                                                         *)
(* A label is the number at the end of its text ("base1" is 1, 0 is none).   *)
(* A cell holds the number of the frame that it is from, 0 if from none; in   *)
(* low, whose cells are filtered, that of its newest frame.                  *)
(* Distances between signals are any; 0xffffffff is Far.                    *)
(***************************************************************************)
EXTENDS Naturals, Sequences, FiniteSetsExt

CONSTANTS MaxTrainFrames,  \* bound: frames that are read
          MaxActs,         \* bound: what the user does
          TrainRows,       \* CSI_TRAIN_SIZE of org and 3d: 5
          Cells,           \* subcarriers of a row
          ShortCells,      \* those that a frame of 128 values fills
          Texts,           \* labels that the user types
          Distances

ASSUME TrainAssumption == /\ {MaxTrainFrames, MaxActs} \subseteq Nat
                          /\ {TrainRows, Cells} \subseteq Nat \ {0}
                          /\ ShortCells \in 1..Cells
                          /\ Texts \subseteq Nat /\ Distances \subseteq Nat \ {0}
                          /\ IsFiniteSet(Distances)

VARIABLES
  acts,
  trainTool,        \* "org", "low" or "3d"
  button,           \* where the window is in a button's handler
  enabled,          \* button3 and button3a
  tlabel,           \* the text field
  train, recog,
  traindict,        \* rows of each label
  datacnt,          \* rows that the training has filled
  fill,             \* where the thread is, and the next cell of its row
  frameNo,
  column,           \* the array of low: the newest frame in each cell
  keys,             \* entries of traindict when recogx began
  mxx2s, hits,      \* reports of low: distances and labels, each with its number
  mxx2x, shownHit,  \* the best distance, and the report whose label is shown
  draw,             \* where update_data of low is
  session,          \* history: the latest training, and whether its label stayed
  done,             \* history: labels whose latest training got its last row
  wides,            \* history: the frames of more than 128 values
  mishaps           \* history: what went wrong, see the properties

guiVars    == <<button, enabled, tlabel>>
dictVars   == <<traindict, datacnt, session, done>>
reportVars == <<mxx2s, hits, mxx2x, shownHit, draw>>
frameVars  == <<frameNo, column, wides>>
trainRecogVars == <<acts, trainTool, guiVars, train, recog, dictVars, fill, frameVars, keys,
                    reportVars, mishaps>>

CSI_TRAIN_SIZE == IF trainTool = "low" THEN 1 ELSE TrainRows

Far == Cardinality(Distances) + 1

TrainRecogInit ==
  /\ trainTool \in {"org", "low", "3d"} /\ acts = 0
  /\ button = "none" /\ enabled = TRUE /\ tlabel = 1
  /\ train = FALSE /\ recog = FALSE
  /\ traindict = << >> /\ datacnt = 0 /\ keys = 0
  /\ frameNo = 0 /\ column = [c \in 1..Cells |-> 0] /\ wides = {}
  /\ fill = [at |-> "read", cell |-> 1]
  /\ mxx2s = << >> /\ hits = << >> /\ draw = "none"
  /\ mxx2x = [d |-> Far, n |-> 0] /\ shownHit = 0
  /\ session = [label |-> 0, clean |-> TRUE] /\ done = {} /\ mishaps = {}

Idle == button = "none" /\ draw = "none"

(* The user does something while the window is idle.                        *)
Act == Idle /\ acts < MaxActs /\ acts' = acts + 1

ZeroRows == [r \in 0..(CSI_TRAIN_SIZE - 1) |-> [c \in 1..Cells |-> 0]]

-----------------------------------------------------------------------------
(* The label changes: if a training is under way, its rows go astray.        *)
Training == train \/ button # "none" \/ fill.at \in {"row", "stop", "enable", "draw"}

SetLabel(t) ==
  /\ tlabel' = t
  /\ session' = [session EXCEPT !.clean = @ /\ ~ (Training /\ t # tlabel)]

(* onclick3a counts the first digit up and drops the rest of the text, so    *)
(* that 10 is followed by 2.                                                *)
onclick3a == SetLabel(IF tlabel = 10 THEN 2 ELSE tlabel + 1)

TypeLabel ==
  /\ Act /\ \E t \in Texts : SetLabel(t)
  /\ UNCHANGED <<trainTool, button, enabled, train, recog, traindict, datacnt, done, fill,
                 frameVars, keys, reportVars, mishaps>>

PressCount ==
  /\ Act /\ enabled /\ onclick3a
  /\ UNCHANGED <<trainTool, button, enabled, train, recog, traindict, datacnt, done, fill,
                 frameVars, keys, reportVars, mishaps>>

(* The Train button: the label's rows are zeroed, ...                        *)
PressTrain ==
  /\ Act /\ enabled
  /\ button' = "flag"
  /\ traindict' = [l \in DOMAIN traindict \cup {tlabel} |->
                     IF l = tlabel THEN ZeroRows ELSE traindict[l]]
  /\ session' = [label |-> tlabel, clean |-> TRUE]
  /\ done' = done \ {tlabel}
  /\ UNCHANGED <<trainTool, enabled, tlabel, train, recog, datacnt, fill, frameVars, keys,
                 reportVars, mishaps>>

(* ... the thread is told, ...                                              *)
FlagTrain ==
  /\ button = "flag"
  /\ button' = "disable" /\ train' = TRUE /\ recog' = FALSE
  /\ UNCHANGED <<acts, trainTool, enabled, tlabel, dictVars, fill, frameVars, keys, reportVars, mishaps>>

(* ... and only then the button is disabled, ...                            *)
DisableTrain ==
  /\ button = "disable"
  /\ button' = "none" /\ enabled' = FALSE
  /\ UNCHANGED <<acts, trainTool, tlabel, train, recog, dictVars, fill, frameVars, keys, reportVars, mishaps>>

onclick3 == PressTrain \/ FlagTrain \/ DisableTrain

(* Mutation: a cancelled training gives the buttons back.                    *)
onclick4Enables ==
  /\ Act
  /\ train' = FALSE /\ recog' = ~ recog /\ enabled' = TRUE
  /\ UNCHANGED <<trainTool, button, tlabel, dictVars, fill, frameVars, keys, reportVars, mishaps>>

(* The Recog button cancels a training.  The other buttons stay disabled,    *)
(* and datacnt stays.                                                       *)
onclick4 ==
  /\ Act
  /\ train' = FALSE /\ recog' = ~ recog
  /\ mishaps' = IF train THEN mishaps \cup {"cancelled"} ELSE mishaps
  /\ UNCHANGED <<trainTool, guiVars, dictVars, fill, frameVars, keys, reportVars>>

-----------------------------------------------------------------------------
(* The thread.  An exception in fill is caught: the frame ends there.        *)

At(where) == fill.at = where
GoTo(where) == fill' = [at |-> where, cell |-> 1]

(* The array is filled before the frame is looked at.                        *)
Fill ==
  /\ At("read") /\ frameNo < MaxTrainFrames
  /\ frameNo' = frameNo + 1
  /\ \E wide \in BOOLEAN :
       /\ wides' = IF wide THEN wides \cup {frameNo'} ELSE wides
       /\ column' = [c \in 1..Cells |-> IF c <= ShortCells \/ wide THEN frameNo' ELSE column[c]]
  /\ GoTo(IF train THEN "row" ELSE "recog")
  /\ UNCHANGED <<acts, trainTool, guiVars, train, recog, dictVars, keys, reportVars, mishaps>>

(* low trains with its array, whatever the frame filled, org and 3d with the  *)
(* frame itself.                                                            *)
Signal(c) == IF trainTool = "low" THEN column[c] ELSE frameNo

SignalCells == IF trainTool = "low" \/ frameNo \in wides THEN Cells ELSE ShortCells

(* A cell of the row: tlabel is read for each of them.                      *)
TrainCell ==
  /\ At("row")
  /\ IF tlabel \in DOMAIN traindict /\ datacnt < CSI_TRAIN_SIZE
     THEN /\ traindict' = [traindict EXCEPT ![tlabel][datacnt][fill.cell] = Signal(fill.cell)]
          /\ done' = IF tlabel = session.label THEN done ELSE done \ {tlabel}
          /\ IF fill.cell < SignalCells THEN fill' = [fill EXCEPT !.cell = @ + 1] ELSE GoTo("count")
     ELSE GoTo("read") /\ UNCHANGED <<traindict, done>>
  /\ UNCHANGED <<acts, trainTool, guiVars, train, recog, datacnt, session, frameVars, keys, reportVars, mishaps>>

CountRow ==
  /\ At("count")
  /\ datacnt' = datacnt + 1
  /\ LET last == datacnt' >= CSI_TRAIN_SIZE
     IN  /\ GoTo(IF last THEN "stop" ELSE "recog")
         /\ done' = IF last /\ session.clean /\ tlabel = session.label
                    THEN done \cup {tlabel} ELSE done
  /\ UNCHANGED <<acts, trainTool, guiVars, train, recog, traindict, session, frameVars, keys, reportVars, mishaps>>

StopTraining ==
  /\ At("stop") /\ GoTo("enable")
  /\ train' = FALSE
  /\ UNCHANGED <<acts, trainTool, guiVars, recog, dictVars, frameVars, keys, reportVars, mishaps>>

(* Mutation: the thread leaves the buttons to the window.                    *)
EnableTrainForgotten ==
  /\ At("enable") /\ GoTo("draw")
  /\ UNCHANGED <<acts, trainTool, guiVars, train, recog, dictVars, frameVars, keys, reportVars, mishaps>>

(* The thread may get here while the window is still in onclick3.            *)
EnableTrain ==
  /\ At("enable") /\ GoTo("draw")
  /\ enabled' = TRUE
  /\ mishaps' = IF button = "disable" THEN mishaps \cup {"raced"} ELSE mishaps
  /\ UNCHANGED <<acts, trainTool, button, tlabel, train, recog, dictVars, frameVars, keys, reportVars>>

(* The rows of what is now the label are drawn; if there are none the count  *)
(* of rows is not reset.                                                    *)
drawtrain ==
  /\ At("draw")
  /\ IF tlabel \in DOMAIN traindict
     THEN GoTo("reset") /\ UNCHANGED mishaps
     ELSE GoTo("read") /\ mishaps' = mishaps \cup {"lost"}
  /\ UNCHANGED <<acts, trainTool, guiVars, train, recog, dictVars, frameVars, keys, reportVars>>

ResetCount ==
  /\ At("reset") /\ GoTo(IF trainTool = "low" THEN "label" ELSE "recog")
  /\ datacnt' = 0
  /\ UNCHANGED <<acts, trainTool, guiVars, train, recog, traindict, session, done, frameVars, keys,
                 reportVars, mishaps>>

(* low goes on to the next label by itself.                                 *)
NextLabel ==
  /\ At("label") /\ GoTo("recog")
  /\ onclick3a
  /\ UNCHANGED <<acts, trainTool, button, enabled, train, recog, traindict, datacnt, done, frameVars, keys,
                 reportVars, mishaps>>

trainx == \/ TrainCell \/ CountRow \/ StopTraining \/ EnableTrain
          \/ drawtrain \/ ResetCount \/ NextLabel

(* recogx loops over the labels.                                            *)
BeginRecog ==
  /\ At("recog")
  /\ IF recog THEN GoTo("compare") /\ keys' = Cardinality(DOMAIN traindict)
              ELSE GoTo("read") /\ UNCHANGED keys
  /\ UNCHANGED <<acts, trainTool, guiVars, train, recog, dictVars, frameVars, reportVars, mishaps>>

(* An entry that was added meanwhile is an error of the loop.  The report of *)
(* a signal is numbered like its frame; org and 3d only log it.             *)
Compare ==
  /\ At("compare")
  /\ IF keys # Cardinality(DOMAIN traindict) \/ trainTool # "low"
     THEN GoTo("read") /\ UNCHANGED mxx2s
     ELSE /\ GoTo("hit")
          /\ \E d \in IF keys = 0 THEN {Far} ELSE Distances :
               mxx2s' = Append(mxx2s, [d |-> d, n |-> frameNo])
  /\ UNCHANGED <<acts, trainTool, guiVars, train, recog, dictVars, frameVars, keys,
                 hits, mxx2x, shownHit, draw, mishaps>>

AppendHit ==
  /\ At("hit") /\ GoTo("read")
  /\ hits' = Append(hits, frameNo)
  /\ UNCHANGED <<acts, trainTool, guiVars, train, recog, dictVars, frameVars, keys,
                 mxx2s, mxx2x, shownHit, draw, mishaps>>

recogx == BeginRecog \/ Compare \/ AppendHit

-----------------------------------------------------------------------------
(* update_data of low: the newest report but the first that is better than   *)
(* mxx2x.  Its label may not be there yet, which ends the program (no exit   *)
(* from draw = "gone").                                                     *)
Better == {i \in 2..Len(mxx2s) : mxx2s[i].d < mxx2x.d}

(* Mutation: the labels are kept when the distances are cleared.             *)
ClearReportsHalf(i) ==
  /\ draw' = "none"
  /\ mxx2s' = << >> /\ mxx2x' = mxx2s[i] /\ shownHit' = hits[i]
  /\ UNCHANGED <<hits, mishaps>>

(* Both lists are cleared, one after the other.                             *)
ClearReports(i) ==
  /\ draw' = "clear"
  /\ mxx2s' = << >> /\ mxx2x' = mxx2s[i] /\ shownHit' = hits[i]
  /\ mishaps' = IF At("hit") THEN mishaps \cup {"crossed"} ELSE mishaps
  /\ UNCHANGED hits

ShowHit ==
  /\ Idle /\ Better # {}
  /\ LET i == CHOOSE i \in Better : \A j \in Better : j <= i
     IN  IF i <= Len(hits)
         THEN ClearReports(i)
         ELSE draw' = "gone" /\ UNCHANGED <<mxx2s, hits, mxx2x, shownHit, mishaps>>
  /\ UNCHANGED <<acts, trainTool, guiVars, train, recog, dictVars, fill, frameVars, keys>>

(* A report that came between the two leaves the lists at different lengths.  *)
ClearHits ==
  /\ draw = "clear" /\ draw' = "none"
  /\ hits' = << >>
  /\ mishaps' = IF mxx2s # << >> THEN mishaps \cup {"crossed"} ELSE mishaps
  /\ UNCHANGED <<acts, trainTool, guiVars, train, recog, dictVars, fill, frameVars, keys,
                 mxx2s, mxx2x, shownHit>>

(* More than ten draws later: "Idle".                                       *)
ShowIdle ==
  /\ Idle /\ mxx2x' = [d |-> Far, n |-> 0] /\ shownHit' = 0
  /\ UNCHANGED <<acts, trainTool, guiVars, train, recog, dictVars, fill, frameVars, keys,
                 mxx2s, hits, draw, mishaps>>

update_data_hits == trainTool = "low" /\ (ShowHit \/ ClearHits \/ ShowIdle)

TrainRecogNext ==
  /\ draw # "gone"
  /\ \/ TypeLabel \/ PressCount \/ onclick3 \/ onclick4
     \/ Fill \/ trainx \/ recogx
     \/ update_data_hits

TrainRecogSpec == TrainRecogInit /\ [][TrainRecogNext]_trainRecogVars

-----------------------------------------------------------------------------
LatestWide(frame) == Max({n \in wides : n <= frame} \cup {0})

(* The rows of a training that reached its end under one label are those of  *)
(* consecutive frames, none missing and none left over from another training *)
(* although the count of rows outlives a training that was cancelled and the *)
(* label is read anew for each cell.  The cells that a short frame does not  *)
(* have are zero in org and 3d, and in low those of the latest long frame.    *)
TrainedWhole ==
  \A l \in done : \A r \in DOMAIN traindict[l] :
    LET frame == traindict[l][0][1] + r
        rest  == IF trainTool = "low" THEN LatestWide(frame)
                 ELSE IF frame \in wides THEN frame ELSE 0
    IN  /\ traindict[l][0][1] > 0
        /\ \A c \in 1..Cells : traindict[l][r][c] = IF c <= ShortCells THEN frame ELSE rest

(* Between handlers and frames the Train button is enabled only if nothing   *)
(* trains; it stays disabled after a training only if the user cancelled it  *)
(* or the thread had finished before the window disabled the button; and a   *)
(* training has rows left to fill unless an earlier one lost its label at    *)
(* the very end.                                                            *)
ButtonsBack ==
  Idle /\ At("read") =>
    /\ enabled => ~ train
    /\ ~ enabled /\ ~ train => mishaps \cap {"cancelled", "raced"} # {}
    /\ train => datacnt < CSI_TRAIN_SIZE \/ "lost" \in mishaps

(* The label and the distance that low shows are of the same report, unless  *)
(* a report was under way while the lists were cleared; and until then the   *)
(* window misses a label only between the thread's two appends.              *)
ReportPaired ==
  "crossed" \notin mishaps => /\ shownHit = mxx2x.n
                              /\ draw = "gone" => At("hit")
=============================================================================
