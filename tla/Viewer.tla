------------------------------- MODULE Viewer -------------------------------
(***************************************************************************)
(* The seven viewers in get-started/tools, csi_data_read_parse*.py.  Each    *)
(* reads CSI rows from one or two serial ports in threads of their own and  *)
(* keeps them in global arrays that a timer of the window draws.  There is  *)
(* no lock: a thread fills an array cell by cell while the window and the   *)
(* other thread read it.  tool names the viewer that runs; the operators    *)
(* that end in its name are the functions of its file.                      *)
(*                                                                         *)
(* A cell holds the number of the frame that it comes from.  lltf is a cell  *)
(* that every frame fills, ht one that only a long frame fills (256 or 384   *)
(* values instead of 128): the HT field, in dual the columns from index 64.  *)
(***************************************************************************)
EXTENDS Naturals, Sequences, FiniteSetsExt

CONSTANTS MaxFrames,   \* bound: frames of a port
          Rows,        \* rows of an array that rotates: 200, in dual 100
          Slots,       \* slots of the array of sums: 200
          Lines        \* lines of the waterfall: 300 in histo, else 400

ASSUME ViewerAssumption == /\ MaxFrames \in Nat
                           /\ {Rows, Slots, Lines} \subseteq Nat \ {0}

Ports == {1, 2}
Tools == {"parse", "dual", "phase", "histo", "org", "low", "3d"}

VARIABLES
  tool,
  gui,              \* "starting", "running", "gone"
  stopser, stopme,  \* the window is stopped; a thread could not open its port
  reader,           \* where each port's thread is
  count, long,      \* frames of each port; whether the last one is long
  data,             \* the arrays of each port
  data4,            \* csi_data_array4 of phase, the other half of port 2's
  arg3,             \* what thread 1 of phase has loaded from csi_data_array3
  diff,             \* outdata3 of phase: the frames that a cell is made of
  sums, prog,       \* outdata4 and the slot that was written last
  picture, imgidx,  \* the waterfall and its next line
  longs             \* history: the long frames of each port

phaseVars  == <<data4, arg3, diff>>
arrayVars  == <<count, long, data, phaseVars, sums, prog, longs>>
drawVars   == <<picture, imgidx>>
viewerVars == <<tool, gui, stopser, stopme, reader, arrayVars, drawVars>>

-----------------------------------------------------------------------------
(* The main programs: their ports, whether the threads start before the      *)
(* window exists, and what a draw does.  A second port of histo, org, low    *)
(* and 3d is never started: they parse no such option.                      *)
main_parse == [ports |-> {1}, early |-> TRUE]
main_dual  == [ports |-> {1, 2}, early |-> TRUE]
main_phase == [ports |-> {1, 2}, early |-> FALSE]
main_histo == [ports |-> {1}, early |-> FALSE]
main_org   == [ports |-> {1}, early |-> FALSE]
main_low   == [ports |-> {1}, early |-> FALSE]
main_3d    == [ports |-> {1}, early |-> FALSE]

main == CASE tool = "parse" -> main_parse [] tool = "dual" -> main_dual
          [] tool = "phase" -> main_phase [] tool = "histo" -> main_histo
          [] tool = "org" -> main_org [] tool = "low" -> main_low
          [] tool = "3d" -> main_3d

EmptyRow == [lltf |-> 0, ht |-> 0]

ViewerInit ==
  /\ tool \in Tools
  /\ gui = "starting" /\ stopser = FALSE /\ stopme = FALSE
  /\ reader = [p \in Ports |-> IF p \in main.ports /\ main.early THEN "open" ELSE "none"]
  /\ count = [p \in Ports |-> 0] /\ long = [p \in Ports |-> FALSE]
  /\ data = [p \in Ports |-> [i \in 1..Rows |-> EmptyRow]]
  /\ data4 = EmptyRow /\ arg3 = 0 /\ diff = [lltf |-> <<0, 0, 0>>, ht |-> <<0, 0, 0>>]
  /\ sums = [i \in 0..(Slots - 1) |-> 0] /\ prog = 0
  /\ picture = [i \in 0..(Lines - 1) |-> 0] /\ imgidx = 0
  /\ longs = [p \in Ports |-> {}]

ShowWindow ==
  /\ gui = "starting"
  /\ gui' = "running"
  /\ reader' = [p \in Ports |-> IF p \in main.ports /\ ~ main.early THEN "open" ELSE reader[p]]
  /\ UNCHANGED <<tool, stopser, stopme, arrayVars, drawVars>>

-----------------------------------------------------------------------------
(* Steps of a thread.  An exception that it does not catch ends the program  *)
(* (PyQt5 aborts), whatever the thread and the window were doing.           *)

Goto(p, from, to) ==
  /\ gui # "gone"
  /\ reader[p] = from
  /\ reader' = [reader EXCEPT ![p] = to]

Open(p) ==
  /\ Goto(p, "open", "read")
  /\ UNCHANGED <<tool, gui, stopser, stopme, arrayVars, drawVars>>

OpenFailsCaught(p) ==
  /\ Goto(p, "open", "ended")
  /\ stopme' = TRUE
  /\ UNCHANGED <<tool, gui, stopser, arrayVars, drawVars>>

Uncaught(p, where) ==
  /\ Goto(p, where, "ended")
  /\ gui' = "gone"
  /\ UNCHANGED <<tool, stopser, stopme, arrayVars, drawVars>>

(* A row that parses.  Others are skipped, which changes nothing.           *)
ReadFrame(p, next) ==
  /\ Goto(p, "read", next)
  /\ count[p] < MaxFrames
  /\ count' = [count EXCEPT ![p] = @ + 1]
  /\ \E isLong \in BOOLEAN :
       /\ long' = [long EXCEPT ![p] = isLong]
       /\ longs' = [longs EXCEPT ![p] = IF isLong THEN @ \cup {count'[p]} ELSE @]
  /\ UNCHANGED <<tool, gui, stopser, stopme, data, phaseVars, sums, prog, drawVars>>

(* array[:-1] = array[1:]: the last row stays, as a copy of its predecessor. *)
Rotate(p) ==
  /\ Goto(p, "rotate", "lltf")
  /\ data' = [data EXCEPT ![p] = [i \in 1..Rows |-> IF i < Rows THEN @[i + 1] ELSE @[i]]]
  /\ UNCHANGED <<tool, gui, stopser, stopme, count, long, phaseVars, sums, prog, longs, drawVars>>

(* The cells of a short frame end before ht.                                 *)
IfLong(p, to) == IF long[p] THEN "ht" ELSE to

FillLltf(p, next) ==
  /\ Goto(p, "lltf", next)
  /\ data' = [data EXCEPT ![p][Rows].lltf = count[p]]
  /\ UNCHANGED <<tool, gui, stopser, stopme, count, long, phaseVars, sums, prog, longs, drawVars>>

FillHt(p, next) ==
  /\ Goto(p, "ht", next)
  /\ data' = [data EXCEPT ![p][Rows].ht = count[p]]
  /\ UNCHANGED <<tool, gui, stopser, stopme, count, long, phaseVars, sums, prog, longs, drawVars>>

(* phase: thread 2 writes a cell of array3, and then that of array4.         *)
FillFourth(from, field, next) ==
  /\ Goto(2, from, next)
  /\ data4' = [data4 EXCEPT ![field] = count[2]]
  /\ UNCHANGED <<tool, gui, stopser, stopme, count, long, data, arg3, diff, sums, prog, longs,
                 drawVars>>

(* phase: thread 1 loads array3 and then array4 for the angle of port 2,     *)
(* which it subtracts from that of its own arrays.                          *)
LoadThird(from, field, next) ==
  /\ Goto(1, from, next)
  /\ arg3' = data[2][Rows][field]
  /\ UNCHANGED <<tool, gui, stopser, stopme, count, long, data, data4, diff, sums, prog, longs,
                 drawVars>>

Subtract(from, field, next) ==
  /\ Goto(1, from, next)
  /\ diff' = [diff EXCEPT ![field] = <<data[1][Rows][field], arg3, data4[field]>>]
  /\ UNCHANGED <<tool, gui, stopser, stopme, count, long, data, data4, arg3, sums, prog, longs,
                 drawVars>>

(* Mutation: a full array is shifted only after its last slot is written.    *)
StoreSumAndShift(p) ==
  /\ Goto(p, "sum", "read")
  /\ LET stored == [sums EXCEPT ![IF prog >= Slots - 1 THEN prog ELSE prog + 1] = count[p]]
     IN  IF prog >= Slots - 1
         THEN /\ sums' = [i \in 0..(Slots - 1) |-> IF i < Slots - 1 THEN stored[i + 1] ELSE stored[i]]
              /\ UNCHANGED prog
         ELSE sums' = stored /\ prog' = prog + 1
  /\ UNCHANGED <<tool, gui, stopser, stopme, count, long, data, phaseVars, longs, drawVars>>

(* The sum of the frame goes to the next slot of outdata4, which shifts when *)
(* the last slot is reached.                                                *)
StoreSum(p) ==
  /\ Goto(p, "sum", "read")
  /\ LET shifted == [i \in 0..(Slots - 1) |-> IF i < Slots - 1 THEN sums[i + 1] ELSE sums[i]]
     IN  IF prog >= Slots - 1
         THEN sums' = [shifted EXCEPT ![prog] = count[p]] /\ UNCHANGED prog
         ELSE sums' = [sums EXCEPT ![prog + 1] = count[p]] /\ prog' = prog + 1
  /\ UNCHANGED <<tool, gui, stopser, stopme, count, long, data, phaseVars, longs, drawVars>>

-----------------------------------------------------------------------------
(* The threads' functions, one for each file: where a failed open leads,     *)
(* whether a stopped window makes the thread skip frames, and what it does   *)
(* with a frame.                                                            *)
csi_data_read_parse(p) ==
  /\ tool = "parse"
  /\ \/ Open(p) \/ Uncaught(p, "open")
     \/ ReadFrame(p, "rotate") \/ Uncaught(p, "read")
     \/ Rotate(p) \/ FillLltf(p, IfLong(p, "read")) \/ FillHt(p, "read")

(* dual takes its columns of a short frame, too, for columns that the frame  *)
(* has: an index out of range, in mid-row.                                  *)
csi_data_read_dual(p) ==
  \/ Open(p) \/ OpenFailsCaught(p)
  \/ ReadFrame(p, "rotate") \/ Uncaught(p, "read")
  \/ Rotate(p) \/ FillLltf(p, IfLong(p, "raise")) \/ FillHt(p, "read")
  \/ Uncaught(p, "raise")

csi_data_read_parse_dual  == tool = "dual" /\ csi_data_read_dual(1)
csi_data_read_parse2_dual == tool = "dual" /\ csi_data_read_dual(2)

(* Mutation: array4 is loaded before array3.                                *)
LoadFourth(from, field, next) ==
  /\ Goto(1, from, next)
  /\ arg3' = data4[field]
  /\ UNCHANGED <<tool, gui, stopser, stopme, count, long, data, data4, diff, sums, prog, longs,
                 drawVars>>

SubtractThird(from, field, next) ==
  /\ Goto(1, from, next)
  /\ diff' = [diff EXCEPT ![field] = <<data[1][Rows][field], data[2][Rows][field], arg3>>]
  /\ UNCHANGED <<tool, gui, stopser, stopme, count, long, data, data4, arg3, sums, prog, longs,
                 drawVars>>

subtract_phaseSwapped ==
  \/ LoadFourth("load", "lltf", "subtract")
  \/ SubtractThird("subtract", "lltf", IF long[1] THEN "load_ht" ELSE "read")
  \/ LoadFourth("load_ht", "ht", "subtract_ht")
  \/ SubtractThird("subtract_ht", "ht", "read")

subtract_phase ==
  \/ LoadThird("load", "lltf", "subtract")
  \/ Subtract("subtract", "lltf", IF long[1] THEN "load_ht" ELSE "read")
  \/ LoadThird("load_ht", "ht", "subtract_ht")
  \/ Subtract("subtract_ht", "ht", "read")

fill_phase == \/ FillLltf(1, IfLong(1, "load")) \/ FillHt(1, "load")
              \/ subtract_phase

fill2_phase == \/ FillLltf(2, "lltf4") \/ FillFourth("lltf4", "lltf", IfLong(2, "read"))
               \/ FillHt(2, "ht4") \/ FillFourth("ht4", "ht", "read")

csi_data_read_parse_phase ==
  /\ tool = "phase"
  /\ \/ Open(1) \/ OpenFailsCaught(1) \/ ReadFrame(1, "lltf") \/ Uncaught(1, "read")
     \/ fill_phase

csi_data_read_parse2_phase ==
  /\ tool = "phase"
  /\ \/ Open(2) \/ OpenFailsCaught(2) \/ ReadFrame(2, "lltf") \/ Uncaught(2, "read")
     \/ fill2_phase

(* The other four have one port and a stop button.  Exceptions in fill are   *)
(* caught.                                                                  *)
Reads(first) ==
  \/ Open(1) \/ OpenFailsCaught(1) \/ Uncaught(1, "read")
  \/ ~ stopser /\ ReadFrame(1, first)

FillColumn == FillLltf(1, IfLong(1, "sum")) \/ FillHt(1, "sum") \/ StoreSum(1)

(* The column is overwritten in place with values, ...                      *)
fill_histo == FillColumn
csi_data_read_parse_histo == tool = "histo" /\ (Reads("lltf") \/ fill_histo)

(* ... with magnitudes and angles, ...                                      *)
fill_org == FillColumn
csi_data_read_parse_org == tool = "org" /\ (Reads("lltf") \/ fill_org)

(* ... through a low-pass filter (a cell's number is its newest frame), ...  *)
fill_low == FillColumn
csi_data_read_parse_low == tool = "low" /\ (Reads("lltf") \/ fill_low)

(* ... or the rows rotate, and the last is averaged with its predecessor.    *)
fill_3d == Rotate(1) \/ FillColumn
csi_data_read_parse_3d == tool = "3d" /\ (Reads("rotate") \/ fill_3d)

ThreadNext ==
  \/ csi_data_read_parse(1)
  \/ csi_data_read_parse_dual \/ csi_data_read_parse2_dual
  \/ csi_data_read_parse_phase \/ csi_data_read_parse2_phase
  \/ csi_data_read_parse_histo \/ csi_data_read_parse_org
  \/ csi_data_read_parse_low \/ csi_data_read_parse_3d

-----------------------------------------------------------------------------
(* The window's timer.  parse does nothing else than draw the arrays.       *)

(* The last act of update_data: sys.exit() once a port could not be opened.  *)
ExitIfAsked == gui = "running" /\ gui' = IF stopme THEN "gone" ELSE gui

update_data_dual ==
  /\ tool = "dual" /\ ExitIfAsked
  /\ UNCHANGED <<tool, stopser, stopme, reader, arrayVars, drawVars>>

update_data_phase ==
  /\ tool = "phase" /\ ExitIfAsked
  /\ UNCHANGED <<tool, stopser, stopme, reader, arrayVars, drawVars>>

(* The frame as it is in the array becomes the next line of the waterfall;   *)
(* after the last line it starts over with a black one.                     *)
PasteLine ==
  /\ imgidx' = (imgidx + 1) % Lines
  /\ picture' = IF imgidx' = 0 THEN [i \in 0..(Lines - 1) |-> 0]
                ELSE [picture EXCEPT ![imgidx] = data[1][Rows].lltf]

(* Mutation: a draw does not look at stopme.                                *)
DrawOnly ==
  /\ ~ stopser
  /\ PasteLine
  /\ gui = "running" /\ UNCHANGED gui
  /\ UNCHANGED <<tool, stopser, stopme, reader, arrayVars>>

(* A stopped window returns at once, before it looks at stopme.             *)
Draw ==
  /\ ~ stopser
  /\ PasteLine
  /\ ExitIfAsked
  /\ UNCHANGED <<tool, stopser, stopme, reader, arrayVars>>

update_data_histo == tool = "histo" /\ Draw
update_data_org   == tool = "org" /\ Draw
update_data_low   == tool = "low" /\ Draw
update_data_3d    == tool = "3d" /\ Draw

update_data ==
  \/ update_data_dual \/ update_data_phase
  \/ update_data_histo \/ update_data_org \/ update_data_low \/ update_data_3d

(* The start, stop and exit buttons.                                        *)
PressStartStop ==
  /\ gui = "running" /\ tool \in {"histo", "org", "low", "3d"}
  /\ stopser' = ~ stopser
  /\ UNCHANGED <<tool, gui, stopme, reader, arrayVars, drawVars>>

PressExit ==
  /\ gui = "running" /\ gui' = "gone"
  /\ UNCHANGED <<tool, stopser, stopme, reader, arrayVars, drawVars>>

ViewerNext == ThreadNext \/ ShowWindow \/ update_data \/ PressStartStop \/ PressExit

(* The timer goes on and the main program gets to its event loop.           *)
ViewerFairness == WF_viewerVars(update_data) /\ WF_viewerVars(ShowWindow)

ViewerSpec == ViewerInit /\ [][ViewerNext]_viewerVars /\ ViewerFairness

-----------------------------------------------------------------------------
Rotates == tool \in {"parse", "dual", "3d"}

LatestOf(frames) == IF frames = {} THEN 0 ELSE CHOOSE n \in frames : \A m \in frames : m <= n

(* A thread between two frames has left each row with the cells of its own   *)
(* frame, one frame apart, and those that only long frames fill with the     *)
(* latest long frame by then: in every viewer but dual, where a short frame  *)
(* ends the program, a row may show two frames, but never a later one.       *)
(* A phase difference is of port 1's latest cell and of two numbers of port  *)
(* 2's that thread 2 writes meanwhile: none is of a later frame than its     *)
(* array has, and the second is at most one frame older than the first,      *)
(* although thread 2 may fill any number of frames between the two loads.    *)
RowsFromFrames ==
  /\ \A p \in main.ports : reader[p] = "read" =>
       \A k \in 0..(IF Rotates THEN Rows - 1 ELSE 0) :
         LET row == data[p][Rows - k]
             frame == IF count[p] > k THEN count[p] - k ELSE 0
         IN  row.lltf = frame /\ row.ht = LatestOf({n \in longs[p] : n <= frame})
  /\ tool = "phase" /\ reader[2] = "read" => data4 = data[2][Rows]
  /\ tool = "phase" /\ reader[1] = "read" =>
       \A field \in {"lltf", "ht"} :
         /\ diff[field][1] = data[1][Rows][field]
         /\ diff[field][2] <= data[2][Rows][field]
         /\ diff[field][3] <= data4[field]
  /\ tool = "phase" /\ reader[1] = "read" =>
       /\ diff.lltf[2] <= diff.lltf[3] + 1
       /\ LatestOf({n \in longs[2] : n < diff.ht[2]}) <= diff.ht[3]

(* The sums up to the last written slot are those of consecutive frames,     *)
(* also after the array has begun to shift; the lines of the waterfall above *)
(* the next are of frames in order, and those below are black, also after    *)
(* it has started over.                                                     *)
HistoryInOrder ==
  /\ (tool \in {"histo", "org", "low", "3d"} /\ reader[1] = "read") =>
       \A i \in 0..(Slots - 1) : sums[i] = IF i <= prog THEN count[1] - (prog - i) ELSE 0
  /\ \A i, j \in 0..(Lines - 1) : i < j /\ j < imgidx => picture[i] <= picture[j]
  /\ \A i \in imgidx..(Lines - 1) : picture[i] = 0

(* A viewer whose port could not be opened does not stay on the screen,      *)
(* unless the user stopped it, which hides the failure.                     *)
ExitNoticed == stopme ~> (gui = "gone" \/ stopser)
=============================================================================
