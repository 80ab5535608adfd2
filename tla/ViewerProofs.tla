---------------------------- MODULE ViewerProofs ----------------------------
(***************************************************************************)
(* Proofs about the get-started viewers: their arrays (Viewer), their        *)
(* training (TrainRecog) and their log (LogWindow).  They hold for any sizes *)
(* of the arrays, and any numbers of frames, of texts and of the user's acts. *)
(***************************************************************************)
EXTENDS Viewer, TrainRecog, LogWindow, Integers, FiniteSetTheorems, SequenceTheorems,
        WellFoundedInduction, TLAPS

-----------------------------------------------------------------------------
(* Viewer.                                                                  *)

At3 == {"rotate", "lltf", "lltf4", "ht"}   \* of a frame that is not in its row yet
Stages == At3 \cup {"none", "open", "read", "raise", "ht4", "load", "subtract", "load_ht",
                   "subtract_ht", "sum", "ended"}
SumTools == {"histo", "org", "low", "3d"}

RowType == [lltf : Nat, ht : Nat]
Triple  == Nat \X Nat \X Nat

ViewerTypeOK ==
  /\ tool \in Tools /\ gui \in {"starting", "running", "gone"}
  /\ reader \in [Ports -> Stages]
  /\ count \in [Ports -> Nat] /\ long \in [Ports -> BOOLEAN]
  /\ data \in [Ports -> [1..Rows -> RowType]]
  /\ data4 \in RowType /\ arg3 \in Nat /\ diff \in [lltf : Triple, ht : Triple]
  /\ sums \in [0..(Slots - 1) -> Nat] /\ prog \in 0..(Slots - 1)
  /\ picture \in [0..(Lines - 1) -> Nat] /\ imgidx \in 0..(Lines - 1)
  /\ longs \in [Ports -> SUBSET Nat]

(* The latest long frame of port p up to frame f.                           *)
Newest(p, f) == LatestOf({n \in longs[p] : n <= f})

RowIs(row, frame, frameHt) == row.lltf = frame /\ row.ht = frameHt

Frame(p, k) == IF count[p] > k THEN count[p] - k ELSE 0

Depth == IF Rotates THEN Rows - 1 ELSE 0

(* The rows, as far as the thread is with its frame.                        *)
RowsHold(p) ==
  /\ longs[p] \subseteq 1..count[p]
  /\ reader[p] \notin At3 =>
       \A k \in 0..Depth : RowIs(data[p][Rows - k], Frame(p, k), Newest(p, Frame(p, k)))
  /\ reader[p] = "rotate" =>
       \A k \in 0..Depth : RowIs(data[p][Rows - k], Frame(p, k + 1), Newest(p, Frame(p, k + 1)))
  /\ reader[p] \in {"lltf", "lltf4", "ht"} =>
       \A k \in 1..Depth : RowIs(data[p][Rows - k], Frame(p, k), Newest(p, Frame(p, k)))
  /\ reader[p] = "lltf" => RowIs(data[p][Rows], count[p] - 1, Newest(p, count[p] - 1))
  /\ reader[p] \in {"lltf4", "ht"} => RowIs(data[p][Rows], count[p], Newest(p, count[p] - 1))
  /\ reader[p] = "ht"   => long[p]
  /\ reader[p] \in At3  => count[p] > 0 /\ (long[p] <=> count[p] \in longs[p])

(* What is drawn or subtracted is never of a later frame than the array's.   *)
NotLater ==
  /\ \A p \in Ports : data[p][Rows].lltf <= count[p] /\ data[p][Rows].ht <= count[p]
  /\ \A l \in 0..(Lines - 1) : picture[l] <= data[1][Rows].lltf

(* The latest long frame of port 2 before frame f.                          *)
PrevHt(f) == LatestOf({n \in longs[2] : n < f})

(* phase: array4 is a frame behind array3 while thread 2 is between the two.  *)
FourthHolds ==
  tool = "phase" =>
    /\ reader[2] = "lltf4" => data[2][Rows].lltf = data4.lltf + 1
    /\ reader[2] # "lltf4" => data[2][Rows].lltf = data4.lltf
    /\ reader[2] = "ht4" => data[2][Rows].ht = count[2]
    /\ reader[2] # "ht4" => data[2][Rows].ht = data4.ht
    /\ data4.ht <= data[2][Rows].ht /\ PrevHt(data[2][Rows].ht) \in 0..data4.ht

DiffHolds ==
  tool = "phase" =>
    /\ diff.lltf[2] <= data[2][Rows].lltf /\ diff.ht[2] <= data[2][Rows].ht
    /\ diff.lltf[3] <= data4.lltf /\ diff.ht[3] <= data4.ht
    /\ diff.lltf[2] <= diff.lltf[3] + 1 /\ PrevHt(diff.ht[2]) \in 0..diff.ht[3]
    /\ reader[1] = "subtract" => arg3 <= data[2][Rows].lltf
    /\ reader[1] = "subtract_ht" => arg3 <= data[2][Rows].ht /\ PrevHt(arg3) \in 0..data4.ht
    /\ reader[1] \notin {"ht", "load", "subtract"} => diff.lltf[1] = data[1][Rows].lltf
    /\ ~ (reader[1] \in {"load", "subtract", "load_ht", "subtract_ht"} /\ long[1]) =>
         diff.ht[1] = data[1][Rows].ht

SumsHold ==
  tool \in SumTools =>
    LET summed == IF reader[1] \in At3 \cup {"sum"} THEN count[1] - 1 ELSE count[1]
    IN  \A s \in 0..(Slots - 1) : sums[s] = IF s <= prog THEN summed - (prog - s) ELSE 0

PictureHolds ==
  /\ \A k, l \in 0..(Lines - 1) : k < l /\ l < imgidx => picture[k] <= picture[l]
  /\ \A l \in imgidx..(Lines - 1) : picture[l] = 0

ViewerIInv ==
  /\ ViewerTypeOK /\ NotLater /\ FourthHolds /\ DiffHolds /\ SumsHold /\ PictureHolds
  /\ \A p \in Ports : RowsHold(p)

(* What a thread's step is, whichever viewer's it is.                       *)
AfterHt(p) ==
  IF tool \in {"parse", "dual"} THEN "read"
  ELSE IF tool = "phase" THEN (IF p = 1 THEN "load" ELSE "ht4") ELSE "sum"

AfterLltf(p) ==
  IF tool = "phase" /\ p = 2 THEN "lltf4"
  ELSE IfLong(p, IF tool = "dual" THEN "raise" ELSE AfterHt(p))

Fails(p) == \/ Open(p) \/ OpenFailsCaught(p)
            \/ Uncaught(p, "open") \/ Uncaught(p, "read") \/ Uncaught(p, "raise")

Fourths == FillFourth("lltf4", "lltf", IfLong(2, "read")) \/ FillFourth("ht4", "ht", "read")

ThreadStep(p) ==
  \/ Fails(p)
  \/ ReadFrame(p, IF Rotates THEN "rotate" ELSE "lltf")
  \/ Rotates /\ Rotate(p)
  \/ FillLltf(p, AfterLltf(p))
  \/ FillHt(p, AfterHt(p))

LEMMA ThreadSteps ==
  ASSUME ThreadNext
  PROVE  \/ \E p \in Ports : ThreadStep(p)
         \/ tool = "phase" /\ (subtract_phase \/ Fourths)
         \/ tool \in SumTools /\ StoreSum(1)
<1> USE DEF ThreadStep, Fails, Ports
<1>1. CASE csi_data_read_parse(1)
  <2>1. tool = "parse" /\ Rotates /\ AfterLltf(1) = IfLong(1, "read") /\ AfterHt(1) = "read"
    BY <1>1 DEF csi_data_read_parse, Rotates, AfterLltf, AfterHt
  <2>2. ThreadStep(1)
    BY <1>1, <2>1 DEF csi_data_read_parse
  <2>3. QED
    BY <2>2
<1>2. CASE csi_data_read_parse_dual \/ csi_data_read_parse2_dual
  <2>1. /\ tool = "dual" /\ Rotates
        /\ \A p \in {1, 2} : AfterLltf(p) = IfLong(p, "raise") /\ AfterHt(p) = "read"
    BY <1>2 DEF csi_data_read_parse_dual, csi_data_read_parse2_dual, Rotates, AfterLltf, AfterHt
  <2>2. ThreadStep(1) \/ ThreadStep(2)
    BY <1>2, <2>1 DEF csi_data_read_parse_dual, csi_data_read_parse2_dual, csi_data_read_dual
  <2>3. QED
    BY <2>2
<1>3. CASE csi_data_read_parse_phase
  <2>1. tool = "phase" /\ ~ Rotates /\ AfterLltf(1) = IfLong(1, "load") /\ AfterHt(1) = "load"
    BY <1>3 DEF csi_data_read_parse_phase, Rotates, AfterLltf, AfterHt
  <2>2. ThreadStep(1) \/ subtract_phase
    BY <1>3, <2>1 DEF csi_data_read_parse_phase, fill_phase
  <2>3. QED
    BY <2>1, <2>2
<1>4. CASE csi_data_read_parse2_phase
  <2>1. tool = "phase" /\ ~ Rotates /\ AfterLltf(2) = "lltf4" /\ AfterHt(2) = "ht4"
    BY <1>4 DEF csi_data_read_parse2_phase, Rotates, AfterLltf, AfterHt
  <2>2. ThreadStep(2) \/ Fourths
    BY <1>4, <2>1 DEF csi_data_read_parse2_phase, fill2_phase, Fourths
  <2>3. QED
    BY <2>1, <2>2
<1>5. CASE csi_data_read_parse_histo \/ csi_data_read_parse_org \/ csi_data_read_parse_low
  <2>1. /\ tool \in SumTools /\ ~ Rotates
        /\ AfterLltf(1) = IfLong(1, "sum") /\ AfterHt(1) = "sum"
    BY <1>5 DEF csi_data_read_parse_histo, csi_data_read_parse_org, csi_data_read_parse_low, Rotates,
                AfterLltf, AfterHt, SumTools
  <2>2. ThreadStep(1) \/ StoreSum(1)
    BY <1>5, <2>1 DEF csi_data_read_parse_histo, csi_data_read_parse_org, csi_data_read_parse_low,
                      fill_histo, fill_org, fill_low, FillColumn, Reads
  <2>3. QED
    BY <2>1, <2>2
<1>6. CASE csi_data_read_parse_3d
  <2>1. /\ tool \in SumTools /\ Rotates
        /\ AfterLltf(1) = IfLong(1, "sum") /\ AfterHt(1) = "sum"
    BY <1>6 DEF csi_data_read_parse_3d, Rotates, AfterLltf, AfterHt, SumTools
  <2>2. ThreadStep(1) \/ StoreSum(1)
    BY <1>6, <2>1 DEF csi_data_read_parse_3d, fill_3d, FillColumn, Reads
  <2>3. QED
    BY <2>1, <2>2
<1>7. QED
  BY <1>1, <1>2, <1>3, <1>4, <1>5, <1>6 DEF ThreadNext

(* The latest of some frames.                                               *)
LEMMA LatestIs ==
  ASSUME NEW S \in SUBSET Nat, NEW n \in S, \A m \in S : m <= n
  PROVE  LatestOf(S) = n
<1> DEFINE L == CHOOSE l \in S : \A m \in S : m <= l
<1>1. L \in S /\ \A m \in S : m <= L
  OBVIOUS
<1> HIDE DEF L
<1>2. L = n
  BY <1>1
<1>3. QED
  BY <1>2 DEF LatestOf, L

LEMMA Places ==
  ASSUME ViewerTypeOK, NEW p \in Ports, NEW from, NEW to, Goto(p, from, to)
  PROVE  /\ reader[p] = from /\ reader'[p] = to
         /\ \A q \in Ports : q # p => reader'[q] = reader[q]
  BY DEF Goto, ViewerTypeOK

(* There is a last row.                                                     *)
LEMMA LastRow ==
  ASSUME ViewerTypeOK
  PROVE  \A p \in Ports : /\ data[p] \in [1..Rows -> RowType] /\ data[p][Rows] \in RowType
                          /\ data[p][Rows].lltf \in Nat /\ data[p][Rows].ht \in Nat
<1> SUFFICES ASSUME NEW p \in Ports
             PROVE  /\ data[p] \in [1..Rows -> RowType] /\ data[p][Rows] \in RowType
                    /\ data[p][Rows].lltf \in Nat /\ data[p][Rows].ht \in Nat
  OBVIOUS
<1>1. data \in [Ports -> [1..Rows -> RowType]] /\ Rows \in 1..Rows
  BY ViewerAssumption DEF ViewerTypeOK, ViewerAssumption
<1>2. data[p] \in [1..Rows -> RowType]
  BY <1>1
<1>3. data[p][Rows] \in RowType
  BY <1>1, <1>2
<1>4. QED
  BY <1>2, <1>3 DEF RowType

(* The last row is changed.                                                 *)
LEMMA RowFilled ==
  ASSUME ViewerTypeOK, NEW p \in Ports, NEW row \in RowType,
         data' = [data EXCEPT ![p] = [data[p] EXCEPT ![Rows] = row]]
  PROVE  /\ data' \in [Ports -> [1..Rows -> RowType]]
         /\ \A q \in Ports : q # p => data'[q] = data[q]
         /\ \A r \in 1..Rows : r # Rows => data'[p][r] = data[p][r]
         /\ data'[p][Rows] = row
<1> DEFINE rows == [data[p] EXCEPT ![Rows] = row]
<1>1. data \in [Ports -> [1..Rows -> RowType]] /\ Rows \in 1..Rows
  BY ViewerAssumption DEF ViewerTypeOK, ViewerAssumption
<1>2. data[p] \in [1..Rows -> RowType]
  BY <1>1
<1>3. /\ rows \in [1..Rows -> RowType] /\ rows[Rows] = row
      /\ \A r \in 1..Rows : r # Rows => rows[r] = data[p][r]
  BY <1>1, <1>2
<1>4. data' = [data EXCEPT ![p] = rows]
  OBVIOUS
<1> HIDE DEF rows
<1>5. /\ data' \in [Ports -> [1..Rows -> RowType]] /\ data'[p] = rows
      /\ \A q \in Ports : q # p => data'[q] = data[q]
  BY <1>1, <1>3, <1>4
<1>6. QED
  BY <1>3, <1>5

(* A field of the last row is filled.                                       *)
LEMMA LltfFilled ==
  ASSUME ViewerTypeOK, NEW p \in Ports, NEW n \in Nat,
         data' = [data EXCEPT ![p][Rows].lltf = n]
  PROVE  /\ data' \in [Ports -> [1..Rows -> RowType]]
         /\ \A q \in Ports : q # p => data'[q] = data[q]
         /\ \A r \in 1..Rows : r # Rows => data'[p][r] = data[p][r]
         /\ data'[p][Rows].lltf = n /\ data'[p][Rows].ht = data[p][Rows].ht
<1> DEFINE row == [data[p][Rows] EXCEPT !.lltf = n]
<1>1. data[p][Rows] \in RowType
  BY LastRow
<1>2. row \in RowType /\ row.lltf = n /\ row.ht = data[p][Rows].ht
  BY <1>1 DEF RowType
<1>3. data' = [data EXCEPT ![p] = [data[p] EXCEPT ![Rows] = row]]
  OBVIOUS
<1> HIDE DEF row
<1>4. QED
  BY <1>2, <1>3, RowFilled

LEMMA HtFilled ==
  ASSUME ViewerTypeOK, NEW p \in Ports, NEW n \in Nat,
         data' = [data EXCEPT ![p][Rows].ht = n]
  PROVE  /\ data' \in [Ports -> [1..Rows -> RowType]]
         /\ \A q \in Ports : q # p => data'[q] = data[q]
         /\ \A r \in 1..Rows : r # Rows => data'[p][r] = data[p][r]
         /\ data'[p][Rows].ht = n /\ data'[p][Rows].lltf = data[p][Rows].lltf
<1> DEFINE row == [data[p][Rows] EXCEPT !.ht = n]
<1>1. data[p][Rows] \in RowType
  BY LastRow
<1>2. row \in RowType /\ row.ht = n /\ row.lltf = data[p][Rows].lltf
  BY <1>1 DEF RowType
<1>3. data' = [data EXCEPT ![p] = [data[p] EXCEPT ![Rows] = row]]
  OBVIOUS
<1> HIDE DEF row
<1>4. QED
  BY <1>2, <1>3, RowFilled

-----------------------------------------------------------------------------
(* The latest long frame does not change while no long frame arrives.        *)
LEMMA NewestStays ==
  ASSUME NEW p \in Ports, longs'[p] = longs[p]
  PROVE  \A f : Newest(p, f)' = Newest(p, f)
  BY DEF Newest

LEMMA DepthStays ==
  ASSUME tool' = tool
  PROVE  Depth' = Depth
  BY DEF Depth, Rotates

LEMMA DepthIs ==
  /\ Depth \in Nat /\ Depth < Rows
  /\ Rotates => Depth = Rows - 1
  /\ ~ Rotates => Depth = 0
  BY ViewerAssumption DEF Depth, ViewerAssumption

(* A port whose array and frames stay.                                      *)
LEMMA RowsStay ==
  ASSUME NEW p \in Ports, RowsHold(p),
         tool' = tool, count'[p] = count[p], long'[p] = long[p], data'[p] = data[p],
         longs'[p] = longs[p],
         \/ reader'[p] = reader[p]
         \/ reader[p] \notin At3 /\ reader'[p] \notin At3
  PROVE  RowsHold(p)'
<1>1. Depth' = Depth /\ \A f : Newest(p, f)' = Newest(p, f)
  BY NewestStays, DepthStays
<1>2. \A k : Frame(p, k)' = Frame(p, k)
  BY DEF Frame
<1>3. CASE reader'[p] = reader[p]
  BY <1>1, <1>2, <1>3 DEF RowsHold
<1>4. CASE reader[p] \notin At3 /\ reader'[p] \notin At3
  BY <1>1, <1>2, <1>4 DEF RowsHold, At3
<1>5. QED
  BY <1>3, <1>4

(* The difference is one of what the arrays have had.                       *)
LEMMA DiffTyped ==
  ASSUME ViewerIInv
  PROVE  /\ arg3 \in Nat /\ data4.lltf \in Nat /\ data4.ht \in Nat
         /\ \A i \in {1, 2, 3} : diff.lltf[i] \in Nat /\ diff.ht[i] \in Nat
         /\ data[2][Rows].lltf \in Nat /\ data[2][Rows].ht \in Nat
         /\ count[2] \in Nat /\ data[2][Rows].ht <= count[2]
<1>1. /\ arg3 \in Nat /\ data4 \in RowType /\ diff \in [lltf : Triple, ht : Triple]
      /\ count[2] \in Nat
  BY DEF ViewerIInv, ViewerTypeOK, Ports
<1>2. \A i \in {1, 2, 3} : diff.lltf[i] \in Nat /\ diff.ht[i] \in Nat
  BY <1>1 DEF Triple
<1>3. data[2][Rows].lltf \in Nat /\ data[2][Rows].ht \in Nat
  BY LastRow DEF ViewerIInv, Ports
<1>4. QED
  BY <1>1, <1>2, <1>3 DEF RowType, ViewerIInv, NotLater, Ports

LEMMA DiffKept ==
  ASSUME ViewerIInv, UNCHANGED <<tool, arg3, diff>>,
         reader'[1] = reader[1], long'[1] = long[1], data'[1] = data[1],
         NEW lltf \in Nat, NEW ht \in Nat, NEW lltf4 \in Nat, NEW ht4 \in Nat,
         data'[2][Rows].lltf = lltf, data'[2][Rows].ht = ht,
         data4'.lltf = lltf4, data4'.ht = ht4,
         data[2][Rows].lltf <= lltf, data[2][Rows].ht <= ht,
         data4.lltf <= lltf4, data4.ht <= ht4,
         \A f \in 0..count[2] : PrevHt(f)' = PrevHt(f)
  PROVE  DiffHolds'
<1> SUFFICES ASSUME tool = "phase" PROVE DiffHolds'
  BY DEF DiffHolds
<1>1. /\ arg3 \in Nat /\ data4.lltf \in Nat /\ data4.ht \in Nat
      /\ diff.lltf[2] \in Nat /\ diff.ht[2] \in Nat /\ diff.lltf[3] \in Nat /\ diff.ht[3] \in Nat
      /\ data[2][Rows].lltf \in Nat /\ data[2][Rows].ht \in Nat
      /\ count[2] \in Nat /\ data[2][Rows].ht <= count[2]
  BY DiffTyped
<1>2. /\ diff.lltf[2] <= lltf /\ diff.ht[2] <= ht /\ diff.lltf[3] <= lltf4 /\ diff.ht[3] <= ht4
      /\ diff.lltf[2] <= diff.lltf[3] + 1
      /\ reader[1] = "subtract" => arg3 <= lltf
      /\ reader[1] = "subtract_ht" => arg3 <= ht
  BY <1>1 DEF ViewerIInv, DiffHolds
<1>3. PrevHt(diff.ht[2])' \in 0..diff.ht[3]
  <2>1. diff.ht[2] \in 0..count[2]
    BY <1>1 DEF ViewerIInv, DiffHolds
  <2>2. PrevHt(diff.ht[2])' = PrevHt(diff.ht[2])
    BY <2>1
  <2>3. QED
    BY <2>2 DEF ViewerIInv, DiffHolds
<1>4. reader[1] = "subtract_ht" => PrevHt(arg3)' \in 0..ht4
  <2> SUFFICES ASSUME reader[1] = "subtract_ht" PROVE PrevHt(arg3)' \in 0..ht4
    OBVIOUS
  <2>1. arg3 \in 0..count[2] /\ PrevHt(arg3) \in 0..data4.ht
    BY <1>1 DEF ViewerIInv, DiffHolds
  <2>2. PrevHt(arg3)' = PrevHt(arg3)
    BY <2>1
  <2>3. QED
    BY <1>1, <2>1, <2>2
<1>5. /\ reader[1] \notin {"ht", "load", "subtract"} => diff.lltf[1] = data[1][Rows].lltf
      /\ ~ (reader[1] \in {"load", "subtract", "load_ht", "subtract_ht"} /\ long[1]) =>
           diff.ht[1] = data[1][Rows].ht
  BY DEF ViewerIInv, DiffHolds
<1>6. QED
  BY <1>2, <1>3, <1>4, <1>5 DEF DiffHolds

(* A thread opens its port, or ends.                                        *)
LEMMA FailsKeeps ==
  ASSUME ViewerIInv, NEW p \in Ports, Fails(p)
  PROVE  ViewerIInv'
<1> DEFINE from == reader[p]
           to == reader'[p]
<1>1. /\ from \in {"open", "read", "raise"} /\ to \in {"read", "ended"}
      /\ reader' \in [Ports -> Stages]
      /\ \A q \in Ports : q # p => reader'[q] = reader[q]
  BY DEF ViewerIInv, ViewerTypeOK, Fails, Open, OpenFailsCaught, Uncaught, Goto, Stages
<1>2. gui' \in {"starting", "running", "gone"}
  BY DEF ViewerIInv, ViewerTypeOK, Fails, Open, OpenFailsCaught, Uncaught
<1>3. UNCHANGED <<tool, arrayVars, drawVars>>
  BY DEF Fails, Open, OpenFailsCaught, Uncaught
<1>4. UNCHANGED <<tool, count, long, data, data4, arg3, diff, sums, prog, longs, picture, imgidx>>
  BY <1>3 DEF arrayVars, phaseVars, drawVars
<1>5. ViewerTypeOK'
  BY <1>1, <1>2, <1>4 DEF ViewerIInv, ViewerTypeOK
<1>6. NotLater' /\ PictureHolds'
  BY <1>4 DEF ViewerIInv, NotLater, PictureHolds
<1>7. FourthHolds' /\ DiffHolds'
  <2>1. FourthHolds'
    BY <1>1, <1>4 DEF ViewerIInv, FourthHolds, PrevHt, Ports
  <2>2. DiffHolds'
    BY <1>1, <1>4 DEF ViewerIInv, DiffHolds, PrevHt, Ports
  <2>3. QED
    BY <2>1, <2>2
<1>8. SumsHold'
  BY <1>1, <1>4 DEF ViewerIInv, SumsHold, At3, Ports
<1>9. ASSUME NEW q \in Ports PROVE RowsHold(q)'
  BY <1>1, <1>4, RowsStay DEF ViewerIInv, At3
<1>10. QED
  BY <1>5, <1>6, <1>7, <1>8, <1>9 DEF ViewerIInv

(* A frame arrives.                                                         *)
LEMMA ReadFrameKeeps ==
  ASSUME ViewerIInv, NEW p \in Ports, ReadFrame(p, IF Rotates THEN "rotate" ELSE "lltf")
  PROVE  ViewerIInv'
<1>0. PICK c \in Nat : c = count[p]
  BY DEF ViewerIInv, ViewerTypeOK
<1>1. /\ reader[p] = "read" /\ reader'[p] = IF Rotates THEN "rotate" ELSE "lltf"
      /\ \A q \in Ports : q # p => reader'[q] = reader[q]
      /\ reader' \in [Ports -> Stages]
  BY DEF ViewerIInv, ViewerTypeOK, ReadFrame, Goto, At3, Stages
<1>2. /\ count' \in [Ports -> Nat] /\ count'[p] = c + 1
      /\ \A q \in Ports : q # p => count'[q] = count[q]
  BY <1>0 DEF ViewerIInv, ViewerTypeOK, ReadFrame
<1>3. UNCHANGED <<tool, gui, data, data4, arg3, diff, sums, prog, picture, imgidx>>
  BY DEF ReadFrame, phaseVars, drawVars
<1>4. PICK isLong \in BOOLEAN :
        /\ long' = [long EXCEPT ![p] = isLong]
        /\ longs' = [longs EXCEPT ![p] = IF isLong THEN longs[p] \cup {count'[p]} ELSE longs[p]]
  BY DEF ReadFrame
<1>5. /\ long' \in [Ports -> BOOLEAN] /\ long'[p] = isLong
      /\ \A q \in Ports : q # p => long'[q] = long[q]
  BY <1>4 DEF ViewerIInv, ViewerTypeOK
<1>6. /\ longs' \in [Ports -> SUBSET Nat]
      /\ longs'[p] = IF isLong THEN longs[p] \cup {c + 1} ELSE longs[p]
      /\ \A q \in Ports : q # p => longs'[q] = longs[q]
  BY <1>2, <1>4 DEF ViewerIInv, ViewerTypeOK
<1>7. longs[p] \subseteq 1..c
  BY <1>0 DEF ViewerIInv, RowsHold
<1>8. \A f \in 0..c : Newest(p, f)' = Newest(p, f)
  <2> SUFFICES ASSUME NEW f \in 0..c PROVE Newest(p, f)' = Newest(p, f)
    OBVIOUS
  <2>1. {n \in longs'[p] : n <= f} = {n \in longs[p] : n <= f}
    BY <1>2, <1>6, <1>7
  <2>2. QED
    BY <2>1 DEF Newest
<1>9. RowsHold(p)'
  <2>1. Depth' = Depth
    BY <1>3, DepthStays
  <2>2. /\ \A k \in Nat : Frame(p, k)' = (IF c + 1 > k THEN (c + 1) - k ELSE 0) /\ Frame(p, k) \in 0..c
        /\ \A k \in Nat : Frame(p, k + 1)' = Frame(p, k)
        /\ Frame(p, 0) = c
    BY <1>0, <1>2 DEF Frame
  <2>3. \A k \in 0..Depth : RowIs(data[p][Rows - k], Frame(p, k), Newest(p, Frame(p, k)))
    BY <1>1 DEF ViewerIInv, RowsHold, At3
  <2>4. (longs[p] \subseteq 1..count[p])'
    BY <1>2, <1>6, <1>7
  <2>5. (count[p] > 0 /\ (long[p] <=> count[p] \in longs[p]))'
    BY <1>2, <1>5, <1>6, <1>7
  <2>6. CASE Rotates
    <3>1. reader'[p] = "rotate"
      BY <1>1, <2>6
    <3>2. ASSUME NEW k \in 0..Depth
          PROVE  RowIs(data[p][Rows - k], Frame(p, k + 1), Newest(p, Frame(p, k + 1)))'
      <4>1. k \in Nat
        BY DepthIs
      <4>2. PICK f \in 0..c : f = Frame(p, k) /\ f = Frame(p, k + 1)'
        BY <2>2, <4>1
      <4>3. Newest(p, f)' = Newest(p, f)
        BY <1>8
      <4>4. QED
        BY <1>3, <2>3, <4>2, <4>3 DEF RowIs
    <3>3. QED
      BY <2>1, <2>4, <2>5, <3>1, <3>2 DEF RowsHold, At3
  <2>7. CASE ~ Rotates
    <3>1. reader'[p] = "lltf" /\ Depth = 0
      BY <1>1, <2>7, DepthIs
    <3>2. RowIs(data[p][Rows], c, Newest(p, c))
      BY <2>2, <2>3, <3>1, ViewerAssumption DEF ViewerAssumption
    <3>3. RowIs(data[p][Rows], c, Newest(p, c))'
      BY <1>2, <1>3, <1>8, <3>2 DEF RowIs
    <3>4. RowIs(data[p][Rows], count[p] - 1, Newest(p, count[p] - 1))'
      BY <1>2, <3>3
    <3>5. QED
      BY <2>1, <2>4, <2>5, <3>1, <3>4 DEF RowsHold, At3
  <2>8. QED
    BY <2>6, <2>7
<1>10. ASSUME NEW q \in Ports, q # p PROVE RowsHold(q)'
  BY <1>1, <1>2, <1>3, <1>5, <1>6, <1>10, RowsStay DEF ViewerIInv
<1>11. ViewerTypeOK'
  BY <1>1, <1>2, <1>3, <1>5, <1>6 DEF ViewerIInv, ViewerTypeOK
<1>12. NotLater'
  <2>1. \A q \in Ports : data[q][Rows].lltf \in Nat /\ data[q][Rows].ht \in Nat
    BY LastRow DEF ViewerIInv
  <2>2. \A q \in Ports : count[q] \in Nat /\ count'[q] \in Nat
    BY <1>2 DEF ViewerIInv, ViewerTypeOK
  <2>3. \A q \in Ports : count[q] <= count'[q]
    BY <1>0, <1>2, <2>2
  <2>4. QED
    BY <1>3, <2>1, <2>2, <2>3 DEF ViewerIInv, NotLater
<1>13. PictureHolds'
  BY <1>3 DEF ViewerIInv, PictureHolds
<1>14. FourthHolds' /\ DiffHolds'
  <2> SUFFICES ASSUME tool = "phase" PROVE FourthHolds' /\ DiffHolds'
    BY <1>3 DEF FourthHolds, DiffHolds
  <2>1. /\ arg3 \in Nat /\ diff.ht[2] \in Nat
        /\ data[2][Rows].lltf \in Nat /\ data[2][Rows].ht \in Nat
        /\ data4.lltf \in Nat /\ data4.ht \in Nat
        /\ count[2] \in Nat /\ data[2][Rows].ht <= count[2]
    BY DiffTyped
  <2>2. \A f \in 0..count[2] : PrevHt(f)' = PrevHt(f)
    <3> SUFFICES ASSUME NEW f \in 0..count[2] PROVE PrevHt(f)' = PrevHt(f)
      OBVIOUS
    <3>1. {n \in longs'[2] : n < f} = {n \in longs[2] : n < f}
      <4>1. CASE p = 1
        BY <1>6, <4>1 DEF Ports
      <4>2. CASE p = 2
        BY <1>0, <1>6, <1>7, <4>2
      <4>3. QED
        BY <4>1, <4>2 DEF Ports
    <3>2. QED
      BY <3>1 DEF PrevHt
  <2>3. FourthHolds'
    <3>1. PrevHt(data[2][Rows].ht)' = PrevHt(data[2][Rows].ht)
      BY <1>3, <2>1, <2>2
    <3>2. (reader[2] = reader'[2] /\ count'[2] = count[2]) \/ p = 2
      BY <1>1, <1>2 DEF Ports
    <3>3. p = 2 => reader[2] = "read" /\ reader'[2] = "lltf"
      BY <1>1 DEF Rotates
    <3>4. QED
      BY <1>3, <3>1, <3>2, <3>3 DEF ViewerIInv, FourthHolds
  <2>4. CASE p = 2
    <3>1. reader'[1] = reader[1] /\ long'[1] = long[1]
      BY <1>1, <1>5, <2>4 DEF Ports
    <3>2. DiffHolds'
      BY <1>3, <2>1, <2>2, <3>1, DiffKept
    <3>3. QED
      BY <2>3, <3>2
  <2>5. CASE p = 1
    <3>1. reader[1] = "read" /\ reader'[1] = "lltf" /\ longs'[2] = longs[2]
      BY <1>1, <1>6, <2>5 DEF Rotates, Ports
    <3>2. DiffHolds'
      BY <1>3, <3>1 DEF ViewerIInv, DiffHolds, PrevHt
    <3>3. QED
      BY <2>3, <3>2
  <2>6. QED
    BY <2>4, <2>5 DEF Ports
<1>15. SumsHold'
  BY <1>0, <1>1, <1>2, <1>3 DEF ViewerIInv, SumsHold, At3, Ports
<1>16. QED
  BY <1>9, <1>10, <1>11, <1>12, <1>13, <1>14, <1>15 DEF ViewerIInv

(* The rows move up.                                                        *)
LEMMA RotateKeeps ==
  ASSUME ViewerIInv, NEW p \in Ports, Rotates, Rotate(p)
  PROVE  ViewerIInv'
<1>1. /\ reader[p] = "rotate" /\ reader'[p] = "lltf"
      /\ \A q \in Ports : q # p => reader'[q] = reader[q]
      /\ reader' \in [Ports -> Stages]
  BY DEF ViewerIInv, ViewerTypeOK, Rotate, Goto, At3, Stages
<1>2. UNCHANGED <<tool, gui, count, long, data4, arg3, diff, sums, prog, picture, imgidx, longs>>
  BY DEF Rotate, phaseVars, drawVars
<1> DEFINE rows == [i \in 1..Rows |-> IF i < Rows THEN data[p][i + 1] ELSE data[p][i]]
<1>3. data' = [data EXCEPT ![p] = rows]
  BY DEF Rotate
<1>4. /\ rows \in [1..Rows -> RowType] /\ rows[Rows] = data[p][Rows]
      /\ \A k \in 1..(Rows - 1) : rows[Rows - k] = data[p][Rows - (k - 1)]
  <2>1. data[p] \in [1..Rows -> RowType] /\ Rows \in Nat \ {0}
    BY LastRow, ViewerAssumption DEF ViewerIInv, ViewerAssumption
  <2>2. \A i \in 1..Rows : i < Rows => i + 1 \in 1..Rows
    BY <2>1
  <2>3. rows \in [1..Rows -> RowType] /\ rows[Rows] = data[p][Rows]
    BY <2>1, <2>2
  <2>4. ASSUME NEW k \in 1..(Rows - 1) PROVE rows[Rows - k] = data[p][Rows - (k - 1)]
    <3>1. Rows - k \in 1..Rows /\ Rows - k < Rows /\ (Rows - k) + 1 = Rows - (k - 1)
      BY <2>1
    <3>2. QED
      BY <3>1
  <2>5. QED
    BY <2>3, <2>4
<1> HIDE DEF rows
<1>5. /\ data' \in [Ports -> [1..Rows -> RowType]] /\ data'[p] = rows
      /\ \A q \in Ports : q # p => data'[q] = data[q]
  BY <1>3, <1>4 DEF ViewerIInv, ViewerTypeOK
<1>6. RowsHold(p)'
  <2>1. Depth' = Depth /\ Depth = Rows - 1 /\ Depth \in Nat
    BY <1>2, DepthStays, DepthIs
  <2>2. \A f : Newest(p, f)' = Newest(p, f)
    BY <1>2, NewestStays
  <2>3. \A k : Frame(p, k)' = Frame(p, k)
    BY <1>2 DEF Frame
  <2>4. \A k \in 0..Depth : RowIs(data[p][Rows - k], Frame(p, k + 1), Newest(p, Frame(p, k + 1)))
    BY <1>1 DEF ViewerIInv, RowsHold, At3
  <2>5. ASSUME NEW k \in 1..Depth
        PROVE  RowIs(data[p][Rows - k], Frame(p, k), Newest(p, Frame(p, k)))'
    <3>1. k - 1 \in 0..Depth /\ (k - 1) + 1 = k
      BY <2>1
    <3>2. data'[p][Rows - k] = data[p][Rows - (k - 1)]
      BY <1>4, <1>5, <2>1
    <3>3. RowIs(data[p][Rows - (k - 1)], Frame(p, k), Newest(p, Frame(p, k)))
      BY <2>4, <3>1
    <3>4. QED
      BY <2>2, <2>3, <3>2, <3>3 DEF RowIs
  <2>6. RowIs(data[p][Rows], count[p] - 1, Newest(p, count[p] - 1))'
    <3>1. count[p] \in Nat /\ count[p] > 0
      BY <1>1 DEF ViewerIInv, ViewerTypeOK, RowsHold, At3
    <3>2. Frame(p, 0 + 1) = count[p] - 1
      BY <3>1 DEF Frame
    <3>3. RowIs(data[p][Rows - 0], Frame(p, 0 + 1), Newest(p, Frame(p, 0 + 1)))
      BY <2>1, <2>4
    <3>4. RowIs(data[p][Rows], count[p] - 1, Newest(p, count[p] - 1))
      BY <3>2, <3>3, ViewerAssumption DEF ViewerAssumption
    <3>5. data'[p][Rows] = data[p][Rows]
      BY <1>4, <1>5
    <3>6. QED
      BY <1>2, <2>2, <3>4, <3>5 DEF RowIs
  <2>7. /\ longs[p] \subseteq 1..count[p]
        /\ count[p] > 0 /\ (long[p] <=> count[p] \in longs[p])
    BY <1>1 DEF ViewerIInv, RowsHold, At3
  <2>8. /\ (longs[p] \subseteq 1..count[p])'
        /\ (count[p] > 0 /\ (long[p] <=> count[p] \in longs[p]))'
    BY <1>2, <2>7
  <2>9. QED
    BY <1>1, <2>1, <2>5, <2>6, <2>8 DEF RowsHold, At3
<1>7. ASSUME NEW q \in Ports, q # p PROVE RowsHold(q)'
  BY <1>1, <1>2, <1>5, <1>7, RowsStay DEF ViewerIInv
<1>8. ViewerTypeOK'
  BY <1>1, <1>2, <1>5 DEF ViewerIInv, ViewerTypeOK
<1>9. \A q \in Ports : data'[q][Rows] = data[q][Rows]
  BY <1>4, <1>5
<1>10. NotLater'
  BY <1>2, <1>9 DEF ViewerIInv, NotLater, Ports
<1>11. PictureHolds'
  BY <1>2 DEF ViewerIInv, PictureHolds
<1>12. FourthHolds' /\ DiffHolds'
  BY <1>2 DEF FourthHolds, DiffHolds, Rotates
<1>13. SumsHold'
  BY <1>1, <1>2 DEF ViewerIInv, SumsHold, At3, Ports
<1>14. QED
  BY <1>6, <1>7, <1>8, <1>10, <1>11, <1>12, <1>13 DEF ViewerIInv

(* The legacy field of the last row is filled.                              *)
LEMMA FillLltfKeeps ==
  ASSUME ViewerIInv, NEW p \in Ports, FillLltf(p, AfterLltf(p))
  PROVE  ViewerIInv'
<1>0. PICK c \in Nat : c = count[p]
  BY DEF ViewerIInv, ViewerTypeOK
<1>1. /\ reader[p] = "lltf" /\ reader'[p] = AfterLltf(p)
      /\ \A q \in Ports : q # p => reader'[q] = reader[q]
      /\ AfterLltf(p) \in {"lltf4", "ht", "read", "raise", "load", "sum"}
      /\ AfterLltf(p) = "ht" => long[p]
      /\ AfterLltf(p) \in {"read", "raise", "load", "sum"} => ~ long[p]
      /\ reader' \in [Ports -> Stages]
  BY DEF ViewerIInv, ViewerTypeOK, FillLltf, Goto, At3, Stages, AfterLltf, AfterHt, IfLong, Ports
<1>2. UNCHANGED <<tool, gui, count, long, data4, arg3, diff, sums, prog, picture, imgidx, longs>>
  BY DEF FillLltf, phaseVars, drawVars
<1>3. data' = [data EXCEPT ![p][Rows].lltf = c]
  BY <1>0 DEF FillLltf
<1>4. /\ data' \in [Ports -> [1..Rows -> RowType]]
      /\ \A q \in Ports : q # p => data'[q] = data[q]
      /\ \A r \in 1..Rows : r # Rows => data'[p][r] = data[p][r]
      /\ data'[p][Rows].lltf = c /\ data'[p][Rows].ht = data[p][Rows].ht
  BY <1>3, LltfFilled DEF ViewerIInv
<1>5. RowsHold(p)'
  <2>1. Depth' = Depth /\ Depth \in Nat /\ Depth < Rows
    BY <1>2, DepthStays, DepthIs
  <2>2. \A f : Newest(p, f)' = Newest(p, f)
    BY <1>2, NewestStays
  <2>3. \A k : Frame(p, k)' = Frame(p, k)
    BY <1>2 DEF Frame
  <2>4. /\ longs[p] \subseteq 1..c /\ c > 0 /\ (long[p] <=> c \in longs[p])
        /\ data[p][Rows].ht = Newest(p, c - 1)
        /\ \A k \in 1..Depth : RowIs(data[p][Rows - k], Frame(p, k), Newest(p, Frame(p, k)))
    BY <1>0, <1>1 DEF ViewerIInv, RowsHold, At3, RowIs
  <2>5. \A k \in 1..Depth : RowIs(data[p][Rows - k], Frame(p, k), Newest(p, Frame(p, k)))'
    <3>1. \A k \in 1..Depth : data'[p][Rows - k] = data[p][Rows - k]
      BY <1>4, <2>1, ViewerAssumption DEF ViewerAssumption
    <3>2. QED
      BY <2>2, <2>3, <2>4, <3>1 DEF RowIs
  <2>6. (longs[p] \subseteq 1..count[p])'
    BY <1>0, <1>2, <2>4
  <2>7. CASE reader'[p] \in {"lltf4", "ht"}
    <3>1. RowIs(data[p][Rows], count[p], Newest(p, count[p] - 1))'
      BY <1>0, <1>2, <1>4, <2>2, <2>4 DEF RowIs
    <3>2. reader'[p] = "ht" => long'[p]
      BY <1>1, <1>2
    <3>3. (count[p] > 0 /\ (long[p] <=> count[p] \in longs[p]))'
      BY <1>0, <1>2, <2>4
    <3>4. QED
      BY <2>1, <2>5, <2>6, <2>7, <3>1, <3>2, <3>3 DEF RowsHold, At3
  <2>8. CASE reader'[p] \notin {"lltf4", "ht"}
    <3>1. reader'[p] \notin At3 /\ ~ long[p]
      BY <1>1, <2>8 DEF At3
    <3>2. {n \in longs[p] : n <= c} = {n \in longs[p] : n <= c - 1}
      BY <2>4, <3>1
    <3>3. Newest(p, c) = Newest(p, c - 1)
      BY <3>2 DEF Newest
    <3>4. RowIs(data[p][Rows], c, Newest(p, c))'
      BY <1>4, <2>2, <2>4, <3>3 DEF RowIs
    <3>5. Frame(p, 0)' = c
      BY <1>0, <1>2, <2>4 DEF Frame
    <3>6. RowIs(data[p][Rows - 0], Frame(p, 0), Newest(p, Frame(p, 0)))'
      BY <3>4, <3>5, ViewerAssumption DEF ViewerAssumption
    <3>7. \A k \in 0..Depth : RowIs(data[p][Rows - k], Frame(p, k), Newest(p, Frame(p, k)))'
      BY <2>1, <2>5, <3>6
    <3>8. QED
      BY <2>1, <2>6, <3>1, <3>7 DEF RowsHold, At3
  <2>9. QED
    BY <2>7, <2>8
<1>6. ASSUME NEW q \in Ports, q # p PROVE RowsHold(q)'
  BY <1>1, <1>2, <1>4, <1>6, RowsStay DEF ViewerIInv
<1>7. ViewerTypeOK'
  BY <1>1, <1>2, <1>4 DEF ViewerIInv, ViewerTypeOK
<1>8. /\ \A q \in Ports : /\ data[q][Rows].lltf \in Nat /\ data[q][Rows].ht \in Nat
                          /\ data'[q][Rows].lltf \in Nat /\ data'[q][Rows].ht = data[q][Rows].ht
                          /\ data[q][Rows].lltf <= data'[q][Rows].lltf
  <2>1. data[p][Rows].lltf <= c
    BY <1>0 DEF ViewerIInv, NotLater
  <2>2. \A q \in Ports : data[q][Rows].lltf \in Nat /\ data[q][Rows].ht \in Nat
    BY LastRow DEF ViewerIInv
  <2>3. QED
    BY <1>4, <2>1, <2>2
<1>9. NotLater'
  <2>1. \A q \in Ports : data'[q][Rows].lltf <= count'[q] /\ data'[q][Rows].ht <= count'[q]
    BY <1>0, <1>2, <1>4 DEF ViewerIInv, NotLater
  <2>2. \A l \in 0..(Lines - 1) : picture[l] \in Nat /\ picture[l] <= data[1][Rows].lltf
    BY DEF ViewerIInv, ViewerTypeOK, NotLater
  <2>3. QED
    BY <1>2, <1>8, <2>1, <2>2 DEF NotLater, Ports
<1>10. PictureHolds'
  BY <1>2 DEF ViewerIInv, PictureHolds
<1>11. FourthHolds' /\ DiffHolds'
  <2> SUFFICES ASSUME tool = "phase" PROVE FourthHolds' /\ DiffHolds'
    BY <1>2 DEF FourthHolds, DiffHolds
  <2>1. /\ data4.lltf \in Nat /\ data4.ht \in Nat /\ diff.lltf[2] \in Nat /\ diff.ht[2] \in Nat
        /\ \A f : PrevHt(f)' = PrevHt(f)
    BY <1>2, DiffTyped DEF PrevHt
  <2>2. CASE p = 1
    <3>1. /\ data'[2] = data[2] /\ reader'[2] = reader[2] /\ reader'[1] \in {"ht", "load"}
          /\ reader'[1] = "load" => ~ long[1]
      BY <1>1, <1>4, <2>2 DEF AfterLltf, AfterHt, IfLong, Ports
    <3>2. FourthHolds'
      BY <1>2, <2>1, <3>1 DEF ViewerIInv, FourthHolds
    <3>3. diff.ht[1] = data'[1][Rows].ht
      BY <1>1, <1>4, <2>2 DEF ViewerIInv, DiffHolds
    <3>4. DiffHolds'
      BY <1>2, <2>1, <3>1, <3>3 DEF ViewerIInv, DiffHolds
    <3>5. QED
      BY <3>2, <3>4
  <2>3. CASE p = 2
    <3>1. /\ reader[2] = "lltf" /\ reader'[2] = "lltf4" /\ reader'[1] = reader[1]
          /\ data'[1] = data[1] /\ data'[2][Rows].ht = data[2][Rows].ht /\ data'[2][Rows].lltf = c
      BY <1>1, <1>4, <2>3 DEF AfterLltf, Ports
    <3>2. c > 0 /\ data[2][Rows].lltf = c - 1 /\ data4.lltf = c - 1
      BY <1>0, <1>1, <2>3 DEF ViewerIInv, RowsHold, At3, RowIs, FourthHolds
    <3>3. FourthHolds'
      BY <1>2, <2>1, <3>1, <3>2 DEF ViewerIInv, FourthHolds
    <3>4. DiffHolds'
      <4>1. data'[2][Rows].ht \in Nat /\ data[2][Rows].lltf <= c /\ data[2][Rows].ht <= data'[2][Rows].ht
        BY <1>8, <3>1, <3>2, DiffTyped DEF Ports
      <4>2. long'[1] = long[1] /\ data4' = data4
        BY <1>2
      <4>3. data4.lltf <= data4.lltf /\ data4.ht <= data4.ht
        BY <2>1
      <4>4. QED
        BY <1>2, <2>1, <3>1, <4>1, <4>2, <4>3, DiffKept
    <3>5. QED
      BY <3>3, <3>4
  <2>4. QED
    BY <2>2, <2>3 DEF Ports
<1>12. SumsHold'
  <2> SUFFICES ASSUME tool \in SumTools PROVE SumsHold'
    BY <1>2 DEF SumsHold
  <2>1. reader[1] \in At3 \cup {"sum"} <=> reader'[1] \in At3 \cup {"sum"}
    BY <1>1 DEF AfterLltf, AfterHt, IfLong, SumTools, At3, Ports
  <2>2. QED
    BY <1>2, <2>1 DEF ViewerIInv, SumsHold
<1>13. QED
  BY <1>5, <1>6, <1>7, <1>9, <1>10, <1>11, <1>12 DEF ViewerIInv

(* The HT field of the last row is filled.                                  *)
LEMMA FillHtKeeps ==
  ASSUME ViewerIInv, NEW p \in Ports, FillHt(p, AfterHt(p))
  PROVE  ViewerIInv'
<1>0. PICK c \in Nat : c = count[p]
  BY DEF ViewerIInv, ViewerTypeOK
<1>1. /\ reader[p] = "ht" /\ reader'[p] = AfterHt(p)
      /\ \A q \in Ports : q # p => reader'[q] = reader[q]
      /\ AfterHt(p) \in {"read", "load", "ht4", "sum"}
      /\ reader' \in [Ports -> Stages]
  BY DEF ViewerIInv, ViewerTypeOK, FillHt, Goto, At3, Stages, AfterLltf, AfterHt
<1>2. UNCHANGED <<tool, gui, count, long, data4, arg3, diff, sums, prog, picture, imgidx, longs>>
  BY DEF FillHt, phaseVars, drawVars
<1>3. data' = [data EXCEPT ![p][Rows].ht = c]
  BY <1>0 DEF FillHt
<1>4. /\ data' \in [Ports -> [1..Rows -> RowType]]
      /\ \A q \in Ports : q # p => data'[q] = data[q]
      /\ \A r \in 1..Rows : r # Rows => data'[p][r] = data[p][r]
      /\ data'[p][Rows].ht = c /\ data'[p][Rows].lltf = data[p][Rows].lltf
  BY <1>3, HtFilled DEF ViewerIInv
<1>5. RowsHold(p)'
  <2>1. Depth' = Depth /\ Depth \in Nat /\ Depth < Rows
    BY <1>2, DepthStays, DepthIs
  <2>2. \A f : Newest(p, f)' = Newest(p, f)
    BY <1>2, NewestStays
  <2>3. \A k : Frame(p, k)' = Frame(p, k)
    BY <1>2 DEF Frame
  <2>4. /\ longs[p] \subseteq 1..c /\ c > 0 /\ c \in longs[p]
        /\ data[p][Rows].lltf = c
        /\ \A k \in 1..Depth : RowIs(data[p][Rows - k], Frame(p, k), Newest(p, Frame(p, k)))
    BY <1>0, <1>1 DEF ViewerIInv, RowsHold, At3, RowIs
  <2>5. \A k \in 1..Depth : RowIs(data[p][Rows - k], Frame(p, k), Newest(p, Frame(p, k)))'
    <3>1. \A k \in 1..Depth : data'[p][Rows - k] = data[p][Rows - k]
      BY <1>4, <2>1, ViewerAssumption DEF ViewerAssumption
    <3>2. QED
      BY <2>2, <2>3, <2>4, <3>1 DEF RowIs
  <2>6. (longs[p] \subseteq 1..count[p])'
    BY <1>0, <1>2, <2>4
  <2>7. reader'[p] \notin At3
    BY <1>1 DEF At3
  <2>8. Newest(p, c) = c
    <3>1. {n \in longs[p] : n <= c} = longs[p] /\ longs[p] \in SUBSET Nat
      BY <2>4
    <3>2. LatestOf(longs[p]) = c
      BY <2>4, <3>1, LatestIs
    <3>3. QED
      BY <3>1, <3>2 DEF Newest
  <2>9. RowIs(data[p][Rows], c, Newest(p, c))'
    BY <1>4, <2>2, <2>4, <2>8 DEF RowIs
  <2>10. Frame(p, 0)' = c
    BY <1>0, <1>2, <2>4 DEF Frame
  <2>11. RowIs(data[p][Rows - 0], Frame(p, 0), Newest(p, Frame(p, 0)))'
    BY <2>9, <2>10, ViewerAssumption DEF ViewerAssumption
  <2>12. \A k \in 0..Depth : RowIs(data[p][Rows - k], Frame(p, k), Newest(p, Frame(p, k)))'
    BY <2>1, <2>5, <2>11
  <2>13. QED
    BY <2>1, <2>6, <2>7, <2>12 DEF RowsHold, At3
<1>6. ASSUME NEW q \in Ports, q # p PROVE RowsHold(q)'
  BY <1>1, <1>2, <1>4, <1>6, RowsStay DEF ViewerIInv
<1>7. ViewerTypeOK'
  BY <1>1, <1>2, <1>4 DEF ViewerIInv, ViewerTypeOK
<1>8. /\ \A q \in Ports : /\ data[q][Rows].lltf \in Nat /\ data[q][Rows].ht \in Nat
                          /\ data'[q][Rows].ht \in Nat /\ data'[q][Rows].lltf = data[q][Rows].lltf
                          /\ data[q][Rows].ht <= data'[q][Rows].ht
  <2>1. data[p][Rows].ht <= c
    BY <1>0 DEF ViewerIInv, NotLater
  <2>2. \A q \in Ports : data[q][Rows].lltf \in Nat /\ data[q][Rows].ht \in Nat
    BY LastRow DEF ViewerIInv
  <2>3. QED
    BY <1>4, <2>1, <2>2
<1>9. NotLater'
  <2>1. \A q \in Ports : data'[q][Rows].lltf <= count'[q] /\ data'[q][Rows].ht <= count'[q]
    BY <1>0, <1>2, <1>4 DEF ViewerIInv, NotLater
  <2>2. QED
    BY <1>2, <1>8, <2>1 DEF ViewerIInv, NotLater, Ports
<1>10. PictureHolds'
  BY <1>2 DEF ViewerIInv, PictureHolds
<1>11. FourthHolds' /\ DiffHolds'
  <2> SUFFICES ASSUME tool = "phase" PROVE FourthHolds' /\ DiffHolds'
    BY <1>2 DEF FourthHolds, DiffHolds
  <2>1. /\ data4.lltf \in Nat /\ data4.ht \in Nat /\ diff.lltf[2] \in Nat /\ diff.ht[2] \in Nat
        /\ \A f : PrevHt(f)' = PrevHt(f)
    BY <1>2, DiffTyped DEF PrevHt
  <2>2. CASE p = 1
    <3>1. /\ data'[2] = data[2] /\ reader'[2] = reader[2] /\ reader'[1] = "load" /\ long[1]
      BY <1>1, <1>4, <2>2 DEF ViewerIInv, RowsHold, AfterHt, Ports
    <3>2. FourthHolds'
      BY <1>2, <2>1, <3>1 DEF ViewerIInv, FourthHolds
    <3>3. DiffHolds'
      BY <1>2, <2>1, <3>1 DEF ViewerIInv, DiffHolds
    <3>4. QED
      BY <3>2, <3>3
  <2>3. CASE p = 2
    <3>1. /\ reader[2] = "ht" /\ reader'[2] = "ht4" /\ reader'[1] = reader[1]
          /\ data'[1] = data[1] /\ data'[2][Rows].ht = c /\ data'[2][Rows].lltf = data[2][Rows].lltf
      BY <1>1, <1>4, <2>3 DEF AfterHt, Ports
    <3>2. /\ c > 0 /\ data[2][Rows].ht = Newest(2, c - 1) /\ data4.ht = data[2][Rows].ht
          /\ longs[2] \subseteq Nat
      BY <1>0, <1>1, <2>3 DEF ViewerIInv, ViewerTypeOK, RowsHold, At3, RowIs, FourthHolds, Ports
    <3>3. PrevHt(c) = data4.ht
      <4>1. {n \in longs[2] : n < c} = {n \in longs[2] : n <= c - 1}
        BY <3>2
      <4>2. QED
        BY <3>2, <4>1 DEF PrevHt, Newest
    <3>4. data4.ht <= c
      BY <1>0, <2>3, <3>2, DiffTyped
    <3>5. FourthHolds'
      <4>1. PrevHt(data[2][Rows].ht)' = data4.ht
        BY <2>1, <3>1, <3>3
      <4>2. count'[2] = c /\ data4' = data4
        BY <1>0, <1>2, <2>3
      <4>3. data[2][Rows].lltf = data4.lltf
        BY <3>1 DEF ViewerIInv, FourthHolds
      <4>4. QED
        BY <2>1, <3>1, <3>4, <4>1, <4>2, <4>3 DEF FourthHolds
    <3>6. DiffHolds'
      <4>1. data'[2][Rows].lltf \in Nat /\ data[2][Rows].ht <= c /\ data[2][Rows].lltf <= data'[2][Rows].lltf
        BY <3>1, <3>2, <3>4, DiffTyped
      <4>2. long'[1] = long[1] /\ data4' = data4
        BY <1>2
      <4>3. data4.lltf <= data4.lltf /\ data4.ht <= data4.ht
        BY <2>1
      <4>4. QED
        BY <1>2, <2>1, <3>1, <4>1, <4>2, <4>3, DiffKept
    <3>7. QED
      BY <3>5, <3>6
  <2>4. QED
    BY <2>2, <2>3 DEF Ports
<1>12. SumsHold'
  <2> SUFFICES ASSUME tool \in SumTools PROVE SumsHold'
    BY <1>2 DEF SumsHold
  <2>1. reader[1] \in At3 \cup {"sum"} <=> reader'[1] \in At3 \cup {"sum"}
    BY <1>1 DEF AfterLltf, AfterHt, IfLong, SumTools, At3, Ports
  <2>2. QED
    BY <1>2, <2>1 DEF ViewerIInv, SumsHold
<1>13. QED
  BY <1>5, <1>6, <1>7, <1>9, <1>10, <1>11, <1>12 DEF ViewerIInv

(* phase: array4 gets what array3 has.                                      *)
LEMMA FourthsKeeps ==
  ASSUME ViewerIInv, tool = "phase", Fourths
  PROVE  ViewerIInv'
<1>0. PICK c \in Nat : c = count[2]
  BY DEF ViewerIInv, ViewerTypeOK, Ports
<1>1. /\ reader'[1] = reader[1] /\ reader' \in [Ports -> Stages]
      /\ \/ /\ reader[2] = "lltf4" /\ reader'[2] = IfLong(2, "read")
            /\ data4' = [data4 EXCEPT !.lltf = c]
         \/ /\ reader[2] = "ht4" /\ reader'[2] = "read"
            /\ data4' = [data4 EXCEPT !.ht = c]
  BY <1>0 DEF ViewerIInv, ViewerTypeOK, Fourths, FillFourth, Goto, At3, Stages, IfLong, Ports
<1>2. UNCHANGED <<tool, gui, count, long, data, arg3, diff, sums, prog, picture, imgidx, longs>>
  BY DEF Fourths, FillFourth, drawVars
<1>3. /\ data4 \in RowType /\ data4.lltf \in Nat /\ data4.ht \in Nat
      /\ data[2][Rows].lltf \in Nat /\ data[2][Rows].ht \in Nat
  BY DiffTyped DEF ViewerIInv, ViewerTypeOK
<1>4. /\ longs[2] \subseteq 1..c
      /\ reader[2] = "lltf4" => /\ data[2][Rows].lltf = c /\ data[2][Rows].ht = Newest(2, c - 1)
                               /\ c > 0 /\ (long[2] <=> c \in longs[2])
  BY <1>0 DEF ViewerIInv, RowsHold, RowIs, At3, Ports
<1>5. data4' \in RowType
  BY <1>1, <1>3 DEF RowType
<1>6. /\ data[2][Rows].lltf = data4'.lltf
      /\ reader[2] = "lltf4" => data4'.ht = data4.ht /\ data4.lltf <= c
      /\ reader[2] = "ht4" => data4'.ht = c /\ data4'.lltf = data4.lltf /\ data[2][Rows].ht = c
  BY <1>0, <1>1, <1>3, <1>4 DEF RowType, ViewerIInv, FourthHolds
<1>7. /\ data4.lltf <= data4'.lltf /\ data4.ht <= data4'.ht /\ data4'.ht <= data[2][Rows].ht
      /\ data4'.ht = data[2][Rows].ht
  BY <1>1, <1>3, <1>4, <1>6 DEF ViewerIInv, FourthHolds
<1>8. \A f : PrevHt(f)' = PrevHt(f)
  BY <1>2 DEF PrevHt
<1>9. FourthHolds'
  <2>1. reader'[2] \notin {"lltf4", "ht4"}
    BY <1>1 DEF IfLong
  <2>2. PrevHt(data[2][Rows].ht)' \in 0..data4'.ht
    <3>1. PrevHt(data[2][Rows].ht) \in 0..data4.ht
      BY DEF ViewerIInv, FourthHolds
    <3>2. PrevHt(data[2][Rows].ht)' = PrevHt(data[2][Rows].ht)
      BY <1>2, <1>8
    <3>3. QED
      BY <1>3, <1>7, <3>1, <3>2
  <2>3. QED
    BY <1>2, <1>6, <1>7, <2>1, <2>2 DEF FourthHolds
<1>10. DiffHolds'
  <2>1. data4'.lltf \in Nat /\ data4'.ht \in Nat
    BY <1>5 DEF RowType
  <2>2. data[2][Rows].lltf <= data[2][Rows].lltf /\ data[2][Rows].ht <= data[2][Rows].ht
    BY <1>3
  <2>3. QED
    BY <1>1, <1>2, <1>3, <1>7, <1>8, <2>1, <2>2, DiffKept
<1>11. RowsHold(2)'
  <2>1. CASE reader[2] = "ht4"
    <3>1. reader[2] \notin At3 /\ reader'[2] \notin At3
      BY <1>1, <2>1 DEF At3
    <3>2. QED
      BY <1>2, <3>1, RowsStay DEF ViewerIInv, Ports
  <2>2. CASE reader[2] = "lltf4"
    <3>1. Depth' = Depth /\ Depth = 0
      BY <1>2, DepthStays, DepthIs DEF Rotates
    <3>2. \A f : Newest(2, f)' = Newest(2, f)
      BY <1>2 DEF Newest
    <3>3. \A k : Frame(2, k)' = Frame(2, k)
      BY <1>2 DEF Frame
    <3>4. reader'[2] = IfLong(2, "read")
      BY <1>1, <2>2
    <3>5. CASE long[2]
      BY <1>0, <1>2, <1>4, <2>2, <3>1, <3>2, <3>4, <3>5 DEF RowsHold, RowIs, At3, IfLong
    <3>6. CASE ~ long[2]
      <4>1. reader'[2] \notin At3
        BY <3>4, <3>6 DEF At3, IfLong
      <4>2. {n \in longs[2] : n <= c} = {n \in longs[2] : n <= c - 1}
        BY <1>4, <2>2, <3>6
      <4>3. Newest(2, c) = Newest(2, c - 1)
        BY <4>2 DEF Newest
      <4>4. RowIs(data[2][Rows], c, Newest(2, c))'
        BY <1>2, <1>4, <2>2, <3>2, <4>3 DEF RowIs
      <4>5. Frame(2, 0)' = c
        BY <1>0, <1>2, <1>4, <2>2 DEF Frame
      <4>6. RowIs(data[2][Rows - 0], Frame(2, 0), Newest(2, Frame(2, 0)))'
        BY <4>4, <4>5, ViewerAssumption DEF ViewerAssumption
      <4>7. (longs[2] \subseteq 1..count[2])'
        BY <1>0, <1>2, <1>4
      <4>8. QED
        BY <3>1, <4>1, <4>6, <4>7 DEF RowsHold, At3
    <3>7. QED
      BY <3>5, <3>6
  <2>3. QED
    BY <1>1, <2>1, <2>2
<1>12. RowsHold(1)'
  BY <1>1, <1>2, RowsStay DEF ViewerIInv, Ports
<1>13. ViewerTypeOK'
  BY <1>1, <1>2, <1>5 DEF ViewerIInv, ViewerTypeOK
<1>14. NotLater' /\ PictureHolds'
  BY <1>2 DEF ViewerIInv, NotLater, PictureHolds
<1>15. SumsHold'
  BY <1>2 DEF SumsHold, SumTools
<1>16. QED
  BY <1>9, <1>10, <1>11, <1>12, <1>13, <1>14, <1>15 DEF ViewerIInv, Ports

(* phase: the cell of port 2 is loaded in two halves, and the difference      *)
(* stored.                                                                  *)
LEMMA SubtractKeeps ==
  ASSUME ViewerIInv, tool = "phase", subtract_phase
  PROVE  ViewerIInv'
<1>1. /\ reader[1] \in {"load", "subtract", "load_ht", "subtract_ht"}
      /\ reader'[1] \in {"subtract", "load_ht", "subtract_ht", "read"}
      /\ reader'[2] = reader[2] /\ reader' \in [Ports -> Stages]
  BY DEF ViewerIInv, ViewerTypeOK, subtract_phase, LoadThird, Subtract, Goto, At3, Stages, Ports
<1>2. UNCHANGED <<tool, gui, count, long, data, data4, sums, prog, picture, imgidx, longs>>
  BY DEF subtract_phase, LoadThird, Subtract, drawVars
<1>3. /\ data[1][Rows].lltf \in Nat /\ data[1][Rows].ht \in Nat
      /\ data[2][Rows].lltf \in Nat /\ data[2][Rows].ht \in Nat
      /\ arg3 \in Nat /\ data4.lltf \in Nat /\ data4.ht \in Nat
      /\ diff \in [lltf : Triple, ht : Triple]
  BY LastRow, DiffTyped DEF ViewerIInv, ViewerTypeOK, Ports
<1>4. \A f : PrevHt(f)' = PrevHt(f)
  BY <1>2 DEF PrevHt
<1>5. /\ diff' \in [lltf : Triple, ht : Triple] /\ arg3' \in Nat
      /\ DiffHolds'
  <2>1. CASE LoadThird("load", "lltf", "subtract") \/ LoadThird("load_ht", "ht", "subtract_ht")
    <3>1. /\ diff' = diff
          /\ \/ reader[1] = "load" /\ reader'[1] = "subtract" /\ arg3' = data[2][Rows].lltf
             \/ reader[1] = "load_ht" /\ reader'[1] = "subtract_ht" /\ arg3' = data[2][Rows].ht
      BY <2>1 DEF LoadThird, Goto, ViewerIInv, ViewerTypeOK, Ports
    <3>2. /\ data[2][Rows].lltf <= data[2][Rows].lltf /\ data[2][Rows].ht <= data[2][Rows].ht
          /\ PrevHt(data[2][Rows].ht) \in 0..data4.ht
      BY <1>3 DEF ViewerIInv, FourthHolds
    <3>3. DiffHolds'
      BY <1>2, <1>4, <3>1, <3>2 DEF ViewerIInv, DiffHolds
    <3>4. QED
      BY <1>3, <3>1, <3>3
  <2>2. CASE Subtract("subtract", "lltf", IF long[1] THEN "load_ht" ELSE "read")
    <3> DEFINE cell == <<data[1][Rows].lltf, arg3, data4.lltf>>
    <3>1. diff' = [diff EXCEPT !.lltf = cell] /\ arg3' = arg3
      BY <2>2 DEF Subtract
    <3>2. cell \in Triple /\ cell[1] = data[1][Rows].lltf /\ cell[2] = arg3 /\ cell[3] = data4.lltf
      BY <1>3 DEF Triple
    <3> HIDE DEF cell
    <3>3. /\ diff' \in [lltf : Triple, ht : Triple]
          /\ diff'.lltf = cell /\ diff'.ht = diff.ht
      BY <1>3, <3>1, <3>2
    <3>4. reader[1] = "subtract" /\ reader'[1] = IF long[1] THEN "load_ht" ELSE "read"
      BY <2>2 DEF Subtract, Goto, ViewerIInv, ViewerTypeOK, Ports
    <3>5. /\ diff.ht[2] <= data[2][Rows].ht /\ diff.ht[3] <= data4.ht
          /\ PrevHt(diff.ht[2]) \in 0..diff.ht[3]
          /\ arg3 <= data[2][Rows].lltf
      BY <3>4 DEF ViewerIInv, DiffHolds
    <3>6. ~ (reader'[1] \in {"load", "subtract", "load_ht", "subtract_ht"} /\ long'[1]) =>
            diff.ht[1] = data[1][Rows].ht
      BY <1>2, <3>4 DEF ViewerIInv, DiffHolds
    <3>7. data4.lltf <= data4.lltf /\ data[2][Rows].lltf <= data4.lltf + 1
      BY <1>3 DEF ViewerIInv, FourthHolds
    <3>8. arg3 <= data4.lltf + 1
      BY <1>3, <3>5, <3>7
    <3>9. PrevHt(diff.ht[2])' \in 0..diff'.ht[3]
      BY <1>4, <3>3, <3>5
    <3>10. DiffHolds'
      BY <1>2, <3>2, <3>3, <3>4, <3>5, <3>6, <3>7, <3>8, <3>9 DEF DiffHolds
    <3>11. QED
      BY <1>3, <3>1, <3>3, <3>10
  <2>3. CASE Subtract("subtract_ht", "ht", "read")
    <3> DEFINE cell == <<data[1][Rows].ht, arg3, data4.ht>>
    <3>1. diff' = [diff EXCEPT !.ht = cell] /\ arg3' = arg3
      BY <2>3 DEF Subtract
    <3>2. cell \in Triple /\ cell[1] = data[1][Rows].ht /\ cell[2] = arg3 /\ cell[3] = data4.ht
      BY <1>3 DEF Triple
    <3> HIDE DEF cell
    <3>3. /\ diff' \in [lltf : Triple, ht : Triple]
          /\ diff'.ht = cell /\ diff'.lltf = diff.lltf
      BY <1>3, <3>1, <3>2
    <3>4. reader[1] = "subtract_ht" /\ reader'[1] = "read"
      BY <2>3 DEF Subtract, Goto, ViewerIInv, ViewerTypeOK, Ports
    <3>5. /\ diff.lltf[2] <= data[2][Rows].lltf /\ diff.lltf[1] = data[1][Rows].lltf
          /\ diff.lltf[3] <= data4.lltf /\ diff.lltf[2] <= diff.lltf[3] + 1
          /\ arg3 <= data[2][Rows].ht /\ PrevHt(arg3) \in 0..data4.ht
      BY <3>4 DEF ViewerIInv, DiffHolds
    <3>6. data4.ht <= data4.ht
      BY <1>3
    <3>7. PrevHt(diff.ht[2])' \in 0..diff'.ht[3]
      BY <1>4, <3>2, <3>3, <3>5
    <3>8. DiffHolds'
      BY <1>2, <3>2, <3>3, <3>4, <3>5, <3>6, <3>7 DEF DiffHolds
    <3>9. QED
      BY <1>3, <3>1, <3>3, <3>8
  <2>4. QED
    BY <2>1, <2>2, <2>3 DEF subtract_phase
<1>6. ASSUME NEW q \in Ports PROVE RowsHold(q)'
  <2>1. reader'[q] = reader[q] \/ (reader[q] \notin At3 /\ reader'[q] \notin At3)
    BY <1>1 DEF Ports, At3
  <2>2. QED
    BY <1>2, <2>1, RowsStay DEF ViewerIInv
<1>7. ViewerTypeOK'
  BY <1>1, <1>2, <1>5 DEF ViewerIInv, ViewerTypeOK
<1>8. NotLater' /\ PictureHolds' /\ FourthHolds'
  BY <1>1, <1>2, <1>4 DEF ViewerIInv, NotLater, PictureHolds, FourthHolds
<1>9. SumsHold'
  BY <1>2 DEF SumsHold, SumTools
<1>10. QED
  BY <1>5, <1>6, <1>7, <1>8, <1>9 DEF ViewerIInv

(* The sum goes to the next slot, or to the last after all have moved up.    *)
LEMMA StoreSumKeeps ==
  ASSUME ViewerIInv, tool \in SumTools, StoreSum(1)
  PROVE  ViewerIInv'
<1>0. PICK c \in Nat : c = count[1]
  BY DEF ViewerIInv, ViewerTypeOK, Ports
<1>1. /\ reader[1] = "sum" /\ reader'[1] = "read" /\ reader'[2] = reader[2]
      /\ reader' \in [Ports -> Stages]
  BY DEF ViewerIInv, ViewerTypeOK, StoreSum, Goto, At3, Stages, Ports
<1>2. UNCHANGED <<tool, gui, count, long, data, data4, arg3, diff, longs, picture, imgidx>>
  BY DEF StoreSum, phaseVars, drawVars
<1>3. /\ Slots \in Nat \ {0} /\ prog \in 0..(Slots - 1)
      /\ sums \in [0..(Slots - 1) -> Nat]
      /\ \A s \in 0..(Slots - 1) : sums[s] = IF s <= prog THEN (c - 1) - (prog - s) ELSE 0
  BY <1>0, <1>1, ViewerAssumption DEF ViewerAssumption, ViewerIInv, ViewerTypeOK, SumsHold
<1>4. /\ prog' \in 0..(Slots - 1)
      /\ sums' \in [0..(Slots - 1) -> Nat]
      /\ \A s \in 0..(Slots - 1) : sums'[s] = IF s <= prog' THEN c - (prog' - s) ELSE 0
  <2>1. CASE prog >= Slots - 1
    <3> DEFINE shifted == [i \in 0..(Slots - 1) |-> IF i < Slots - 1 THEN sums[i + 1] ELSE sums[i]]
    <3>1. /\ sums' = [shifted EXCEPT ![prog] = c] /\ prog' = prog
      BY <1>0, <2>1 DEF StoreSum
    <3>2. prog = Slots - 1
      BY <1>3, <2>1
    <3>3. /\ shifted \in [0..(Slots - 1) -> Nat]
          /\ \A s \in 0..(Slots - 1) : s < Slots - 1 => shifted[s] = sums[s + 1]
      BY <1>3
    <3> HIDE DEF shifted
    <3>4. /\ sums' \in [0..(Slots - 1) -> Nat] /\ sums'[prog] = c
          /\ \A s \in 0..(Slots - 1) : s < Slots - 1 => sums'[s] = sums[s + 1]
      BY <1>3, <3>1, <3>2, <3>3
    <3>5. ASSUME NEW s \in 0..(Slots - 1), s < Slots - 1 PROVE sums'[s] = c - (prog - s)
      <4>1. s + 1 \in 0..(Slots - 1) /\ s + 1 <= prog
        BY <1>3, <3>2, <3>5
      <4>2. sums[s + 1] = (c - 1) - (prog - (s + 1))
        BY <1>3, <4>1
      <4>3. QED
        BY <1>3, <3>4, <3>5, <4>2
    <3>6. QED
      BY <1>3, <3>1, <3>2, <3>4, <3>5
  <2>2. CASE ~ (prog >= Slots - 1)
    <3>1. /\ sums' = [sums EXCEPT ![prog + 1] = c] /\ prog' = prog + 1
      BY <1>0, <2>2 DEF StoreSum
    <3>2. prog + 1 \in 0..(Slots - 1)
      BY <1>3, <2>2
    <3>3. QED
      BY <1>3, <3>1, <3>2
  <2>3. QED
    BY <2>1, <2>2
<1>5. ASSUME NEW q \in Ports PROVE RowsHold(q)'
  <2>1. reader'[q] = reader[q] \/ (reader[q] \notin At3 /\ reader'[q] \notin At3)
    BY <1>1 DEF Ports, At3
  <2>2. QED
    BY <1>2, <2>1, RowsStay DEF ViewerIInv
<1>6. ViewerTypeOK'
  BY <1>1, <1>2, <1>4 DEF ViewerIInv, ViewerTypeOK
<1>7. NotLater' /\ PictureHolds' /\ FourthHolds' /\ DiffHolds'
  BY <1>2 DEF ViewerIInv, NotLater, PictureHolds, FourthHolds, DiffHolds, SumTools
<1>8. SumsHold'
  BY <1>0, <1>1, <1>2, <1>4 DEF SumsHold, At3
<1>9. QED
  BY <1>5, <1>6, <1>7, <1>8 DEF ViewerIInv

-----------------------------------------------------------------------------
(* The threads' state stays while the window draws a line of the waterfall.  *)
LEMMA PasteKeeps ==
  ASSUME ViewerIInv, PasteLine, gui' \in {"running", "gone"},
         UNCHANGED <<tool, reader, arrayVars>>
  PROVE  ViewerIInv'
<1>1. UNCHANGED <<tool, reader, count, long, data, data4, arg3, diff, sums, prog, longs>>
  BY DEF arrayVars, phaseVars
<1>2. /\ Lines \in Nat \ {0} /\ imgidx \in 0..(Lines - 1)
      /\ picture \in [0..(Lines - 1) -> Nat]
  BY ViewerAssumption DEF ViewerAssumption, ViewerIInv, ViewerTypeOK
<1>3. PICK n \in Nat : n = data[1][Rows].lltf
  BY LastRow DEF ViewerIInv, Ports
<1>4. /\ \A l \in 0..(Lines - 1) : picture[l] <= n
      /\ \A k, l \in 0..(Lines - 1) : k < l /\ l < imgidx => picture[k] <= picture[l]
      /\ \A l \in imgidx..(Lines - 1) : picture[l] = 0
  BY <1>3 DEF ViewerIInv, NotLater, PictureHolds
<1>5. /\ imgidx' \in 0..(Lines - 1)
      /\ imgidx' = 0 \/ imgidx' = imgidx + 1
  <2>1. imgidx' = (imgidx + 1) % Lines
    BY DEF PasteLine
  <2>2. CASE imgidx + 1 < Lines
    BY <1>2, <2>1, <2>2
  <2>3. CASE imgidx + 1 = Lines
    BY <1>2, <2>1, <2>3
  <2>4. QED
    BY <1>2, <2>2, <2>3
<1>6. /\ picture' \in [0..(Lines - 1) -> Nat]
      /\ \A l \in 0..(Lines - 1) : picture'[l] <= n
      /\ \A k, l \in 0..(Lines - 1) : k < l /\ l < imgidx' => picture'[k] <= picture'[l]
      /\ \A l \in imgidx'..(Lines - 1) : picture'[l] = 0
  <2>1. CASE imgidx' = 0
    <3>1. picture' = [i \in 0..(Lines - 1) |-> 0]
      BY <2>1 DEF PasteLine
    <3>2. QED
      BY <1>2, <2>1, <3>1
  <2>2. CASE imgidx' # 0
    <3>1. picture' = [picture EXCEPT ![imgidx] = n]
      BY <1>3, <2>2 DEF PasteLine
    <3>2. /\ picture' \in [0..(Lines - 1) -> Nat] /\ picture'[imgidx] = n
          /\ \A l \in 0..(Lines - 1) : l # imgidx => picture'[l] = picture[l]
      BY <1>2, <3>1
    <3>3. \A l \in 0..(Lines - 1) : picture'[l] <= n
      BY <1>4, <3>2
    <3>4. imgidx' = imgidx + 1
      BY <1>5, <2>2
    <3>5. ASSUME NEW k \in 0..(Lines - 1), NEW l \in 0..(Lines - 1), k < l, l < imgidx'
          PROVE  picture'[k] <= picture'[l]
      <4>1. k # imgidx /\ picture'[k] = picture[k]
        BY <1>2, <3>2, <3>4, <3>5
      <4>2. CASE l = imgidx
        BY <1>4, <3>2, <4>1, <4>2
      <4>3. CASE l # imgidx
        <5>1. l < imgidx /\ picture'[l] = picture[l]
          BY <1>2, <3>2, <3>4, <3>5, <4>3
        <5>2. QED
          BY <1>4, <3>5, <4>1, <5>1
      <4>4. QED
        BY <4>2, <4>3
    <3>6. \A l \in imgidx'..(Lines - 1) : picture'[l] = 0
      BY <1>2, <1>4, <3>2, <3>4
    <3>7. QED
      BY <3>2, <3>3, <3>5, <3>6
  <2>3. QED
    BY <2>1, <2>2
<1>7. PictureHolds'
  BY <1>6 DEF PictureHolds
<1>8. NotLater'
  BY <1>1, <1>3, <1>6 DEF ViewerIInv, NotLater
<1>9. ViewerTypeOK'
  BY <1>1, <1>5, <1>6 DEF ViewerIInv, ViewerTypeOK
<1>10. FourthHolds' /\ DiffHolds' /\ SumsHold'
  BY <1>1 DEF ViewerIInv, FourthHolds, DiffHolds, PrevHt, SumsHold
<1>11. ASSUME NEW q \in Ports PROVE RowsHold(q)'
  BY <1>1, RowsStay DEF ViewerIInv
<1>12. QED
  BY <1>7, <1>8, <1>9, <1>10, <1>11 DEF ViewerIInv

(* The window's other steps; the threads may begin.                         *)
LEMMA WindowKeeps ==
  ASSUME ViewerIInv, UNCHANGED <<tool, arrayVars, drawVars>>,
         gui' \in {"starting", "running", "gone"},
         reader' \in [Ports -> Stages],
         \A p \in Ports : \/ reader'[p] = reader[p]
                          \/ reader[p] = "none" /\ reader'[p] = "open"
  PROVE  ViewerIInv'
<1>1. UNCHANGED <<tool, count, long, data, data4, arg3, diff, sums, prog, longs, picture, imgidx>>
  BY DEF arrayVars, phaseVars, drawVars
<1>2. ViewerTypeOK'
  BY <1>1 DEF ViewerIInv, ViewerTypeOK
<1>3. NotLater' /\ PictureHolds'
  BY <1>1 DEF ViewerIInv, NotLater, PictureHolds
<1>4. FourthHolds' /\ DiffHolds'
  <2>1. FourthHolds'
    BY <1>1 DEF ViewerIInv, FourthHolds, PrevHt, Ports
  <2>2. DiffHolds'
    BY <1>1 DEF ViewerIInv, DiffHolds, PrevHt, Ports
  <2>3. QED
    BY <2>1, <2>2
<1>5. SumsHold'
  BY <1>1 DEF ViewerIInv, SumsHold, At3, Ports
<1>6. ASSUME NEW q \in Ports PROVE RowsHold(q)'
  BY <1>1, RowsStay DEF ViewerIInv, At3
<1>7. QED
  BY <1>2, <1>3, <1>4, <1>5, <1>6 DEF ViewerIInv

(* Until the window is there, no thread runs that it has to start.           *)
ThreadsWait == gui = "starting" /\ ~ main.early => \A p \in Ports : reader[p] = "none"

LEMMA ThreadsWaitKept ==
  ASSUME ThreadsWait, [ViewerNext]_viewerVars
  PROVE  ThreadsWait'
<1>1. CASE UNCHANGED viewerVars
  BY <1>1 DEF ThreadsWait, viewerVars, main
<1>2. CASE \E p \in Ports : ThreadStep(p)
  <2> PICK p \in Ports : ThreadStep(p)
    BY <1>2
  <2>1. reader[p] # "none" /\ UNCHANGED tool /\ (gui' = gui \/ gui' = "gone")
    BY DEF ThreadStep, Fails, Open, OpenFailsCaught, Uncaught, ReadFrame, Rotate, FillLltf, FillHt,
           Goto
  <2>2. main' = main
    BY <2>1 DEF main
  <2>3. QED
    BY <2>1, <2>2 DEF ThreadsWait
<1>3. CASE subtract_phase \/ Fourths \/ StoreSum(1)
  <2>1. (reader[1] # "none" \/ reader[2] # "none") /\ UNCHANGED tool /\ gui' = gui
    BY <1>3 DEF subtract_phase, LoadThird, Subtract, Fourths, FillFourth, StoreSum, Goto
  <2>2. main' = main
    BY <2>1 DEF main
  <2>3. QED
    BY <2>1, <2>2 DEF ThreadsWait, Ports
<1>4. CASE ShowWindow \/ update_data \/ PressStartStop \/ PressExit
  <2>1. gui' # "starting"
    BY <1>4 DEF ShowWindow, update_data, update_data_dual, update_data_phase, update_data_histo,
                update_data_org, update_data_low, update_data_3d, Draw, ExitIfAsked, PressStartStop,
                PressExit
  <2>2. QED
    BY <2>1 DEF ThreadsWait
<1>5. QED
  BY <1>1, <1>2, <1>3, <1>4, ThreadSteps DEF ViewerNext

LEMMA ViewerInitHolds ==
  ASSUME ViewerInit
  PROVE  ViewerIInv /\ ThreadsWait
<1>1. /\ tool \in Tools /\ gui = "starting"
      /\ reader \in [Ports -> {"open", "none"}]
      /\ ~ main.early => \A p \in Ports : reader[p] = "none"
  BY DEF ViewerInit
<1>2. /\ count = [p \in Ports |-> 0] /\ long = [p \in Ports |-> FALSE]
      /\ data = [p \in Ports |-> [i \in 1..Rows |-> EmptyRow]]
      /\ data4 = EmptyRow /\ arg3 = 0 /\ diff = [lltf |-> <<0, 0, 0>>, ht |-> <<0, 0, 0>>]
      /\ sums = [i \in 0..(Slots - 1) |-> 0] /\ prog = 0
      /\ picture = [i \in 0..(Lines - 1) |-> 0] /\ imgidx = 0
      /\ longs = [p \in Ports |-> {}]
  BY DEF ViewerInit
<1>3. {Rows, Slots, Lines} \subseteq Nat \ {0}
  BY ViewerAssumption DEF ViewerAssumption
<1>4. EmptyRow \in RowType /\ EmptyRow.lltf = 0 /\ EmptyRow.ht = 0
  BY DEF EmptyRow, RowType
<1>5. \A p \in Ports : \A r \in 1..Rows : data[p][r] = EmptyRow
  BY <1>2
<1>6. ViewerTypeOK
  <2>1. data \in [Ports -> [1..Rows -> RowType]]
    BY <1>2, <1>4
  <2>2. long \in [Ports -> BOOLEAN] /\ longs \in [Ports -> SUBSET Nat] /\ count \in [Ports -> Nat]
    BY <1>2
  <2>3. data4 \in RowType /\ arg3 \in Nat /\ diff \in [lltf : Triple, ht : Triple]
    BY <1>2, <1>4 DEF Triple
  <2>4. /\ sums \in [0..(Slots - 1) -> Nat] /\ prog \in 0..(Slots - 1)
        /\ picture \in [0..(Lines - 1) -> Nat] /\ imgidx \in 0..(Lines - 1)
    BY <1>2, <1>3
  <2>5. QED
    BY <1>1, <2>1, <2>2, <2>3, <2>4 DEF ViewerTypeOK, Stages
<1>7. NotLater /\ PictureHolds
  <2>1. \A p \in Ports : data[p][Rows].lltf = 0 /\ data[p][Rows].ht = 0 /\ count[p] = 0
    BY <1>2, <1>3, <1>4, <1>5
  <2>2. \A l \in 0..(Lines - 1) : picture[l] = 0
    BY <1>2
  <2>3. NotLater
    BY <2>1, <2>2 DEF NotLater, Ports
  <2>4. PictureHolds
    BY <1>2, <1>3, <2>2 DEF PictureHolds
  <2>5. QED
    BY <2>3, <2>4
<1>8. FourthHolds /\ DiffHolds
  <2>1. \A p \in Ports : data[p][Rows].lltf = 0 /\ data[p][Rows].ht = 0
    BY <1>3, <1>4, <1>5
  <2>2. PrevHt(0) = 0
    <3>1. {n \in longs[2] : n < 0} = {}
      BY <1>2 DEF Ports
    <3>2. QED
      BY <3>1 DEF PrevHt, LatestOf
  <2>3. \A p \in Ports : reader[p] \in {"open", "none"}
    BY <1>1
  <2>4. FourthHolds
    BY <1>2, <1>4, <2>1, <2>2, <2>3 DEF FourthHolds, Ports
  <2>5. /\ diff.lltf[1] = 0 /\ diff.lltf[2] = 0 /\ diff.lltf[3] = 0
        /\ diff.ht[1] = 0 /\ diff.ht[2] = 0 /\ diff.ht[3] = 0
    BY <1>2
  <2>6. DiffHolds
    BY <1>2, <1>4, <2>1, <2>2, <2>3, <2>5 DEF DiffHolds, Ports
  <2>7. QED
    BY <2>4, <2>6
<1>9. SumsHold
  BY <1>1, <1>2 DEF SumsHold, At3, Ports
<1>10. ASSUME NEW p \in Ports PROVE RowsHold(p)
  <2>1. reader[p] \notin At3 /\ longs[p] = {} /\ count[p] = 0
    BY <1>1, <1>2 DEF At3
  <2>2. \A f : Newest(p, f) = 0
    <3>1. {n \in longs[p] : FALSE} = {} /\ \A f : {n \in longs[p] : n <= f} = {}
      BY <2>1
    <3>2. QED
      BY <3>1 DEF Newest, LatestOf
  <2>3. \A k \in Nat : Frame(p, k) = 0
    BY <2>1 DEF Frame
  <2>4. ASSUME NEW k \in 0..Depth
        PROVE  RowIs(data[p][Rows - k], Frame(p, k), Newest(p, Frame(p, k)))
    <3>1. k \in Nat /\ Rows - k \in 1..Rows
      BY <1>3, DepthIs
    <3>2. QED
      BY <1>4, <1>5, <2>2, <2>3, <3>1 DEF RowIs
  <2>5. QED
    BY <2>1, <2>4 DEF RowsHold, At3
<1>11. ThreadsWait
  BY <1>1 DEF ThreadsWait
<1>12. QED
  BY <1>6, <1>7, <1>8, <1>9, <1>10, <1>11 DEF ViewerIInv

LEMMA ViewerStep ==
  ASSUME ViewerIInv, ThreadsWait, [ViewerNext]_viewerVars
  PROVE  ViewerIInv'
<1>1. /\ gui \in {"starting", "running", "gone"}
      /\ reader \in [Ports -> Stages]
  BY DEF ViewerIInv, ViewerTypeOK
<1>2. CASE UNCHANGED viewerVars
  <2>1. UNCHANGED <<tool, gui, reader, arrayVars, drawVars>>
    BY <1>2 DEF viewerVars
  <2>2. QED
    BY <1>1, <2>1, WindowKeeps
<1>3. CASE \E p \in Ports : ThreadStep(p)
  BY <1>3, FailsKeeps, ReadFrameKeeps, RotateKeeps, FillLltfKeeps, FillHtKeeps DEF ThreadStep
<1>4. CASE tool = "phase" /\ (subtract_phase \/ Fourths)
  BY <1>4, SubtractKeeps, FourthsKeeps
<1>5. CASE tool \in SumTools /\ StoreSum(1)
  BY <1>5, StoreSumKeeps
<1>6. CASE ShowWindow
  <2>1. /\ UNCHANGED <<tool, arrayVars, drawVars>>
        /\ gui = "starting" /\ gui' = "running"
        /\ reader' = [p \in Ports |-> IF p \in main.ports /\ ~ main.early THEN "open" ELSE reader[p]]
    BY <1>6 DEF ShowWindow
  <2>2. \A p \in Ports : \/ reader'[p] = reader[p]
                         \/ reader[p] = "none" /\ reader'[p] = "open"
    BY <2>1 DEF ThreadsWait
  <2>3. reader' \in [Ports -> Stages]
    BY <1>1, <2>1 DEF Stages
  <2>4. QED
    BY <2>1, <2>2, <2>3, WindowKeeps
<1>7. CASE update_data_dual \/ update_data_phase \/ PressStartStop \/ PressExit
  <2>1. /\ UNCHANGED <<tool, reader, arrayVars, drawVars>>
        /\ gui' \in {"starting", "running", "gone"}
    BY <1>1, <1>7 DEF update_data_dual, update_data_phase, ExitIfAsked, PressStartStop, PressExit
  <2>2. QED
    BY <1>1, <2>1, WindowKeeps
<1>8. CASE Draw
  <2>1. PasteLine /\ gui' \in {"running", "gone"} /\ UNCHANGED <<tool, reader, arrayVars>>
    BY <1>8 DEF Draw, ExitIfAsked
  <2>2. QED
    BY <2>1, PasteKeeps
<1>9. QED
  BY <1>2, <1>3, <1>4, <1>5, <1>6, <1>7, <1>8, ThreadSteps
     DEF ViewerNext, update_data, update_data_histo, update_data_org, update_data_low, update_data_3d

LEMMA ViewerInvariant == ViewerSpec => [](ViewerIInv /\ ThreadsWait)
  BY ViewerInitHolds, ViewerStep, ThreadsWaitKept, PTL DEF ViewerSpec

(* Between two frames the rows that a viewer draws are of consecutive frames *)
(* and each cell that only long frames fill is of the latest one by then; a   *)
(* phase difference takes the latest frame of port 1 and two numbers of port *)
(* 2 of which the second is at most one frame older than the first, and none *)
(* of a frame that its array does not have yet: for any number of rows and    *)
(* of frames, whichever viewer it is, however the threads and the window     *)
(* interleave.                                                              *)
THEOREM RowsFromFramesAlways == ViewerSpec => []RowsFromFrames
<1>1. ASSUME ViewerIInv PROVE RowsFromFrames
  <2>1. ASSUME NEW p \in main.ports, reader[p] = "read",
               NEW k \in 0..(IF Rotates THEN Rows - 1 ELSE 0)
        PROVE  LET row == data[p][Rows - k]
                   frame == IF count[p] > k THEN count[p] - k ELSE 0
               IN  row.lltf = frame /\ row.ht = LatestOf({n \in longs[p] : n <= frame})
    <3>1. p \in Ports
      <4>1. tool \in Tools
        BY <1>1 DEF ViewerIInv, ViewerTypeOK
      <4>2. main.ports \subseteq Ports
        BY <4>1 DEF main, main_parse, main_dual, main_phase, main_histo, main_org, main_low, main_3d,
                    Tools, Ports
      <4>3. QED
        BY <4>2
    <3>2. RowIs(data[p][Rows - k], Frame(p, k), Newest(p, Frame(p, k)))
      BY <1>1, <2>1, <3>1 DEF ViewerIInv, RowsHold, At3, Depth
    <3>3. QED
      BY <3>2 DEF RowIs, Frame, Newest
  <2>2. ASSUME tool = "phase", reader[2] = "read" PROVE data4 = data[2][Rows]
    <3>1. data4.lltf = data[2][Rows].lltf /\ data4.ht = data[2][Rows].ht
      BY <1>1, <2>2 DEF ViewerIInv, FourthHolds
    <3>2. data4 \in RowType /\ data[2][Rows] \in RowType
      BY <1>1, LastRow DEF ViewerIInv, ViewerTypeOK, Ports
    <3>3. QED
      BY <3>1, <3>2 DEF RowType
  <2>3. ASSUME tool = "phase", reader[1] = "read", NEW field \in {"lltf", "ht"}
        PROVE  /\ diff[field][1] = data[1][Rows][field]
               /\ diff[field][2] <= data[2][Rows][field]
               /\ diff[field][3] <= data4[field]
    <3>1. /\ diff.lltf[1] = data[1][Rows].lltf /\ diff.lltf[2] <= data[2][Rows].lltf
          /\ diff.ht[1] = data[1][Rows].ht /\ diff.ht[2] <= data[2][Rows].ht
          /\ diff.lltf[3] <= data4.lltf /\ diff.ht[3] <= data4.ht
      BY <1>1, <2>3 DEF ViewerIInv, DiffHolds
    <3>2. QED
      BY <3>1
  <2>4. ASSUME tool = "phase"
        PROVE  /\ diff.lltf[2] <= diff.lltf[3] + 1
               /\ LatestOf({n \in longs[2] : n < diff.ht[2]}) <= diff.ht[3]
    <3>1. diff.lltf[2] <= diff.lltf[3] + 1 /\ PrevHt(diff.ht[2]) \in 0..diff.ht[3]
      BY <1>1, <2>4 DEF ViewerIInv, DiffHolds
    <3>2. diff.ht[3] \in Nat
      BY <1>1, DiffTyped
    <3>3. QED
      BY <3>1, <3>2 DEF PrevHt
  <2>5. QED
    BY <2>1, <2>2, <2>3, <2>4 DEF RowsFromFrames
<1>2. QED
  BY <1>1, ViewerInvariant, PTL

(* The sums are of consecutive frames and the waterfall's lines of frames in *)
(* order, also after both have started over, for any sizes of the two.       *)
THEOREM HistoryInOrderAlways == ViewerSpec => []HistoryInOrder
<1>1. ASSUME ViewerIInv PROVE HistoryInOrder
  BY <1>1 DEF ViewerIInv, HistoryInOrder, PictureHolds, SumsHold, SumTools, At3
<1>2. QED
  BY <1>1, ViewerInvariant, PTL

-----------------------------------------------------------------------------
(* TrainRecog: the buttons.                                                  *)

Places3 == {"read", "row", "count", "stop", "enable", "draw", "reset", "label", "recog", "compare",
            "hit"}

Report == [d : Nat, n : Nat]

TrainTypeOK ==
  /\ acts \in Nat /\ trainTool \in {"org", "low", "3d"}
  /\ button \in {"none", "flag", "disable"} /\ enabled \in BOOLEAN /\ tlabel \in Nat
  /\ train \in BOOLEAN /\ recog \in BOOLEAN
  /\ DOMAIN traindict \subseteq Nat
  /\ traindict \in [DOMAIN traindict -> [0..(CSI_TRAIN_SIZE - 1) -> [1..Cells -> Nat]]]
  /\ datacnt \in Nat /\ frameNo \in Nat /\ column \in [1..Cells -> Nat]
  /\ fill \in [at : Places3, cell : 1..Cells]
  /\ session \in [label : Nat, clean : BOOLEAN]
  /\ mishaps \subseteq {"cancelled", "raced", "lost", "crossed"}

(* Where the thread is with a row that the training may still get.          *)
AtRow == fill.at \in {"row", "count"}

ButtonsHold ==
  /\ button # "none" => enabled
  /\ train \/ fill.at \in {"row", "count", "stop", "enable"} => ~ enabled \/ button = "disable"
  /\ At("enable") => ~ train
  /\ button = "disable" /\ ~ train => At("enable") \/ "raced" \in mishaps
  /\ ~ enabled /\ ~ train => At("enable") \/ mishaps \cap {"cancelled", "raced"} # {}

CountHolds ==
  /\ datacnt >= CSI_TRAIN_SIZE => fill.at \in {"stop", "enable", "draw", "reset"} \/ "lost" \in mishaps
  /\ 0 < datacnt /\ datacnt < CSI_TRAIN_SIZE =>
       /\ ~ enabled \/ button = "disable"
       /\ fill.at \notin {"stop", "enable", "draw", "reset"}
  /\ At("count") => datacnt < CSI_TRAIN_SIZE

(* The session's rows can still change.                                     *)
Unfinished == button = "flag" \/ (train /\ ~ At("stop")) \/ AtRow

SessionHolds ==
  /\ done \subseteq DOMAIN traindict
  /\ session.label \in done => ~ Unfinished
  /\ Unfinished => session.label \in DOMAIN traindict
  /\ session.clean /\ (train \/ At("row") \/ button # "none") => tlabel = session.label

(* The frame that the row in work is from, or will be.                      *)
RowFrame == IF AtRow THEN frameNo ELSE frameNo + 1

(* What a row holds that is filled from a frame.                            *)
FrameCell(frame, c) ==
  IF c <= ShortCells THEN frame
  ELSE IF trainTool = "low" THEN LatestWide(frame)
  ELSE IF frame \in wides THEN frame ELSE 0

(* The array of low holds the frame's cells, and the thread stays among them. *)
ColumnHolds ==
  /\ wides \subseteq 1..frameNo
  /\ \A c \in 1..Cells : column[c] = IF c <= ShortCells THEN frameNo ELSE LatestWide(frameNo)
  /\ At("row") => fill.cell <= SignalCells

(* The cells of the row in work that have been filled.                      *)
Written(c) == (At("row") /\ c < fill.cell) \/ (At("count") /\ c <= SignalCells)

RowsSoFar ==
  session.clean /\ (train \/ AtRow) /\ datacnt < CSI_TRAIN_SIZE =>
    /\ datacnt < RowFrame
    /\ \A r \in 0..(datacnt - 1), c \in 1..Cells :
         traindict[session.label][r][c] = FrameCell(RowFrame - (datacnt - r), c)
    /\ \A c \in 1..Cells :
         Written(c) => traindict[session.label][datacnt][c] = FrameCell(RowFrame, c)

(* The cells that no frame has filled are zero; when the count of rows is     *)
(* still that of an earlier training, none has been.                        *)
Ahead(r, c) ==
  datacnt >= CSI_TRAIN_SIZE \/ r > datacnt \/ (r = datacnt /\ ~ Written(c))

ZerosAhead ==
  session.clean /\ Unfinished =>
    \A r \in 0..(CSI_TRAIN_SIZE - 1), c \in 1..Cells :
      Ahead(r, c) => traindict[session.label][r][c] = 0

(* A label that is done has the rows of consecutive frames.                  *)
RowsWhole(size, rows) ==
  /\ rows[0][1] > 0 /\ rows[0][1] + (size - 1) <= frameNo
  /\ \A r \in 0..(size - 1), c \in 1..Cells : rows[r][c] = FrameCell(rows[0][1] + r, c)

DoneWhole == \A l \in done : RowsWhole(CSI_TRAIN_SIZE, traindict[l])

TrainingIInv ==
  /\ TrainTypeOK /\ ButtonsHold /\ CountHolds /\ SessionHolds
  /\ ColumnHolds /\ RowsSoFar /\ ZerosAhead /\ DoneWhole

(* The two lists of low match up to the report that the thread is adding.   *)
ReportIInv ==
  /\ mxx2s \in Seq(Report) /\ hits \in Seq(Nat) /\ mxx2x \in Report /\ shownHit \in Nat
  /\ frameNo \in Nat /\ draw \in {"none", "clear", "gone"}
  /\ "crossed" \notin mishaps =>
       /\ shownHit = mxx2x.n
       /\ draw = "gone" => At("hit")
       /\ draw # "clear" =>
            /\ Len(mxx2s) = IF At("hit") THEN Len(hits) + 1 ELSE Len(hits)
            /\ \A i \in 1..Len(hits) : mxx2s[i].n = hits[i]
            /\ At("hit") => mxx2s[Len(mxx2s)].n = frameNo
       /\ draw = "clear" /\ mxx2s = << >> => ~ At("hit")

LEMMA TrainSize ==
  /\ CSI_TRAIN_SIZE \in Nat \ {0} /\ Cells \in Nat \ {0} /\ ShortCells \in 1..Cells
  /\ trainTool' = trainTool => CSI_TRAIN_SIZE' = CSI_TRAIN_SIZE
  BY TrainAssumption DEF CSI_TRAIN_SIZE, TrainAssumption

(* The thread goes to another place.                                        *)
LEMMA Goes ==
  ASSUME NEW where \in Places3, GoTo(where)
  PROVE  fill'.at = where /\ fill'.cell = 1 /\ fill' \in [at : Places3, cell : 1..Cells]
  BY TrainSize DEF GoTo

(* What the thread and the window leave alone.                              *)
LEMMA ToolStays ==
  ASSUME TrainRecogNext
  PROVE  UNCHANGED trainTool
  BY DEF TrainRecogNext, TypeLabel, PressCount, onclick3, PressTrain, FlagTrain, DisableTrain,
         onclick4, Fill, trainx, TrainCell, CountRow, StopTraining, EnableTrain, drawtrain,
         ResetCount, NextLabel, recogx, BeginRecog, Compare, AppendHit, update_data_hits, ShowHit,
         ClearHits, ShowIdle

LEMMA ButtonsStep ==
  ASSUME TrainTypeOK, ButtonsHold, TrainRecogNext
  PROVE  ButtonsHold'
<1>0. /\ button \in {"none", "flag", "disable"} /\ enabled \in BOOLEAN /\ train \in BOOLEAN
      /\ fill.at \in Places3
  BY DEF TrainTypeOK
<1>1. CASE TypeLabel \/ PressCount \/ update_data_hits
  <2>1. UNCHANGED <<button, enabled, train, fill>> /\ mishaps \subseteq mishaps'
    BY <1>1 DEF TypeLabel, PressCount, update_data_hits, ShowHit, ClearReports, ClearHits, ShowIdle,
                guiVars
  <2>2. QED
    BY <2>1 DEF ButtonsHold, At
<1>2. CASE PressTrain
  BY <1>0, <1>2 DEF ButtonsHold, At, PressTrain, Act, Idle
<1>3. CASE FlagTrain
  BY <1>0, <1>3 DEF ButtonsHold, At, FlagTrain
<1>4. CASE DisableTrain
  BY <1>0, <1>4 DEF ButtonsHold, At, DisableTrain
<1>5. CASE onclick4
  BY <1>0, <1>5 DEF ButtonsHold, At, onclick4, Act, Idle, guiVars
<1>6. CASE Fill
  BY <1>0, <1>6 DEF ButtonsHold, At, Fill, GoTo, guiVars
<1>7. CASE TrainCell
  <2>1. /\ fill.at = "row" /\ fill'.at \in {"row", "count", "read"}
        /\ UNCHANGED <<button, enabled, train, mishaps>>
    BY <1>7 DEF TrainCell, At, GoTo, guiVars, TrainTypeOK
  <2>2. QED
    BY <2>1 DEF ButtonsHold, At
<1>8. CASE CountRow
  <2>1. /\ fill.at = "count" /\ fill'.at \in {"stop", "recog"}
        /\ UNCHANGED <<button, enabled, train, mishaps>>
    BY <1>8 DEF CountRow, At, GoTo, guiVars
  <2>2. QED
    BY <2>1 DEF ButtonsHold, At
<1>9. CASE StopTraining
  BY <1>0, <1>9 DEF ButtonsHold, At, StopTraining, GoTo, guiVars
<1>10. CASE EnableTrain
  BY <1>0, <1>10 DEF ButtonsHold, At, EnableTrain, GoTo
<1>11. CASE drawtrain \/ ResetCount \/ NextLabel \/ recogx
  <2>1. /\ fill.at \in {"draw", "reset", "label", "recog", "compare", "hit"}
        /\ fill'.at \in {"read", "reset", "label", "recog", "compare", "hit"}
        /\ UNCHANGED <<button, enabled, train>> /\ mishaps \subseteq mishaps'
    BY <1>11 DEF drawtrain, ResetCount, NextLabel, recogx, BeginRecog, Compare, AppendHit, At, GoTo,
                 guiVars
  <2>2. QED
    BY <2>1 DEF ButtonsHold, At
<1>12. QED
  BY <1>1, <1>2, <1>3, <1>4, <1>5, <1>6, <1>7, <1>8, <1>9, <1>10, <1>11
     DEF TrainRecogNext, onclick3, trainx

LEMMA CountStep ==
  ASSUME TrainTypeOK, ButtonsHold, CountHolds, TrainRecogNext
  PROVE  CountHolds'
<1>0. /\ button \in {"none", "flag", "disable"} /\ enabled \in BOOLEAN /\ train \in BOOLEAN
      /\ fill.at \in Places3 /\ datacnt \in Nat
      /\ CSI_TRAIN_SIZE \in Nat \ {0} /\ CSI_TRAIN_SIZE' = CSI_TRAIN_SIZE
  BY ToolStays, TrainSize DEF TrainTypeOK
<1>1. CASE TypeLabel \/ PressCount \/ update_data_hits
  <2>1. UNCHANGED <<button, enabled, fill, datacnt>> /\ mishaps \subseteq mishaps'
    BY <1>1 DEF TypeLabel, PressCount, update_data_hits, ShowHit, ClearReports, ClearHits, ShowIdle,
                guiVars, dictVars
  <2>2. QED
    BY <1>0, <2>1 DEF CountHolds, At
<1>2. CASE PressTrain \/ FlagTrain \/ DisableTrain \/ onclick4
  <2>1. /\ UNCHANGED <<fill, datacnt>> /\ mishaps \subseteq mishaps'
        /\ ~ enabled \/ button = "disable" => ~ enabled' \/ button' = "disable"
    BY <1>0, <1>2 DEF PressTrain, FlagTrain, DisableTrain, onclick4, Act, Idle, guiVars, dictVars
  <2>2. QED
    BY <1>0, <2>1 DEF CountHolds, At
<1>3. CASE Fill
  <2>1. /\ fill.at = "read" /\ fill'.at \in {"row", "recog"}
        /\ UNCHANGED <<button, enabled, datacnt, mishaps>>
    BY <1>3 DEF Fill, At, GoTo, guiVars, dictVars
  <2>2. QED
    BY <1>0, <2>1 DEF CountHolds, At
<1>4. CASE TrainCell
  <2>1. /\ fill.at = "row" /\ fill'.at \in {"row", "count", "read"}
        /\ fill'.at = "count" => datacnt < CSI_TRAIN_SIZE
        /\ UNCHANGED <<button, enabled, datacnt, mishaps>>
    BY <1>4 DEF TrainCell, At, GoTo, guiVars, TrainTypeOK
  <2>2. QED
    BY <1>0, <2>1 DEF CountHolds, At
<1>5. CASE CountRow
  <2>1. /\ fill.at = "count" /\ datacnt' = datacnt + 1
        /\ fill'.at = IF datacnt + 1 >= CSI_TRAIN_SIZE THEN "stop" ELSE "recog"
        /\ UNCHANGED <<button, enabled, mishaps>>
    BY <1>0, <1>5 DEF CountRow, At, GoTo, guiVars
  <2>2. ~ enabled \/ button = "disable"
    BY <2>1 DEF ButtonsHold
  <2>3. QED
    BY <1>0, <2>1, <2>2 DEF CountHolds, At
<1>6. CASE StopTraining \/ EnableTrain
  <2>1. /\ fill.at \in {"stop", "enable"} /\ fill'.at \in {"enable", "draw"}
        /\ UNCHANGED datacnt /\ mishaps \subseteq mishaps'
    BY <1>6 DEF StopTraining, EnableTrain, At, GoTo, dictVars
  <2>2. QED
    BY <1>0, <2>1 DEF CountHolds, At
<1>7. CASE drawtrain
  <2>1. /\ fill.at = "draw" /\ UNCHANGED <<datacnt, button, enabled>>
        /\ \/ fill'.at = "reset" /\ UNCHANGED mishaps
           \/ fill'.at = "read" /\ "lost" \in mishaps'
    BY <1>7 DEF drawtrain, At, GoTo, guiVars, dictVars
  <2>2. QED
    BY <1>0, <2>1 DEF CountHolds, At
<1>8. CASE ResetCount
  <2>1. /\ datacnt' = 0 /\ fill'.at \in {"label", "recog"} /\ UNCHANGED mishaps
    BY <1>8 DEF ResetCount, At, GoTo
  <2>2. QED
    BY <1>0, <2>1 DEF CountHolds, At
<1>9. CASE NextLabel \/ recogx
  <2>1. /\ fill.at \in {"label", "recog", "compare", "hit"}
        /\ fill'.at \in {"read", "recog", "compare", "hit"}
        /\ UNCHANGED <<datacnt, button, enabled, mishaps>>
    BY <1>9 DEF NextLabel, recogx, BeginRecog, Compare, AppendHit, At, GoTo, guiVars, dictVars
  <2>2. QED
    BY <1>0, <2>1 DEF CountHolds, At
<1>10. QED
  BY <1>1, <1>2, <1>3, <1>4, <1>5, <1>6, <1>7, <1>8, <1>9
     DEF TrainRecogNext, onclick3, trainx

(* A cell of the training is filled.                                        *)
LEMMA CellTrained ==
  ASSUME TrainTypeOK, tlabel \in DOMAIN traindict, datacnt < CSI_TRAIN_SIZE,
         traindict' = [traindict EXCEPT ![tlabel][datacnt][fill.cell] = Signal(fill.cell)]
  PROVE  /\ DOMAIN traindict' = DOMAIN traindict
         /\ traindict' \in [DOMAIN traindict -> [0..(CSI_TRAIN_SIZE - 1) -> [1..Cells -> Nat]]]
         /\ \A l \in DOMAIN traindict : l # tlabel => traindict'[l] = traindict[l]
         /\ \A r \in 0..(CSI_TRAIN_SIZE - 1) :
              r # datacnt => traindict'[tlabel][r] = traindict[tlabel][r]
         /\ \A c \in 1..Cells :
              traindict'[tlabel][datacnt][c] =
                IF c = fill.cell THEN Signal(fill.cell) ELSE traindict[tlabel][datacnt][c]
<1> DEFINE R == 0..(CSI_TRAIN_SIZE - 1)
           C == 1..Cells
           row == [traindict[tlabel][datacnt] EXCEPT ![fill.cell] = Signal(fill.cell)]
           rows == [traindict[tlabel] EXCEPT ![datacnt] = row]
<1>1. /\ traindict \in [DOMAIN traindict -> [R -> [C -> Nat]]] /\ datacnt \in R
      /\ Signal(fill.cell) \in Nat /\ fill.cell \in C
  BY TrainSize DEF TrainTypeOK, Signal
<1>2. traindict' = [traindict EXCEPT ![tlabel] = rows]
  OBVIOUS
<1> HIDE DEF R, C
<1>3. traindict[tlabel] \in [R -> [C -> Nat]]
  BY <1>1
<1>4. traindict[tlabel][datacnt] \in [C -> Nat]
  BY <1>1, <1>3
<1>5. /\ row \in [C -> Nat]
      /\ \A c \in C : row[c] = IF c = fill.cell THEN Signal(fill.cell) ELSE traindict[tlabel][datacnt][c]
  BY <1>1, <1>4
<1> HIDE DEF row
<1>6. /\ rows \in [R -> [C -> Nat]] /\ rows[datacnt] = row
      /\ \A r \in R : r # datacnt => rows[r] = traindict[tlabel][r]
  BY <1>1, <1>3, <1>5
<1> HIDE DEF rows
<1>7. /\ DOMAIN traindict' = DOMAIN traindict
      /\ traindict' \in [DOMAIN traindict -> [R -> [C -> Nat]]] /\ traindict'[tlabel] = rows
      /\ \A l \in DOMAIN traindict : l # tlabel => traindict'[l] = traindict[l]
  BY <1>1, <1>2, <1>6
<1>8. QED
  BY <1>5, <1>6, <1>7 DEF R, C

(* The rows of a label are allocated.                                       *)
LEMMA RowsAllocated ==
  ASSUME TrainTypeOK,
         traindict' = [l \in DOMAIN traindict \cup {tlabel} |->
                         IF l = tlabel THEN ZeroRows ELSE traindict[l]]
  PROVE  /\ DOMAIN traindict' = DOMAIN traindict \cup {tlabel}
         /\ traindict' \in [DOMAIN traindict' -> [0..(CSI_TRAIN_SIZE - 1) -> [1..Cells -> Nat]]]
         /\ \A l \in DOMAIN traindict : l # tlabel => traindict'[l] = traindict[l]
<1> DEFINE T == [0..(CSI_TRAIN_SIZE - 1) -> [1..Cells -> Nat]]
<1>1. ZeroRows \in T
  BY DEF ZeroRows
<1>2. traindict \in [DOMAIN traindict -> T]
  BY DEF TrainTypeOK
<1> HIDE DEF T
<1>3. DOMAIN traindict' = DOMAIN traindict \cup {tlabel}
  OBVIOUS
<1>4. \A l \in DOMAIN traindict : l # tlabel => traindict'[l] = traindict[l]
  OBVIOUS
<1>5. traindict' \in [DOMAIN traindict \cup {tlabel} -> T]
  BY <1>1, <1>2
<1>6. QED
  BY <1>3, <1>4, <1>5 DEF T

(* What a step does to the label, the session and the labels that are done.  *)
LEMMA LabelSet ==
  ASSUME TrainTypeOK, NEW STATE t, t \in Nat, SetLabel(t)
  PROVE  /\ tlabel' \in Nat /\ session' \in [label : Nat, clean : BOOLEAN]
         /\ session'.label = session.label
         /\ session'.clean => session.clean
         /\ session'.clean /\ Training => tlabel' = tlabel
<1> DEFINE clean == session.clean /\ ~ (Training /\ t # tlabel)
<1>1. session' = [session EXCEPT !.clean = clean] /\ tlabel' = t
  BY DEF SetLabel
<1>2. session \in [label : Nat, clean : BOOLEAN]
  BY DEF TrainTypeOK
<1>3. clean \in BOOLEAN
  BY DEF Training
<1> HIDE DEF clean
<1>4. /\ session' \in [label : Nat, clean : BOOLEAN]
      /\ session'.label = session.label /\ session'.clean = clean
  BY <1>1, <1>2, <1>3
<1>5. QED
  BY <1>1, <1>4 DEF clean

LEMMA CountedUp ==
  ASSUME TrainTypeOK, onclick3a
  PROVE  \E t \in Nat : SetLabel(t)
  BY DEF onclick3a, TrainTypeOK

LEMMA TrainTypeStep ==
  ASSUME TrainTypeOK, TrainRecogNext
  PROVE  TrainTypeOK'
<1>1. trainTool' = trainTool /\ CSI_TRAIN_SIZE' = CSI_TRAIN_SIZE
  BY ToolStays, TrainSize
<1>2. /\ acts \in Nat /\ trainTool \in {"org", "low", "3d"}
      /\ button \in {"none", "flag", "disable"} /\ enabled \in BOOLEAN /\ tlabel \in Nat
      /\ train \in BOOLEAN /\ recog \in BOOLEAN /\ datacnt \in Nat /\ frameNo \in Nat
      /\ column \in [1..Cells -> Nat]
      /\ fill \in [at : Places3, cell : 1..Cells]
      /\ session \in [label : Nat, clean : BOOLEAN]
      /\ mishaps \subseteq {"cancelled", "raced", "lost", "crossed"}
  BY DEF TrainTypeOK
<1> DEFINE Dict == /\ DOMAIN traindict \subseteq Nat
                   /\ traindict \in [DOMAIN traindict -> [0..(CSI_TRAIN_SIZE - 1) -> [1..Cells -> Nat]]]
<1>3. Dict
  BY DEF TrainTypeOK
<1>4. UNCHANGED traindict => Dict'
  BY <1>1, <1>3
<1> HIDE DEF Dict
<1> DEFINE Rest == /\ acts \in Nat /\ tlabel \in Nat
                   /\ button \in {"none", "flag", "disable"} /\ enabled \in BOOLEAN
                   /\ train \in BOOLEAN /\ recog \in BOOLEAN /\ datacnt \in Nat /\ frameNo \in Nat
                   /\ column \in [1..Cells -> Nat]
                   /\ fill \in [at : Places3, cell : 1..Cells]
                   /\ session \in [label : Nat, clean : BOOLEAN]
                   /\ mishaps \subseteq {"cancelled", "raced", "lost", "crossed"}
<1>5. ASSUME Dict', Rest' PROVE TrainTypeOK'
  BY <1>1, <1>2, <1>5 DEF TrainTypeOK, Dict
<1>6. CASE TypeLabel \/ PressCount
  <2>1. PICK t \in Nat : SetLabel(t)
    BY <1>6, CountedUp, TrainAssumption DEF TypeLabel, PressCount, TrainAssumption
  <2>2. tlabel' \in Nat /\ session' \in [label : Nat, clean : BOOLEAN]
    BY <2>1, LabelSet
  <2>3. /\ acts' = acts + 1
        /\ UNCHANGED <<button, enabled, train, recog, traindict, datacnt, frameNo, column, fill, mishaps>>
    BY <1>6 DEF TypeLabel, PressCount, Act, frameVars
  <2>4. QED
    BY <1>2, <1>4, <1>5, <2>2, <2>3
<1>7. CASE PressTrain
  <2>1. /\ traindict' = [l \in DOMAIN traindict \cup {tlabel} |->
                           IF l = tlabel THEN ZeroRows ELSE traindict[l]]
        /\ session' = [label |-> tlabel, clean |-> TRUE]
    BY <1>7 DEF PressTrain
  <2>2. Dict'
    BY <1>1, <1>2, <1>3, <2>1, RowsAllocated DEF Dict
  <2>3. Rest'
    BY <1>2, <1>7, <2>1 DEF PressTrain, Act, frameVars
  <2>4. QED
    BY <1>5, <2>2, <2>3
<1>8. CASE FlagTrain \/ DisableTrain \/ onclick4 \/ Fill \/ StopTraining \/ EnableTrain \/ drawtrain
  <2>1. fill' \in [at : Places3, cell : 1..Cells]
    <3>1. CASE FlagTrain \/ DisableTrain \/ onclick4
      BY <1>2, <3>1 DEF FlagTrain, DisableTrain, onclick4
    <3>2. CASE Fill \/ StopTraining \/ EnableTrain \/ drawtrain
      BY <3>2, Goes DEF Fill, StopTraining, EnableTrain, drawtrain, Places3
    <3>3. QED
      BY <1>8, <3>1, <3>2
  <2>2. Dict'
    BY <1>4, <1>8 DEF FlagTrain, DisableTrain, onclick4, Fill, StopTraining, EnableTrain, drawtrain,
                      dictVars
  <2>0. frameNo' \in Nat /\ column' \in [1..Cells -> Nat]
    <3>1. CASE Fill
      <4>1. PICK wide \in BOOLEAN :
              column' = [c \in 1..Cells |-> IF c <= ShortCells \/ wide THEN frameNo' ELSE column[c]]
        BY <3>1 DEF Fill
      <4>2. frameNo' \in Nat
        BY <1>2, <3>1 DEF Fill
      <4>3. QED
        BY <1>2, <4>1, <4>2
    <3>2. CASE ~ Fill
      BY <1>2, <1>8, <3>2 DEF FlagTrain, DisableTrain, onclick4, StopTraining, EnableTrain, drawtrain,
                              frameVars
    <3>3. QED
      BY <3>1, <3>2
  <2>3. /\ UNCHANGED <<tlabel, datacnt, session>>
        /\ acts' = acts \/ acts' = acts + 1
        /\ button' \in {"none", "disable"} \/ UNCHANGED button
        /\ mishaps' \subseteq mishaps \cup {"cancelled", "raced", "lost"}
    BY <1>8 DEF FlagTrain, DisableTrain, onclick4, Act, Fill, StopTraining, EnableTrain, drawtrain,
                dictVars, guiVars
  <2>4. enabled' \in BOOLEAN /\ train' \in BOOLEAN /\ recog' \in BOOLEAN
    BY <1>2, <1>8, Zenon DEF FlagTrain, DisableTrain, onclick4, Fill, StopTraining, EnableTrain,
                             drawtrain, guiVars
  <2>5. QED
    BY <1>2, <1>5, <2>0, <2>1, <2>2, <2>3, <2>4
<1>9. CASE TrainCell
  <2>1. /\ fill.at = "row"
        /\ UNCHANGED <<acts, button, enabled, tlabel, train, recog, datacnt, session, frameNo, column,
                      mishaps>>
    BY <1>9 DEF TrainCell, At, guiVars, frameVars
  <2>2. CASE tlabel \in DOMAIN traindict /\ datacnt < CSI_TRAIN_SIZE
    <3>1. traindict' = [traindict EXCEPT ![tlabel][datacnt][fill.cell] = Signal(fill.cell)]
      BY <1>9, <2>2 DEF TrainCell
    <3>2. Dict'
      BY <1>1, <1>3, <2>2, <3>1, CellTrained DEF Dict
    <3>3. CASE fill.cell < SignalCells
      <4>1. fill' = [fill EXCEPT !.cell = fill.cell + 1]
        BY <1>9, <2>2, <3>3 DEF TrainCell
      <4>2. fill' \in [at : Places3, cell : 1..Cells]
        BY <1>2, <3>3, <4>1, TrainSize DEF SignalCells
      <4>3. QED
        BY <1>2, <1>5, <2>1, <3>2, <4>2
    <3>4. CASE ~ (fill.cell < SignalCells)
      <4>1. fill' \in [at : Places3, cell : 1..Cells]
        BY <1>9, <2>2, <3>4, Goes DEF TrainCell, Places3
      <4>2. QED
        BY <1>2, <1>5, <2>1, <3>2, <4>1
    <3>5. QED
      BY <3>3, <3>4
  <2>3. CASE ~ (tlabel \in DOMAIN traindict /\ datacnt < CSI_TRAIN_SIZE)
    <3>1. fill' \in [at : Places3, cell : 1..Cells] /\ Dict'
      BY <1>4, <1>9, <2>3, Goes DEF TrainCell, Places3
    <3>2. QED
      BY <1>2, <1>5, <2>1, <3>1
  <2>4. QED
    BY <2>2, <2>3
<1>10. CASE CountRow
  <2>1. /\ fill' \in [at : Places3, cell : 1..Cells] /\ datacnt' = datacnt + 1
        /\ UNCHANGED <<acts, button, enabled, tlabel, train, recog, traindict, session, frameNo, column,
                      mishaps>>
    BY <1>10, Goes DEF CountRow, guiVars, frameVars, Places3
  <2>2. QED
    BY <1>2, <1>4, <1>5, <2>1
<1>11. CASE ResetCount
  <2>1. /\ fill' \in [at : Places3, cell : 1..Cells] /\ datacnt' = 0
        /\ UNCHANGED <<acts, button, enabled, tlabel, train, recog, traindict, session, frameNo, column,
                      mishaps>>
    BY <1>11, Goes DEF ResetCount, guiVars, frameVars, Places3
  <2>2. QED
    BY <1>2, <1>4, <1>5, <2>1
<1>12. CASE NextLabel
  <2>1. PICK t \in Nat : SetLabel(t)
    BY <1>12, CountedUp DEF NextLabel
  <2>2. tlabel' \in Nat /\ session' \in [label : Nat, clean : BOOLEAN]
    BY <2>1, LabelSet
  <2>3. /\ fill' \in [at : Places3, cell : 1..Cells]
        /\ UNCHANGED <<acts, button, enabled, train, recog, traindict, datacnt, frameNo, column, mishaps>>
    BY <1>12, Goes DEF NextLabel, frameVars, Places3
  <2>4. QED
    BY <1>2, <1>4, <1>5, <2>2, <2>3
<1>13. CASE recogx
  <2>1. /\ fill' \in [at : Places3, cell : 1..Cells]
        /\ UNCHANGED <<acts, button, enabled, tlabel, train, recog, traindict, datacnt, session, frameNo, column,
                      mishaps>>
    BY <1>13, Goes DEF recogx, BeginRecog, Compare, AppendHit, guiVars, dictVars, frameVars, Places3
  <2>2. QED
    BY <1>2, <1>4, <1>5, <2>1
<1>14. CASE update_data_hits
  <2>1. /\ UNCHANGED <<acts, button, enabled, tlabel, train, recog, traindict, datacnt, session, frameNo, column,
                      fill>>
        /\ mishaps' \subseteq mishaps \cup {"crossed"}
    BY <1>14 DEF update_data_hits, ShowHit, ClearReports, ClearHits, ShowIdle, guiVars, dictVars,
                 frameVars
  <2>2. QED
    BY <1>2, <1>4, <1>5, <2>1
<1>15. QED
  BY <1>6, <1>7, <1>8, <1>9, <1>10, <1>11, <1>12, <1>13, <1>14
     DEF TrainRecogNext, onclick3, trainx

LEMMA SessionStays ==
  ASSUME SessionHolds, session' = session, tlabel' = tlabel,
         done' \subseteq done, DOMAIN traindict \subseteq DOMAIN traindict',
         Unfinished' => Unfinished,
         (train \/ At("row") \/ button # "none")' => (train \/ At("row") \/ button # "none")
  PROVE  SessionHolds'
  BY DEF SessionHolds

LEMMA SessionStep ==
  ASSUME TrainTypeOK, ButtonsHold, CountHolds, SessionHolds, TrainRecogNext
  PROVE  SessionHolds'
<1>0. fill.at \in Places3
  BY DEF TrainTypeOK
<1>1. CASE TypeLabel \/ PressCount \/ NextLabel
  <2>1. PICK t \in Nat : SetLabel(t)
    BY <1>1, CountedUp, TrainAssumption DEF TypeLabel, PressCount, NextLabel, TrainAssumption
  <2>2. /\ session'.label = session.label
        /\ session'.clean => session.clean
        /\ session'.clean /\ Training => tlabel' = tlabel
    BY <2>1, LabelSet
  <2>3. UNCHANGED <<button, train, traindict, done>>
    BY <1>1 DEF TypeLabel, PressCount, NextLabel
  <2>4. fill' = fill \/ (fill.at = "label" /\ fill'.at = "recog")
    BY <1>1 DEF TypeLabel, PressCount, NextLabel, At, GoTo
  <2>5. Unfinished' <=> Unfinished
    BY <2>3, <2>4 DEF Unfinished, AtRow, At
  <2>6. (train \/ At("row") \/ button # "none")' =>
          (train \/ At("row") \/ button # "none") /\ Training
    BY <2>3, <2>4 DEF At, Training
  <2>7. QED
    BY <2>2, <2>3, <2>5, <2>6 DEF SessionHolds
<1>2. CASE PressTrain
  <2>1. /\ DOMAIN traindict' = DOMAIN traindict \cup {tlabel}
        /\ done' = done \ {tlabel} /\ session'.label = tlabel /\ tlabel' = tlabel
    BY <1>2 DEF PressTrain
  <2>2. QED
    BY <2>1 DEF SessionHolds
<1>3. CASE FlagTrain
  <2>1. /\ UNCHANGED <<session, tlabel, traindict, done, fill>>
        /\ button = "flag"
    BY <1>3 DEF FlagTrain, dictVars
  <2>2. Unfinished
    BY <2>1 DEF Unfinished
  <2>3. QED
    BY <2>1, <2>2, SessionStays
<1>4. CASE DisableTrain \/ onclick4
  <2>1. /\ UNCHANGED <<session, tlabel, traindict, done, fill>>
        /\ train' => train
        /\ button' = button \/ button' = "none"
    BY <1>4 DEF DisableTrain, onclick4, dictVars, guiVars
  <2>2. Unfinished' => Unfinished
    BY <2>1 DEF Unfinished, AtRow, At
  <2>3. QED
    BY <2>1, <2>2, SessionStays DEF At
<1>5. CASE Fill
  <2>1. /\ UNCHANGED <<session, tlabel, traindict, done, train, button>>
        /\ fill.at = "read" /\ fill'.at = IF train THEN "row" ELSE "recog"
    BY <1>5 DEF Fill, At, GoTo, guiVars, dictVars
  <2>2. Unfinished' => Unfinished
    BY <2>1 DEF Unfinished, AtRow, At
  <2>3. QED
    BY <2>1, <2>2, SessionStays DEF At
<1>6. CASE TrainCell
  <2>1. /\ UNCHANGED <<session, tlabel, train, button>>
        /\ fill.at = "row"
    BY <1>6 DEF TrainCell, At, guiVars
  <2>2. /\ DOMAIN traindict' = DOMAIN traindict /\ done' \subseteq done
    <3>1. CASE tlabel \in DOMAIN traindict /\ datacnt < CSI_TRAIN_SIZE
      BY <1>6, <3>1, CellTrained DEF TrainCell
    <3>2. CASE ~ (tlabel \in DOMAIN traindict /\ datacnt < CSI_TRAIN_SIZE)
      BY <1>6, <3>2 DEF TrainCell
    <3>3. QED
      BY <3>1, <3>2
  <2>3. Unfinished
    BY <2>1 DEF Unfinished, AtRow
  <2>4. QED
    BY <2>1, <2>2, <2>3, SessionStays DEF At
<1>7. CASE CountRow
  <2>1. /\ UNCHANGED <<session, tlabel, traindict, train, button>>
        /\ fill.at = "count" /\ fill'.at \in {"stop", "recog"}
        /\ done' \subseteq done \cup {session.label}
        /\ fill'.at = "recog" => done' = done
    BY <1>7 DEF CountRow, At, GoTo, guiVars
  <2>2. Unfinished
    BY <2>1 DEF Unfinished, AtRow
  <2>3. CASE fill'.at = "recog"
    BY <2>1, <2>2, <2>3, SessionStays DEF At
  <2>4. CASE fill'.at = "stop"
    <3>1. button # "flag"
      BY <2>1 DEF ButtonsHold
    <3>2. ~ Unfinished'
      BY <2>1, <2>4, <3>1 DEF Unfinished, AtRow, At
    <3>3. QED
      BY <2>1, <2>2, <2>4, <3>2 DEF SessionHolds, At
  <2>5. QED
    BY <2>1, <2>3, <2>4
<1>8. CASE StopTraining \/ EnableTrain \/ drawtrain \/ ResetCount \/ recogx \/ update_data_hits
  <2>1. UNCHANGED <<session, tlabel, traindict, done, button>>
    BY <1>8 DEF StopTraining, EnableTrain, drawtrain, ResetCount, recogx, BeginRecog, Compare, AppendHit,
                update_data_hits, ShowHit, ClearHits, ShowIdle, guiVars, dictVars
  <2>2. /\ train' => train
        /\ \/ UNCHANGED <<fill, train>>
           \/ fill.at = "stop" /\ fill'.at = "enable" /\ ~ train'
           \/ /\ fill.at \in {"enable", "draw", "reset", "recog", "compare", "hit"}
              /\ fill'.at \notin {"row", "count", "stop"}
    BY <1>8 DEF StopTraining, EnableTrain, drawtrain, ResetCount, recogx, BeginRecog, Compare, AppendHit,
                update_data_hits, ShowHit, ClearHits, ShowIdle, guiVars, dictVars, At, GoTo
  <2>3. Unfinished' => Unfinished
    BY <2>1, <2>2 DEF Unfinished, AtRow, At
  <2>4. (train \/ At("row") \/ button # "none")' => (train \/ At("row") \/ button # "none")
    BY <2>1, <2>2 DEF At
  <2>5. QED
    BY <2>1, <2>3, <2>4, SessionStays
<1>9. QED
  BY <1>1, <1>2, <1>3, <1>4, <1>5, <1>6, <1>7, <1>8
     DEF TrainRecogNext, onclick3, trainx

-----------------------------------------------------------------------------
(* TrainRecog: the frames and the array.                                     *)

(* What a step does to them.                                                *)
LEMMA FrameStep ==
  ASSUME TrainRecogNext
  PROVE  \/ UNCHANGED <<frameNo, column, wides>>
         \/ /\ fill.at = "read" /\ fill'.at # "count" /\ fill'.cell = 1
            /\ frameNo' = frameNo + 1
            /\ \E wide \in BOOLEAN :
                 /\ wides' = IF wide THEN wides \cup {frameNo'} ELSE wides
                 /\ column' = [c \in 1..Cells |-> IF c <= ShortCells \/ wide THEN frameNo' ELSE column[c]]
<1>1. CASE Fill
  BY <1>1 DEF Fill, At, GoTo
<1>2. CASE ~ Fill
  BY <1>2 DEF TrainRecogNext, TypeLabel, PressCount, onclick3, PressTrain, FlagTrain, DisableTrain,
              onclick4, trainx, TrainCell, CountRow, StopTraining, EnableTrain, drawtrain, ResetCount,
              NextLabel, recogx, BeginRecog, Compare, AppendHit, update_data_hits, ShowHit, ClearHits,
              ShowIdle, frameVars
<1>3. QED
  BY <1>1, <1>2

(* The frames up to one that was read stay as they were.                     *)
LEMMA WidesStay ==
  ASSUME TrainTypeOK, ColumnHolds, TrainRecogNext,
         NEW frame \in Nat, frame <= frameNo
  PROVE  /\ {n \in wides' : n <= frame} = {n \in wides : n <= frame}
         /\ frame \in wides' <=> frame \in wides
         /\ frameNo' \in Nat /\ frameNo <= frameNo'
<1>1. frameNo \in Nat /\ wides \subseteq 1..frameNo
  BY DEF TrainTypeOK, ColumnHolds
<1>2. CASE UNCHANGED <<frameNo, column, wides>>
  BY <1>1, <1>2
<1>3. CASE frameNo' = frameNo + 1 /\ (wides' = wides \/ wides' = wides \cup {frameNo + 1})
  <2>1. ~ (frameNo + 1 <= frame) /\ frame # frameNo + 1
    BY <1>1
  <2>2. {n \in wides' : n <= frame} = {n \in wides : n <= frame}
    BY <1>3, <2>1
  <2>3. QED
    BY <1>1, <1>3, <2>1, <2>2
<1>4. QED
  BY <1>2, <1>3, FrameStep

LEMMA FrameCellStays ==
  ASSUME TrainTypeOK, ColumnHolds, TrainRecogNext,
         NEW frame \in Nat, frame <= frameNo, NEW c \in 1..Cells
  PROVE  FrameCell(frame, c)' = FrameCell(frame, c)
<1>1. /\ {n \in wides' : n <= frame} = {n \in wides : n <= frame}
      /\ frame \in wides' <=> frame \in wides
      /\ trainTool' = trainTool
  BY WidesStay, ToolStays
<1>2. LatestWide(frame)' = LatestWide(frame)
  BY <1>1 DEF LatestWide
<1>3. QED
  BY <1>1, <1>2 DEF FrameCell

(* The latest long frame, before and after one more frame.                   *)
LEMMA LatestWideStep ==
  ASSUME NEW n \in Nat, NEW W \in SUBSET (1..n)
  PROVE  /\ {k \in W : k <= n + 1} = {k \in W : k <= n}
         /\ Max({k \in W \cup {n + 1} : k <= n + 1} \cup {0}) = n + 1
<1>0. \A k \in W : k \in Nat /\ k <= n /\ k <= n + 1 /\ n + 1 >= k
  <2> SUFFICES ASSUME NEW k \in W PROVE k \in Nat /\ k <= n /\ k <= n + 1 /\ n + 1 >= k
    OBVIOUS
  <2>1. k \in 1..n
    OBVIOUS
  <2>2. QED
    BY <2>1
<1>1. {k \in W : k <= n + 1} = {k \in W : k <= n}
  BY <1>0
<1> DEFINE S == {k \in W \cup {n + 1} : k <= n + 1} \cup {0}
<1>2. n + 1 \in S /\ S \subseteq Nat /\ \A k \in S : n + 1 >= k
  <2>1. n + 1 \in S
    OBVIOUS
  <2>2. \A k \in S : k \in W \/ k = n + 1 \/ k = 0
    OBVIOUS
  <2> HIDE DEF S
  <2>3. ASSUME NEW k \in S PROVE k \in Nat /\ n + 1 >= k
    <3>1. CASE k \in W
      BY <1>0, <3>1
    <3>2. CASE k = n + 1 \/ k = 0
      BY <3>2
    <3>3. QED
      BY <2>2, <3>1, <3>2
  <2>4. QED
    BY <2>1, <2>3
<1> HIDE DEF S
<1>3. \A x \in S : (\A k \in S : x >= k) => x = n + 1
  <2> SUFFICES ASSUME NEW x \in S, \A k \in S : x >= k PROVE x = n + 1
    OBVIOUS
  <2>1. x \in Nat /\ x >= n + 1 /\ n + 1 >= x
    BY <1>2
  <2>2. QED
    BY <2>1
<1>4. \E x \in S : \A k \in S : x >= k
  BY <1>2
<1>5. Max(S) \in S /\ \A k \in S : Max(S) >= k
  BY <1>4 DEF Max
<1>6. Max(S) = n + 1
  BY <1>3, <1>5
<1>7. QED
  BY <1>1, <1>6 DEF S

LEMMA ColumnStep ==
  ASSUME TrainTypeOK, ColumnHolds, TrainRecogNext
  PROVE  ColumnHolds'
<1>1. /\ frameNo \in Nat /\ wides \in SUBSET (1..frameNo) /\ trainTool' = trainTool
      /\ ShortCells \in 1..Cells /\ Cells \in Nat \ {0}
      /\ fill \in [at : Places3, cell : 1..Cells]
  BY ToolStays, TrainSize DEF TrainTypeOK, ColumnHolds
<1>2. CASE UNCHANGED <<frameNo, column, wides>>
  <2>1. /\ wides' \subseteq 1..frameNo'
        /\ \A c \in 1..Cells :
             column'[c] = IF c <= ShortCells THEN frameNo' ELSE LatestWide(frameNo)'
        /\ SignalCells' = SignalCells
    BY <1>1, <1>2 DEF ColumnHolds, LatestWide, SignalCells
  <2>2. ASSUME fill'.at = "row" PROVE fill'.cell <= SignalCells
    <3>1. CASE fill' = fill
      BY <2>2, <3>1 DEF ColumnHolds, At
    <3>2. CASE fill' # fill
      <4>1. Fill \/ TrainCell
        BY <2>2, <3>2 DEF TrainRecogNext, TypeLabel, PressCount, onclick3, PressTrain, FlagTrain,
              DisableTrain, onclick4, trainx, CountRow, StopTraining, EnableTrain, drawtrain,
              ResetCount, NextLabel, recogx, BeginRecog, Compare, AppendHit, update_data_hits, ShowHit,
              ClearHits, ShowIdle, GoTo
      <4>2. TrainCell
        BY <1>1, <1>2, <4>1 DEF Fill
      <4>3. fill.cell < SignalCells /\ fill' = [fill EXCEPT !.cell = fill.cell + 1]
        BY <2>2, <4>2 DEF TrainCell, GoTo
      <4>4. QED
        BY <1>1, <4>3 DEF SignalCells
    <3>3. QED
      BY <3>1, <3>2
  <2>3. QED
    BY <2>1, <2>2 DEF ColumnHolds, At
<1>3. ASSUME NEW wide \in BOOLEAN,
             fill'.cell = 1, frameNo' = frameNo + 1,
             wides' = IF wide THEN wides \cup {frameNo'} ELSE wides,
             column' = [c \in 1..Cells |-> IF c <= ShortCells \/ wide THEN frameNo' ELSE column[c]]
      PROVE  ColumnHolds'
  <2>1. /\ {k \in wides : k <= frameNo + 1} = {k \in wides : k <= frameNo}
        /\ Max({k \in wides \cup {frameNo + 1} : k <= frameNo + 1} \cup {0}) = frameNo + 1
    BY <1>1, LatestWideStep
  <2>2. LatestWide(frameNo)' = IF wide THEN frameNo + 1 ELSE LatestWide(frameNo)
    <3>1. LatestWide(frameNo)' = Max({k \in wides' : k <= frameNo + 1} \cup {0})
      BY <1>3 DEF LatestWide
    <3>2. QED
      BY <1>3, <2>1, <3>1 DEF LatestWide
  <2>3. wides' \subseteq 1..frameNo'
    BY <1>1, <1>3
  <2>4. \A c \in 1..Cells : column'[c] = IF c <= ShortCells THEN frameNo' ELSE LatestWide(frameNo)'
    BY <1>3, <2>2 DEF ColumnHolds
  <2>5. fill'.cell <= SignalCells'
    BY <1>1, <1>3 DEF SignalCells
  <2>6. QED
    BY <2>3, <2>4, <2>5 DEF ColumnHolds
<1>4. QED
  BY <1>2, <1>3, FrameStep

(* A frame fills its cells of the row, ...                                  *)
LEMMA SignalOfFrame ==
  ASSUME TrainTypeOK, ColumnHolds, NEW c \in 1..Cells, c <= SignalCells
  PROVE  Signal(c) = FrameCell(frameNo, c)
<1>1. ShortCells \in 1..Cells /\ Cells \in Nat
  BY TrainSize
<1>2. CASE trainTool = "low"
  BY <1>2 DEF Signal, FrameCell, ColumnHolds
<1>3. CASE trainTool # "low"
  <2>1. c <= ShortCells \/ frameNo \in wides
    BY <1>3 DEF SignalCells
  <2>2. QED
    BY <1>3, <2>1 DEF Signal, FrameCell
<1>4. QED
  BY <1>2, <1>3

(* ... and those that it does not fill it leaves zero.                       *)
LEMMA NoSignal ==
  ASSUME NEW c \in 1..Cells, ~ (c <= SignalCells)
  PROVE  FrameCell(frameNo, c) = 0
<1>1. ShortCells \in 1..Cells /\ Cells \in Nat
  BY TrainSize
<1>2. ~ (trainTool = "low" \/ frameNo \in wides)
  BY <1>1 DEF SignalCells
<1>3. ~ (c <= ShortCells)
  BY <1>2 DEF SignalCells
<1>4. QED
  BY <1>2, <1>3 DEF FrameCell

-----------------------------------------------------------------------------
(* TrainRecog: the rows.                                                     *)

(* The row that is being counted is whole.                                   *)
LEMMA RowInWork ==
  ASSUME TrainTypeOK, CountHolds, RowsSoFar, ZerosAhead, At("count"), session.clean
  PROVE  /\ datacnt \in 0..(CSI_TRAIN_SIZE - 1) /\ datacnt < frameNo
         /\ \A r \in 0..(datacnt - 1), c \in 1..Cells :
              traindict[session.label][r][c] = FrameCell(frameNo - (datacnt - r), c)
         /\ \A c \in 1..Cells : traindict[session.label][datacnt][c] = FrameCell(frameNo, c)
<1>1. /\ datacnt \in 0..(CSI_TRAIN_SIZE - 1) /\ datacnt < CSI_TRAIN_SIZE
      /\ RowFrame = frameNo /\ AtRow /\ Unfinished
  BY TrainSize DEF TrainTypeOK, CountHolds, RowFrame, Unfinished, AtRow, At
<1>2. /\ datacnt < frameNo
      /\ \A r \in 0..(datacnt - 1), c \in 1..Cells :
           traindict[session.label][r][c] = FrameCell(frameNo - (datacnt - r), c)
      /\ \A c \in 1..Cells : Written(c) => traindict[session.label][datacnt][c] = FrameCell(frameNo, c)
  BY <1>1 DEF RowsSoFar
<1>3. ASSUME NEW c \in 1..Cells
      PROVE  traindict[session.label][datacnt][c] = FrameCell(frameNo, c)
  <2>1. CASE c <= SignalCells
    BY <1>2, <2>1 DEF Written
  <2>2. CASE ~ (c <= SignalCells)
    <3>1. Ahead(datacnt, c)
      BY <2>2 DEF Ahead, Written, At
    <3>2. traindict[session.label][datacnt][c] = 0
      BY <1>1, <3>1 DEF ZerosAhead
    <3>3. QED
      BY <2>2, <3>2, NoSignal
  <2>3. QED
    BY <2>1, <2>2
<1>4. QED
  BY <1>1, <1>2, <1>3

(* The session's last row completes its label.                              *)
LEMMA LastRowCompletes ==
  ASSUME TrainTypeOK, CountHolds, RowsSoFar, ZerosAhead, At("count"), session.clean,
         datacnt + 1 >= CSI_TRAIN_SIZE
  PROVE  RowsWhole(CSI_TRAIN_SIZE, traindict[session.label])
<1> DEFINE rows == traindict[session.label]
<1>1. /\ CSI_TRAIN_SIZE \in Nat \ {0} /\ Cells \in Nat \ {0} /\ ShortCells \in 1..Cells
      /\ datacnt \in Nat /\ frameNo \in Nat /\ datacnt = CSI_TRAIN_SIZE - 1
  BY TrainSize DEF TrainTypeOK, CountHolds
<1>3. /\ datacnt < frameNo
      /\ \A r \in 0..(datacnt - 1), c \in 1..Cells : rows[r][c] = FrameCell(frameNo - (datacnt - r), c)
      /\ \A c \in 1..Cells : rows[datacnt][c] = FrameCell(frameNo, c)
  BY RowInWork
<1> HIDE DEF rows
<1>4. \A r \in 0..(CSI_TRAIN_SIZE - 1), c \in 1..Cells : rows[r][c] = FrameCell((frameNo - datacnt) + r, c)
  <2> SUFFICES ASSUME NEW r \in 0..(CSI_TRAIN_SIZE - 1), NEW c \in 1..Cells
               PROVE  rows[r][c] = FrameCell((frameNo - datacnt) + r, c)
    OBVIOUS
  <2>1. CASE r = datacnt
    <3>1. (frameNo - datacnt) + r = frameNo
      BY <1>1, <2>1
    <3>2. QED
      BY <1>3, <2>1, <3>1
  <2>2. CASE r # datacnt
    <3>1. r \in 0..(datacnt - 1) /\ frameNo - (datacnt - r) = (frameNo - datacnt) + r
      BY <1>1, <2>2
    <3>2. rows[r][c] = FrameCell(frameNo - (datacnt - r), c)
      BY <1>3, <3>1
    <3>3. QED
      BY <3>1, <3>2
  <2>3. QED
    BY <2>1, <2>2
<1>5. rows[0][1] = frameNo - datacnt
  <2>1. rows[0][1] = FrameCell((frameNo - datacnt) + 0, 1)
    BY <1>1, <1>4
  <2>2. QED
    BY <1>1, <2>1 DEF FrameCell
<1>6. rows[0][1] > 0 /\ rows[0][1] + (CSI_TRAIN_SIZE - 1) <= frameNo
  BY <1>1, <1>3, <1>5
<1>7. QED
  BY <1>4, <1>5, <1>6 DEF RowsWhole, rows

(* A label that is done keeps its rows.                                     *)
LEMMA RowsWholeStay ==
  ASSUME TrainTypeOK, ColumnHolds, TrainRecogNext, NEW rows, NEW size \in Nat \ {0},
         rows[0][1] \in Nat, RowsWhole(size, rows)
  PROVE  RowsWhole(size, rows)'
<1>1. frameNo \in Nat /\ frameNo' \in Nat /\ frameNo <= frameNo'
  BY WidesStay DEF TrainTypeOK
<1>2. /\ rows[0][1] > 0 /\ rows[0][1] + (size - 1) <= frameNo
      /\ \A r \in 0..(size - 1), c \in 1..Cells : rows[r][c] = FrameCell(rows[0][1] + r, c)
  BY DEF RowsWhole
<1>3. rows[0][1] + (size - 1) <= frameNo'
  BY <1>1, <1>2
<1>4. ASSUME NEW r \in 0..(size - 1), NEW c \in 1..Cells
      PROVE  rows[r][c] = FrameCell(rows[0][1] + r, c)'
  <2>1. rows[0][1] + r \in Nat /\ rows[0][1] + r <= frameNo
    BY <1>1, <1>2
  <2>2. PICK frame \in Nat : frame = rows[0][1] + r /\ frame <= frameNo
    BY <2>1
  <2>3. FrameCell(frame, c)' = FrameCell(frame, c)
    BY <2>2, FrameCellStays
  <2>4. QED
    BY <1>2, <2>2, <2>3
<1>5. QED
  BY <1>2, <1>3, <1>4 DEF RowsWhole

LEMMA DoneStep ==
  ASSUME TrainTypeOK, CountHolds, SessionHolds, ColumnHolds, RowsSoFar, ZerosAhead, DoneWhole,
         TrainRecogNext
  PROVE  DoneWhole'
<1>1. /\ done \subseteq DOMAIN traindict
      /\ CSI_TRAIN_SIZE' = CSI_TRAIN_SIZE /\ CSI_TRAIN_SIZE \in Nat \ {0} /\ Cells \in Nat \ {0}
      /\ traindict \in [DOMAIN traindict -> [0..(CSI_TRAIN_SIZE - 1) -> [1..Cells -> Nat]]]
  BY ToolStays, TrainSize DEF SessionHolds, TrainTypeOK
<1>2. ASSUME NEW l \in DOMAIN traindict, RowsWhole(CSI_TRAIN_SIZE, traindict[l]),
             traindict'[l] = traindict[l]
      PROVE  RowsWhole(CSI_TRAIN_SIZE, traindict[l])'
  <2>1. PICK rows, size : rows = traindict[l] /\ size = CSI_TRAIN_SIZE
    OBVIOUS
  <2>2. size \in Nat \ {0} /\ rows[0][1] \in Nat
    <3>1. rows \in [0..(CSI_TRAIN_SIZE - 1) -> [1..Cells -> Nat]]
      BY <1>1, <2>1
    <3>2. 0 \in 0..(CSI_TRAIN_SIZE - 1) /\ 1 \in 1..Cells
      BY <1>1
    <3>3. QED
      BY <1>1, <2>1, <3>1, <3>2
  <2>3. RowsWhole(size, rows)'
    BY <1>2, <2>1, <2>2, RowsWholeStay
  <2>4. QED
    BY <1>1, <1>2, <2>1, <2>3
<1>3. ASSUME \A l \in done' : /\ l \in DOMAIN traindict /\ traindict'[l] = traindict[l]
                              /\ RowsWhole(CSI_TRAIN_SIZE, traindict[l])
      PROVE  DoneWhole'
  BY <1>2, <1>3 DEF DoneWhole
<1>4. \A l \in done : l \in DOMAIN traindict /\ RowsWhole(CSI_TRAIN_SIZE, traindict[l])
  BY <1>1 DEF DoneWhole
<1>5. ASSUME \A l \in done' : l \in done /\ traindict'[l] = traindict[l]
      PROVE  DoneWhole'
  BY <1>3, <1>4, <1>5
<1>6. CASE PressTrain
  <2>1. /\ traindict' = [l \in DOMAIN traindict \cup {tlabel} |->
                           IF l = tlabel THEN ZeroRows ELSE traindict[l]]
        /\ done' = done \ {tlabel}
    BY <1>6 DEF PressTrain
  <2>2. QED
    BY <1>1, <1>5, <2>1, RowsAllocated
<1>7. CASE TrainCell
  <2>1. CASE tlabel \in DOMAIN traindict /\ datacnt < CSI_TRAIN_SIZE
    <3>1. /\ traindict' = [traindict EXCEPT ![tlabel][datacnt][fill.cell] = Signal(fill.cell)]
          /\ done' = IF tlabel = session.label THEN done ELSE done \ {tlabel}
      BY <1>7, <2>1 DEF TrainCell
    <3>2. session.label \notin done
      BY <1>7 DEF SessionHolds, Unfinished, AtRow, TrainCell, At
    <3>3. tlabel \notin done' /\ done' \subseteq done
      BY <3>1, <3>2
    <3>4. QED
      BY <1>1, <1>5, <2>1, <3>1, <3>3, CellTrained
  <2>2. CASE ~ (tlabel \in DOMAIN traindict /\ datacnt < CSI_TRAIN_SIZE)
    BY <1>5, <1>7, <2>2 DEF TrainCell
  <2>3. QED
    BY <2>1, <2>2
<1>8. CASE CountRow
  <2>1. /\ At("count") /\ traindict' = traindict
        /\ \/ done' = done
           \/ /\ datacnt + 1 >= CSI_TRAIN_SIZE /\ session.clean
              /\ done' = done \cup {session.label}
    BY <1>8 DEF CountRow
  <2>2. CASE done' = done
    BY <1>5, <2>1, <2>2
  <2>3. CASE datacnt + 1 >= CSI_TRAIN_SIZE /\ session.clean /\ done' = done \cup {session.label}
    <3>1. RowsWhole(CSI_TRAIN_SIZE, traindict[session.label])
      BY <2>1, <2>3, LastRowCompletes
    <3>2. session.label \in DOMAIN traindict
      BY <2>1 DEF SessionHolds, Unfinished, AtRow, At
    <3>3. QED
      BY <1>3, <1>4, <2>1, <2>3, <3>1, <3>2
  <2>4. QED
    BY <2>1, <2>2, <2>3
<1>9. CASE \/ TypeLabel \/ PressCount \/ NextLabel \/ FlagTrain \/ DisableTrain \/ onclick4 \/ Fill
           \/ StopTraining \/ EnableTrain \/ drawtrain \/ ResetCount \/ recogx \/ update_data_hits
  <2>1. UNCHANGED <<traindict, done>>
    BY <1>9 DEF TypeLabel, PressCount, NextLabel, FlagTrain, DisableTrain, onclick4, Fill, StopTraining,
                EnableTrain, drawtrain, ResetCount, recogx, BeginRecog, Compare, AppendHit,
                update_data_hits, ShowHit, ClearHits, ShowIdle, dictVars
  <2>2. QED
    BY <1>5, <2>1
<1>10. QED
  BY <1>6, <1>7, <1>8, <1>9 DEF TrainRecogNext, onclick3, trainx

(* The rows that the session has filled, when nothing happens to them.       *)
LEMMA RowsKept ==
  ASSUME TrainTypeOK, ColumnHolds, TrainRecogNext,
         RowsSoFar, UNCHANGED <<datacnt, traindict>>,
         session'.label = session.label, session'.clean => session.clean,
         (train \/ AtRow)' => train \/ AtRow,
         RowFrame' = RowFrame,
         \/ UNCHANGED <<fill, wides, frameNo>>
         \/ fill'.at \notin {"row", "count"}
         \/ fill'.at = "row" /\ fill'.cell = 1
  PROVE  RowsSoFar'
<1>1. /\ CSI_TRAIN_SIZE' = CSI_TRAIN_SIZE /\ trainTool' = trainTool
      /\ datacnt \in Nat /\ frameNo \in Nat /\ Cells \in Nat
  BY TrainSize, ToolStays DEF TrainTypeOK
<1> SUFFICES ASSUME session'.clean, (train \/ AtRow)', datacnt < CSI_TRAIN_SIZE
             PROVE  /\ datacnt < RowFrame
                    /\ \A r \in 0..(datacnt - 1), c \in 1..Cells :
                         traindict[session.label][r][c] = FrameCell(RowFrame - (datacnt - r), c)'
                    /\ \A c \in 1..Cells : Written(c)' =>
                         traindict[session.label][datacnt][c] = FrameCell(RowFrame, c)'
  BY <1>1 DEF RowsSoFar
<1>2. /\ datacnt < RowFrame
      /\ \A r \in 0..(datacnt - 1), c \in 1..Cells :
           traindict[session.label][r][c] = FrameCell(RowFrame - (datacnt - r), c)
      /\ \A c \in 1..Cells : Written(c) => traindict[session.label][datacnt][c] = FrameCell(RowFrame, c)
  BY DEF RowsSoFar
<1>3. RowFrame \in {frameNo, frameNo + 1}
  BY DEF RowFrame
<1>4. ASSUME NEW r \in 0..(datacnt - 1), NEW c \in 1..Cells
      PROVE  traindict[session.label][r][c] = FrameCell(RowFrame - (datacnt - r), c)'
  <2>1. RowFrame - (datacnt - r) \in Nat /\ RowFrame - (datacnt - r) <= frameNo
    BY <1>1, <1>2, <1>3
  <2>2. PICK frame \in Nat : frame = RowFrame - (datacnt - r) /\ frame <= frameNo
    BY <2>1
  <2>3. FrameCell(frame, c)' = FrameCell(frame, c)
    BY <2>2, FrameCellStays
  <2>4. (RowFrame - (datacnt - r))' = frame
    BY <2>2
  <2>5. FrameCell(RowFrame - (datacnt - r), c)' = FrameCell(frame, c)'
    BY <2>4
  <2>6. QED
    BY <1>2, <2>2, <2>3, <2>5
<1>5. ASSUME NEW c \in 1..Cells, Written(c)'
      PROVE  traindict[session.label][datacnt][c] = FrameCell(RowFrame, c)'
  <2>1. fill'.at = "count" \/ (fill'.at = "row" /\ c < fill'.cell)
    BY <1>5 DEF At, Written
  <2>2. UNCHANGED <<fill, wides, frameNo>>
    BY <2>1
  <2>3. Written(c)
    BY <1>1, <1>5, <2>2 DEF At, Written, SignalCells
  <2>4. FrameCell(RowFrame, c)' = FrameCell(RowFrame, c)
    BY <1>1, <2>2 DEF FrameCell, LatestWide
  <2>5. QED
    BY <1>2, <2>3, <2>4
<1>6. QED
  BY <1>2, <1>4, <1>5

(* A cell of the row in work is filled.                                     *)
LEMMA TrainCellRows ==
  ASSUME TrainTypeOK, SessionHolds, ColumnHolds, RowsSoFar, TrainCell
  PROVE  RowsSoFar'
<1>1. /\ fill.at = "row" /\ fill \in [at : Places3, cell : 1..Cells] /\ fill.cell <= SignalCells
      /\ frameNo \in Nat /\ datacnt \in Nat
      /\ UNCHANGED <<trainTool, datacnt, session, frameNo, wides, train, tlabel>>
      /\ CSI_TRAIN_SIZE' = CSI_TRAIN_SIZE /\ CSI_TRAIN_SIZE \in Nat \ {0} /\ Cells \in Nat \ {0}
  BY TrainSize DEF TrainCell, At, guiVars, frameVars, TrainTypeOK, ColumnHolds
<1> SUFFICES ASSUME session.clean, datacnt < CSI_TRAIN_SIZE
             PROVE  RowsSoFar'
  BY <1>1 DEF RowsSoFar
<1> DEFINE S == session.label
<1>2. AtRow /\ RowFrame = frameNo
  BY <1>1 DEF RowFrame, AtRow
<1>3. tlabel = S /\ S \in DOMAIN traindict
  BY <1>1, <1>2 DEF SessionHolds, Unfinished, At
<1>4. /\ datacnt < frameNo
      /\ \A r \in 0..(datacnt - 1), c \in 1..Cells :
           traindict[S][r][c] = FrameCell(frameNo - (datacnt - r), c)
      /\ \A c \in 1..Cells : c < fill.cell => traindict[S][datacnt][c] = FrameCell(frameNo, c)
  BY <1>1, <1>2 DEF RowsSoFar, Written, At
<1>5. traindict' = [traindict EXCEPT ![tlabel][datacnt][fill.cell] = Signal(fill.cell)]
  BY <1>3 DEF TrainCell
<1>6. fill' = IF fill.cell < SignalCells THEN [fill EXCEPT !.cell = fill.cell + 1]
              ELSE [at |-> "count", cell |-> 1]
  BY <1>3 DEF TrainCell, GoTo
<1>7. /\ \A r \in 0..(CSI_TRAIN_SIZE - 1) : r # datacnt => traindict'[S][r] = traindict[S][r]
      /\ \A c \in 1..Cells :
           traindict'[S][datacnt][c] =
             IF c = fill.cell THEN Signal(fill.cell) ELSE traindict[S][datacnt][c]
  BY <1>3, <1>5, CellTrained
<1>8. SignalCells' = SignalCells /\ SignalCells \in Nat
  BY <1>1, TrainSize DEF SignalCells
<1>9. \A frame, c : FrameCell(frame, c)' = FrameCell(frame, c)
  BY <1>1 DEF FrameCell, LatestWide
<1>10. fill'.at \in {"row", "count"} /\ RowFrame' = frameNo
  BY <1>1, <1>6 DEF RowFrame, AtRow
<1>11. ASSUME NEW r \in 0..(datacnt - 1), NEW c \in 1..Cells
       PROVE  traindict'[S][r][c] = FrameCell(frameNo - (datacnt - r), c)
  <2>1. r \in 0..(CSI_TRAIN_SIZE - 1) /\ r # datacnt
    BY <1>1
  <2>2. QED
    BY <1>4, <1>7, <2>1
<1>12. \A c \in 1..Cells : c <= fill.cell => traindict'[S][datacnt][c] = FrameCell(frameNo, c)
  <2> SUFFICES ASSUME NEW c \in 1..Cells, c <= fill.cell
               PROVE  traindict'[S][datacnt][c] = FrameCell(frameNo, c)
    OBVIOUS
  <2>1. CASE c = fill.cell
    BY <1>1, <1>7, <2>1, SignalOfFrame
  <2>2. CASE c # fill.cell
    <3>1. c < fill.cell
      BY <1>1, <2>2
    <3>2. QED
      BY <1>4, <1>7, <2>2, <3>1
  <2>3. QED
    BY <2>1, <2>2
<1>13. \A c \in 1..Cells : Written(c)' => c <= fill.cell
  <2>1. CASE fill.cell < SignalCells
    <3>1. fill'.cell = fill.cell + 1 /\ fill'.at = "row"
      BY <1>1, <1>6, <2>1
    <3>2. QED
      BY <1>1, <3>1 DEF Written, At
  <2>2. CASE ~ (fill.cell < SignalCells)
    <3>1. fill'.at = "count" /\ fill.cell = SignalCells
      BY <1>1, <1>6, <1>8, <2>2
    <3>2. QED
      BY <1>8, <3>1 DEF Written, At
  <2>3. QED
    BY <2>1, <2>2
<1>14. QED
  <2>1. \A r \in 0..(datacnt - 1), c \in 1..Cells :
          traindict'[S][r][c] = FrameCell(RowFrame - (datacnt - r), c)'
    BY <1>1, <1>9, <1>10, <1>11
  <2>2. \A c \in 1..Cells : Written(c)' => traindict'[S][datacnt][c] = FrameCell(RowFrame, c)'
    BY <1>9, <1>10, <1>12, <1>13
  <2>3. QED
    BY <1>1, <1>4, <1>10, <2>1, <2>2 DEF RowsSoFar

(* The row is complete.                                                     *)
LEMMA CountRowRows ==
  ASSUME TrainTypeOK, CountHolds, RowsSoFar, ZerosAhead, CountRow
  PROVE  RowsSoFar'
<1>1. /\ fill.at = "count" /\ frameNo \in Nat /\ datacnt \in Nat /\ datacnt' = datacnt + 1
      /\ fill'.at = IF datacnt + 1 >= CSI_TRAIN_SIZE THEN "stop" ELSE "recog"
      /\ UNCHANGED <<trainTool, traindict, session, frameNo, wides>>
      /\ CSI_TRAIN_SIZE' = CSI_TRAIN_SIZE /\ CSI_TRAIN_SIZE \in Nat \ {0}
      /\ datacnt < CSI_TRAIN_SIZE
  BY TrainSize DEF CountRow, At, GoTo, TrainTypeOK, CountHolds, frameVars
<1> SUFFICES ASSUME session.clean, datacnt + 1 < CSI_TRAIN_SIZE
             PROVE  RowsSoFar'
  BY <1>1 DEF RowsSoFar
<1>2. fill'.at = "recog" /\ RowFrame' = frameNo + 1 /\ \A c : ~ Written(c)'
  BY <1>1 DEF RowFrame, AtRow, Written, At
<1>3. /\ datacnt < frameNo
      /\ \A r \in 0..(datacnt - 1), c \in 1..Cells :
           traindict[session.label][r][c] = FrameCell(frameNo - (datacnt - r), c)
      /\ \A c \in 1..Cells : traindict[session.label][datacnt][c] = FrameCell(frameNo, c)
  BY <1>1, RowInWork DEF At
<1>4. ASSUME NEW r \in 0..datacnt, NEW c \in 1..Cells
      PROVE  traindict[session.label][r][c] = FrameCell((frameNo + 1) - ((datacnt + 1) - r), c)
  <2>1. CASE r = datacnt
    <3>1. (frameNo + 1) - ((datacnt + 1) - r) = frameNo
      BY <1>1, <2>1
    <3>2. QED
      BY <1>3, <2>1, <3>1
  <2>2. CASE r # datacnt
    <3>1. r \in 0..(datacnt - 1) /\ (frameNo + 1) - ((datacnt + 1) - r) = frameNo - (datacnt - r)
      BY <1>1, <2>2
    <3>2. traindict[session.label][r][c] = FrameCell(frameNo - (datacnt - r), c)
      BY <1>3, <3>1
    <3>3. QED
      BY <3>1, <3>2
  <2>3. QED
    BY <2>1, <2>2
<1>5. 0..(datacnt' - 1) = 0..datacnt /\ datacnt' < frameNo + 1
  BY <1>1, <1>3
<1>6. \A frame, c : FrameCell(frame, c)' = FrameCell(frame, c)
  BY <1>1 DEF FrameCell, LatestWide
<1>7. \A r \in 0..(datacnt' - 1), c \in 1..Cells :
        traindict'[session'.label][r][c] = FrameCell(RowFrame - (datacnt - r), c)'
  BY <1>1, <1>2, <1>4, <1>5, <1>6
<1>8. QED
  BY <1>1, <1>2, <1>5, <1>7 DEF RowsSoFar

LEMMA RowsStep ==
  ASSUME TrainTypeOK, ButtonsHold, CountHolds, SessionHolds, ColumnHolds, RowsSoFar, ZerosAhead,
         TrainRecogNext
  PROVE  RowsSoFar'
<1>0. /\ frameNo \in Nat /\ datacnt \in Nat
      /\ UNCHANGED trainTool /\ CSI_TRAIN_SIZE' = CSI_TRAIN_SIZE /\ CSI_TRAIN_SIZE \in Nat \ {0}
  BY ToolStays, TrainSize DEF TrainTypeOK
<1>1. CASE TypeLabel \/ PressCount \/ NextLabel
  <2>1. PICK t \in Nat : SetLabel(t)
    BY <1>1, CountedUp, TrainAssumption DEF TypeLabel, PressCount, NextLabel, TrainAssumption
  <2>2. session'.label = session.label /\ (session'.clean => session.clean)
    BY <2>1, LabelSet
  <2>3. /\ UNCHANGED <<train, traindict, datacnt, frameNo, wides>>
        /\ fill' = fill \/ (fill.at = "label" /\ fill'.at = "recog")
    BY <1>1 DEF TypeLabel, PressCount, NextLabel, At, GoTo, frameVars
  <2>4. RowFrame' = RowFrame /\ ((train \/ AtRow)' => train \/ AtRow)
    BY <2>3 DEF RowFrame, AtRow
  <2>5. QED
    BY <2>2, <2>3, <2>4, RowsKept
<1>2. CASE PressTrain
  <2>1. enabled /\ button = "none" /\ UNCHANGED <<train, fill>>
    BY <1>2 DEF PressTrain, Act, Idle
  <2>2. ~ train /\ fill.at \notin {"row", "count"}
    BY <2>1 DEF ButtonsHold
  <2>3. ~ (train \/ AtRow)'
    BY <2>1, <2>2 DEF AtRow
  <2>4. QED
    BY <2>3 DEF RowsSoFar
<1>3. CASE FlagTrain
  <2>1. button = "flag" /\ UNCHANGED <<fill, datacnt, traindict, session, frameNo>>
    BY <1>3 DEF FlagTrain, dictVars, frameVars
  <2>2. enabled /\ fill.at \notin {"row", "count"}
    BY <2>1 DEF ButtonsHold
  <2>3. datacnt = 0 \/ datacnt >= CSI_TRAIN_SIZE
    BY <1>0, <2>1, <2>2 DEF CountHolds
  <2>4. RowFrame' = frameNo + 1 /\ \A c : ~ Written(c)'
    BY <2>1, <2>2 DEF RowFrame, AtRow, Written, At
  <2>5. QED
    BY <1>0, <2>1, <2>3, <2>4 DEF RowsSoFar
<1>4. CASE Fill
  <2>1. /\ fill.at = "read" /\ frameNo' = frameNo + 1
        /\ fill'.at = IF train THEN "row" ELSE "recog"
        /\ fill'.cell = 1
        /\ UNCHANGED <<train, datacnt, traindict, session>>
    BY <1>4 DEF Fill, At, GoTo, dictVars
  <2>2. (train \/ AtRow)' => train
    BY <2>1 DEF AtRow
  <2>3. CASE train
    <3>1. RowFrame' = RowFrame
      BY <2>1, <2>3 DEF RowFrame, AtRow
    <3>2. QED
      BY <2>1, <2>3, <3>1, RowsKept
  <2>4. CASE ~ train
    BY <2>2, <2>4 DEF RowsSoFar
  <2>5. QED
    BY <2>3, <2>4
<1>5. CASE ResetCount
  <2>1. /\ datacnt' = 0 /\ fill'.at \in {"label", "recog"}
        /\ UNCHANGED frameNo
    BY <1>5 DEF ResetCount, At, GoTo, frameVars
  <2>2. RowFrame' = frameNo + 1 /\ \A c : ~ Written(c)'
    BY <2>1 DEF RowFrame, AtRow, Written, At
  <2>3. QED
    BY <1>0, <2>1, <2>2 DEF RowsSoFar
<1>6. CASE \/ DisableTrain \/ onclick4 \/ StopTraining \/ EnableTrain \/ drawtrain \/ recogx
           \/ update_data_hits
  <2>1. UNCHANGED <<datacnt, traindict, session, frameNo, wides>>
    BY <1>6 DEF DisableTrain, onclick4, StopTraining, EnableTrain, drawtrain, recogx, BeginRecog,
                Compare, AppendHit, update_data_hits, ShowHit, ClearHits, ShowIdle, dictVars, frameVars
  <2>2. /\ train' => train
        /\ \/ UNCHANGED fill
           \/ fill.at \notin {"row", "count"} /\ fill'.at \notin {"row", "count"}
    BY <1>6 DEF DisableTrain, onclick4, StopTraining, EnableTrain, drawtrain, recogx, BeginRecog,
                Compare, AppendHit, update_data_hits, ShowHit, ClearHits, ShowIdle, At, GoTo
  <2>3. RowFrame' = RowFrame /\ ((train \/ AtRow)' => train \/ AtRow)
    BY <2>1, <2>2 DEF RowFrame, AtRow
  <2>4. QED
    BY <2>1, <2>2, <2>3, RowsKept
<1>7. QED
  BY <1>1, <1>2, <1>3, <1>4, <1>5, <1>6, TrainCellRows, CountRowRows
     DEF TrainRecogNext, onclick3, trainx

(* The cells that are not filled, when nothing happens to them.              *)
LEMMA ZerosKept ==
  ASSUME TrainTypeOK, ZerosAhead, CSI_TRAIN_SIZE' = CSI_TRAIN_SIZE, UNCHANGED traindict,
         session'.label = session.label, session'.clean => session.clean,
         Unfinished' => Unfinished,
         \A r \in 0..(CSI_TRAIN_SIZE - 1), c \in 1..Cells : Ahead(r, c)' => Ahead(r, c)
  PROVE  ZerosAhead'
  BY DEF ZerosAhead

LEMMA ZerosStep ==
  ASSUME TrainTypeOK, ButtonsHold, CountHolds, SessionHolds, ColumnHolds, ZerosAhead, TrainRecogNext
  PROVE  ZerosAhead'
<1>0. /\ datacnt \in Nat /\ fill \in [at : Places3, cell : 1..Cells]
      /\ UNCHANGED trainTool /\ CSI_TRAIN_SIZE' = CSI_TRAIN_SIZE /\ CSI_TRAIN_SIZE \in Nat \ {0}
      /\ Cells \in Nat \ {0}
  BY ToolStays, TrainSize DEF TrainTypeOK
<1>1. ASSUME UNCHANGED datacnt,
             \/ UNCHANGED <<fill, wides, frameNo>>
             \/ fill.at \notin {"row", "count"},
             NEW r, NEW c, Ahead(r, c)'
      PROVE  Ahead(r, c)
  <2>1. CASE UNCHANGED <<fill, wides, frameNo>>
    BY <1>0, <1>1, <2>1 DEF Ahead, Written, SignalCells, At
  <2>2. CASE fill.at \notin {"row", "count"}
    BY <1>0, <1>1, <2>2 DEF Ahead, Written, At
  <2>3. QED
    BY <1>1, <2>1, <2>2
<1>2. CASE TypeLabel \/ PressCount \/ NextLabel
  <2>1. PICK t \in Nat : SetLabel(t)
    BY <1>2, CountedUp, TrainAssumption DEF TypeLabel, PressCount, NextLabel, TrainAssumption
  <2>2. session'.label = session.label /\ (session'.clean => session.clean)
    BY <2>1, LabelSet
  <2>3. /\ UNCHANGED <<train, button, traindict, datacnt, frameNo, wides>>
        /\ fill' = fill \/ (fill.at = "label" /\ fill'.at = "recog")
    BY <1>2 DEF TypeLabel, PressCount, NextLabel, At, GoTo, frameVars
  <2>4. Unfinished' => Unfinished
    BY <2>3 DEF Unfinished, AtRow, At
  <2>5. QED
    BY <1>0, <1>1, <2>2, <2>3, <2>4, ZerosKept
<1>3. CASE PressTrain
  <2>1. /\ session'.label = tlabel
        /\ traindict' = [l \in DOMAIN traindict \cup {tlabel} |->
                           IF l = tlabel THEN ZeroRows ELSE traindict[l]]
    BY <1>3 DEF PressTrain
  <2>2. traindict'[tlabel] = ZeroRows
    BY <2>1
  <2>3. \A r \in 0..(CSI_TRAIN_SIZE - 1), c \in 1..Cells : ZeroRows[r][c] = 0
    BY DEF ZeroRows
  <2>4. QED
    BY <1>0, <2>1, <2>2, <2>3 DEF ZerosAhead
<1>4. CASE TrainCell
  <2>1. /\ fill.at = "row" /\ fill.cell <= SignalCells /\ SignalCells \in Nat
        /\ UNCHANGED <<datacnt, session, frameNo, wides, tlabel, train, button>>
        /\ Unfinished
    BY <1>4, TrainSize DEF TrainCell, At, guiVars, frameVars, ColumnHolds, Unfinished, AtRow, SignalCells
  <2> SUFFICES ASSUME session.clean
               PROVE  ZerosAhead'
    BY <2>1 DEF ZerosAhead
  <2> DEFINE S == session.label
  <2>2. tlabel = S /\ S \in DOMAIN traindict
    BY <2>1 DEF SessionHolds, At
  <2>3. \A r \in 0..(CSI_TRAIN_SIZE - 1), c \in 1..Cells : Ahead(r, c) => traindict[S][r][c] = 0
    BY <2>1 DEF ZerosAhead
  <2>4. SignalCells' = SignalCells
    BY <1>0, <2>1 DEF SignalCells
  <2>5. CASE datacnt < CSI_TRAIN_SIZE
    <3>1. traindict' = [traindict EXCEPT ![tlabel][datacnt][fill.cell] = Signal(fill.cell)]
      BY <1>4, <2>2, <2>5 DEF TrainCell
    <3>2. fill' = IF fill.cell < SignalCells THEN [fill EXCEPT !.cell = fill.cell + 1]
                  ELSE [at |-> "count", cell |-> 1]
      BY <1>4, <2>2, <2>5 DEF TrainCell, GoTo
    <3>3. /\ \A r \in 0..(CSI_TRAIN_SIZE - 1) : r # datacnt => traindict'[S][r] = traindict[S][r]
          /\ \A c \in 1..Cells :
               traindict'[S][datacnt][c] =
                 IF c = fill.cell THEN Signal(fill.cell) ELSE traindict[S][datacnt][c]
      BY <2>2, <2>5, <3>1, CellTrained
    <3>4. ASSUME NEW c \in 1..Cells, ~ Written(c)'
          PROVE  ~ Written(c) /\ c # fill.cell
      <4>1. CASE fill.cell < SignalCells
        <5>1. fill'.cell = fill.cell + 1 /\ fill'.at = "row"
          BY <1>0, <2>1, <3>2, <4>1
        <5>2. ~ (c < fill.cell + 1)
          BY <3>4, <5>1 DEF Written, At
        <5>3. QED
          BY <1>0, <2>1, <5>2 DEF Written, At
      <4>2. CASE ~ (fill.cell < SignalCells)
        <5>1. fill'.at = "count" /\ fill.cell = SignalCells
          BY <1>0, <2>1, <3>2, <4>2
        <5>2. ~ (c <= fill.cell)
          BY <2>4, <3>4, <5>1 DEF Written, At
        <5>3. QED
          BY <1>0, <2>1, <5>2 DEF Written, At
      <4>3. QED
        BY <4>1, <4>2
    <3>5. ASSUME NEW r \in 0..(CSI_TRAIN_SIZE - 1), NEW c \in 1..Cells, Ahead(r, c)'
          PROVE  traindict'[S][r][c] = 0
      <4>1. CASE r = datacnt
        <5>1. ~ Written(c)'
          BY <1>0, <2>1, <2>5, <3>5, <4>1 DEF Ahead
        <5>2. Ahead(r, c) /\ c # fill.cell
          BY <3>4, <4>1, <5>1 DEF Ahead
        <5>3. QED
          BY <2>3, <3>3, <4>1, <5>2
      <4>2. CASE r # datacnt
        <5>1. Ahead(r, c)
          BY <1>0, <2>1, <3>5, <4>2 DEF Ahead
        <5>2. QED
          BY <2>3, <3>3, <4>2, <5>1
      <4>3. QED
        BY <4>1, <4>2
    <3>6. QED
      BY <1>0, <2>1, <3>5 DEF ZerosAhead
  <2>6. CASE ~ (datacnt < CSI_TRAIN_SIZE)
    <3>1. traindict' = traindict
      BY <1>4, <2>6 DEF TrainCell
    <3>2. \A r, c : Ahead(r, c)
      BY <1>0, <2>6 DEF Ahead
    <3>3. QED
      BY <1>0, <2>1, <2>3, <3>1, <3>2 DEF ZerosAhead
  <2>7. QED
    BY <2>5, <2>6
<1>5. CASE CountRow
  <2>1. /\ fill.at = "count" /\ datacnt' = datacnt + 1 /\ datacnt < CSI_TRAIN_SIZE
        /\ fill'.at = IF datacnt + 1 >= CSI_TRAIN_SIZE THEN "stop" ELSE "recog"
        /\ UNCHANGED <<traindict, session, button>>
    BY <1>5 DEF CountRow, At, GoTo, CountHolds, guiVars
  <2>2. Unfinished /\ button # "flag"
    BY <2>1 DEF Unfinished, AtRow, ButtonsHold
  <2>3. CASE datacnt + 1 >= CSI_TRAIN_SIZE
    <3>1. ~ Unfinished'
      BY <2>1, <2>2, <2>3 DEF Unfinished, AtRow, At
    <3>2. QED
      BY <3>1 DEF ZerosAhead
  <2>4. CASE ~ (datacnt + 1 >= CSI_TRAIN_SIZE)
    <3>1. \A r \in 0..(CSI_TRAIN_SIZE - 1) : \A c : Ahead(r, c)' => Ahead(r, c)
      BY <1>0, <2>1, <2>4 DEF Ahead
    <3>2. QED
      BY <1>0, <2>1, <2>2, <3>1, ZerosKept
  <2>5. QED
    BY <2>3, <2>4
<1>6. CASE ResetCount
  <2>1. /\ fill.at = "reset" /\ fill'.at \in {"label", "recog"}
        /\ UNCHANGED <<traindict, session, button, train>>
    BY <1>6 DEF ResetCount, At, GoTo, guiVars
  <2>2. Unfinished' => Unfinished
    BY <2>1 DEF Unfinished, AtRow, At
  <2>3. \A r \in 0..(CSI_TRAIN_SIZE - 1) : \A c : Ahead(r, c)
    <3>1. datacnt = 0 \/ datacnt >= CSI_TRAIN_SIZE
      BY <1>0, <2>1 DEF CountHolds
    <3>2. \A c : ~ Written(c)
      BY <2>1 DEF Written, At
    <3>3. QED
      BY <1>0, <3>1, <3>2 DEF Ahead
  <2>4. QED
    BY <1>0, <2>1, <2>2, <2>3, ZerosKept
<1>7. CASE FlagTrain \/ DisableTrain \/ onclick4
  <2>1. /\ UNCHANGED <<datacnt, traindict, session, fill, wides, frameNo>>
        /\ Unfinished' => Unfinished
    BY <1>7 DEF FlagTrain, DisableTrain, onclick4, dictVars, frameVars, guiVars, Unfinished, AtRow, At
  <2>2. QED
    BY <1>0, <1>1, <2>1, ZerosKept
<1>8. CASE Fill \/ StopTraining \/ EnableTrain \/ drawtrain \/ recogx
  <2>1. /\ UNCHANGED <<datacnt, traindict, session, button>>
        /\ train' => train
        /\ fill.at \in {"read", "stop", "enable", "draw", "recog", "compare", "hit"}
        /\ fill.at \notin {"row", "count"} /\ fill'.at # "count"
        /\ fill'.at = "row" => train /\ fill.at = "read"
        /\ fill.at = "stop" => ~ train'
    <3>1. CASE Fill
      BY <3>1 DEF Fill, dictVars, guiVars, GoTo, At
    <3>2. CASE StopTraining \/ EnableTrain \/ drawtrain
      BY <3>2 DEF StopTraining, EnableTrain, drawtrain, dictVars, guiVars, GoTo, At
    <3>3. CASE recogx
      BY <3>3 DEF recogx, BeginRecog, Compare, AppendHit, dictVars, guiVars, GoTo, At
    <3>4. QED
      BY <1>8, <3>1, <3>2, <3>3
  <2>2. Unfinished' => Unfinished
    BY <2>1 DEF Unfinished, AtRow, At
  <2>3. \A r \in 0..(CSI_TRAIN_SIZE - 1), c \in 1..Cells : Ahead(r, c)' => Ahead(r, c)
    BY <1>1, <2>1
  <2>4. QED
    BY <1>0, <2>1, <2>2, <2>3, ZerosKept
<1>9. CASE update_data_hits
  <2>1. UNCHANGED <<datacnt, traindict, session, fill, wides, frameNo, button, train>>
    BY <1>9 DEF update_data_hits, ShowHit, ClearHits, ShowIdle, dictVars, frameVars, guiVars
  <2>2. Unfinished' => Unfinished
    BY <2>1 DEF Unfinished, AtRow, At
  <2>3. QED
    BY <1>0, <1>1, <2>1, <2>2, ZerosKept
<1>10. QED
  BY <1>2, <1>3, <1>4, <1>5, <1>6, <1>7, <1>8, <1>9 DEF TrainRecogNext, onclick3, trainx

-----------------------------------------------------------------------------
(* TrainRecog: the reports.                                                  *)

LEMMA FarIsNumber == Far \in Nat /\ Distances \subseteq Nat
  BY TrainAssumption, FS_CardinalityType DEF Far, TrainAssumption

(* Numbers up to a bound have a largest one.                                *)
LEMMA LargestExists ==
  ASSUME NEW n \in Nat, NEW S \in SUBSET (0..n), S # {}
  PROVE  \E x \in S : \A y \in S : y <= x
<1> DEFINE T == {n - x : x \in S}
           Less == {ss \in Nat \X Nat : ss[1] < ss[2]}
<1>1. T \subseteq Nat /\ T # {}
  <2>1. \A x \in S : n - x \in Nat
    OBVIOUS
  <2>2. PICK x \in S : TRUE
    OBVIOUS
  <2>3. n - x \in T
    OBVIOUS
  <2>4. QED
    BY <2>1, <2>3
<1>2. IsWellFoundedOn(Less, Nat)
  BY NatLessThanWellFounded DEF OpToRel
<1>3. \A x, y \in Nat : x < y => <<x, y>> \in Less
  OBVIOUS
<1> HIDE DEF T, Less
<1>4. PICK t \in T : \A u \in T : ~ (<<u, t>> \in Less)
  BY <1>1, <1>2, WFMin
<1>5. ASSUME NEW u \in T PROVE t <= u
  <2>1. t \in Nat /\ u \in Nat
    BY <1>1
  <2>2. ~ (u < t)
    BY <1>3, <1>4, <2>1
  <2>3. QED
    BY <2>1, <2>2
<1>6. PICK x \in S : t = n - x
  BY DEF T
<1>7. ASSUME NEW y \in S PROVE y <= x
  <2>1. n - y \in T
    BY DEF T
  <2>2. QED
    BY <1>5, <1>6, <2>1
<1>8. QED
  BY <1>7

(* Nothing happens to the reports.                                          *)
LEMMA ReportsStay ==
  ASSUME ReportIInv, UNCHANGED reportVars, frameNo' \in Nat,
         "crossed" \in mishaps => "crossed" \in mishaps',
         fill'.at = "hit" <=> fill.at = "hit",
         fill.at = "hit" => frameNo' = frameNo
  PROVE  ReportIInv'
<1>1. UNCHANGED <<mxx2s, hits, mxx2x, shownHit, draw>>
  BY DEF reportVars
<1>2. At("hit")' <=> At("hit")
  BY DEF At
<1>3. QED
  BY <1>1, <1>2 DEF ReportIInv, At

LEMMA ReportStep ==
  ASSUME TrainTypeOK, ReportIInv, TrainRecogNext
  PROVE  ReportIInv'
<1>0. /\ mxx2s \in Seq(Report) /\ hits \in Seq(Nat) /\ mxx2x \in Report /\ shownHit \in Nat
      /\ frameNo \in Nat /\ draw \in {"none", "clear"}
  BY DEF ReportIInv, TrainRecogNext
<1>1. CASE TypeLabel \/ PressCount \/ onclick3 \/ onclick4 \/ Fill \/ trainx \/ BeginRecog
  <2>1. UNCHANGED reportVars
    BY <1>1 DEF TypeLabel, PressCount, onclick3, PressTrain, FlagTrain, DisableTrain, onclick4, Fill,
                trainx, TrainCell, CountRow, StopTraining, EnableTrain, drawtrain, ResetCount,
                NextLabel, BeginRecog
  <2>2. "crossed" \in mishaps => "crossed" \in mishaps'
    BY <1>1 DEF TypeLabel, PressCount, onclick3, PressTrain, FlagTrain, DisableTrain, onclick4, Fill,
                trainx, TrainCell, CountRow, StopTraining, EnableTrain, drawtrain, ResetCount,
                NextLabel, BeginRecog
  <2>3. /\ frameNo' = frameNo \/ frameNo' = frameNo + 1
        /\ \/ UNCHANGED <<fill, frameNo>>
           \/ fill.at # "hit" /\ fill'.at # "hit"
    <3>1. CASE TypeLabel \/ PressCount \/ onclick3 \/ onclick4
      BY <3>1 DEF TypeLabel, PressCount, onclick3, PressTrain, FlagTrain, DisableTrain, onclick4,
                  frameVars
    <3>2. CASE Fill \/ BeginRecog
      BY <3>2 DEF Fill, BeginRecog, At, GoTo, frameVars
    <3>3. CASE TrainCell
      <4>1. fill.at = "row" /\ fill \in [at : Places3, cell : 1..Cells] /\ UNCHANGED frameNo
        BY <3>3 DEF TrainCell, At, TrainTypeOK, frameVars
      <4>2. fill' = [fill EXCEPT !.cell = @ + 1] \/ fill'.at \in {"count", "read"}
        BY <3>3 DEF TrainCell, GoTo
      <4>3. QED
        BY <4>1, <4>2
    <3>4. CASE CountRow \/ StopTraining \/ EnableTrain \/ drawtrain \/ ResetCount \/ NextLabel
      BY <3>4 DEF CountRow, StopTraining, EnableTrain, drawtrain, ResetCount, NextLabel, At, GoTo,
                  frameVars
    <3>5. QED
      BY <1>1, <3>1, <3>2, <3>3, <3>4 DEF trainx
  <2>4. QED
    BY <1>0, <2>1, <2>2, <2>3, ReportsStay
<1>2. CASE Compare
  <2>1. /\ fill.at = "compare"
        /\ UNCHANGED <<frameNo, hits, mxx2x, shownHit, draw, mishaps>>
    BY <1>2 DEF Compare, At, frameVars
  <2>2. CASE fill'.at = "read" /\ UNCHANGED mxx2s
    BY <1>0, <2>1, <2>2, ReportsStay DEF reportVars
  <2>3. CASE /\ fill'.at = "hit"
             /\ \E d \in Nat : mxx2s' = Append(mxx2s, [d |-> d, n |-> frameNo])
    <3>1. PICK d \in Nat : mxx2s' = Append(mxx2s, [d |-> d, n |-> frameNo])
      BY <2>3
    <3> DEFINE report == [d |-> d, n |-> frameNo]
    <3>2. report \in Report /\ report.n = frameNo
      BY <1>0 DEF Report
    <3> HIDE DEF report
    <3>3. /\ mxx2s' \in Seq(Report) /\ Len(mxx2s') = Len(mxx2s) + 1
          /\ \A i \in 1..Len(mxx2s) : mxx2s'[i] = mxx2s[i]
          /\ mxx2s'[Len(mxx2s')] = report
          /\ mxx2s' # << >>
      BY <1>0, <3>1, <3>2 DEF report
    <3>4. Len(mxx2s) \in Nat /\ Len(hits) \in Nat
      BY <1>0
    <3>5. CASE "crossed" \in mishaps
      BY <1>0, <2>1, <3>3, <3>5 DEF ReportIInv
    <3>6. CASE "crossed" \notin mishaps /\ draw = "clear"
      BY <1>0, <2>1, <3>3, <3>6 DEF ReportIInv
    <3>7. CASE "crossed" \notin mishaps /\ draw = "none"
      <4>1. /\ shownHit = mxx2x.n /\ Len(mxx2s) = Len(hits)
            /\ \A i \in 1..Len(hits) : mxx2s[i].n = hits[i]
        BY <2>1, <3>7 DEF ReportIInv, At
      <4>2. /\ Len(mxx2s') = Len(hits) + 1
            /\ \A i \in 1..Len(hits) : mxx2s'[i].n = hits[i]
            /\ mxx2s'[Len(mxx2s')].n = frameNo
        BY <3>2, <3>3, <3>4, <4>1
      <4>3. QED
        BY <1>0, <2>1, <2>3, <3>3, <3>7, <4>1, <4>2 DEF ReportIInv, At
    <3>8. QED
      BY <1>0, <3>5, <3>6, <3>7
  <2>4. QED
    BY <1>2, <2>2, <2>3, FarIsNumber DEF Compare, GoTo
<1>3. CASE AppendHit
  <2>1. /\ fill.at = "hit" /\ fill'.at = "read" /\ hits' = Append(hits, frameNo)
        /\ UNCHANGED <<frameNo, mxx2s, mxx2x, shownHit, draw, mishaps>>
    BY <1>3 DEF AppendHit, At, GoTo, frameVars
  <2>2. /\ hits' \in Seq(Nat) /\ Len(hits') = Len(hits) + 1 /\ Len(hits) \in Nat
        /\ \A i \in 1..Len(hits) : hits'[i] = hits[i]
        /\ hits'[Len(hits) + 1] = frameNo
    BY <1>0, <2>1
  <2>3. CASE "crossed" \in mishaps
    BY <1>0, <2>1, <2>2, <2>3 DEF ReportIInv
  <2>4. CASE "crossed" \notin mishaps /\ draw = "clear"
    BY <1>0, <2>1, <2>2, <2>4 DEF ReportIInv, At
  <2>5. CASE "crossed" \notin mishaps /\ draw = "none"
    <3>1. /\ shownHit = mxx2x.n /\ Len(mxx2s) = Len(hits) + 1
          /\ \A i \in 1..Len(hits) : mxx2s[i].n = hits[i]
          /\ mxx2s[Len(mxx2s)].n = frameNo
      BY <2>1, <2>5 DEF ReportIInv, At
    <3>2. \A i \in 1..Len(hits') : mxx2s[i].n = hits'[i]
      BY <2>2, <3>1
    <3>3. QED
      BY <1>0, <2>1, <2>2, <2>5, <3>1, <3>2 DEF ReportIInv, At
  <2>6. QED
    BY <1>0, <2>3, <2>4, <2>5
<1>4. CASE ShowHit
  <2>1. /\ UNCHANGED <<fill, frameNo, hits>> /\ draw = "none" /\ Better # {}
    BY <1>4 DEF ShowHit, Idle, ClearReports, frameVars
  <2> DEFINE i == CHOOSE k \in Better : \A j \in Better : j <= k
  <2>2. i \in Better
    <3>1. Better \in SUBSET (0..Len(mxx2s)) /\ Len(mxx2s) \in Nat
      BY <1>0 DEF Better
    <3>2. \E k \in Better : \A j \in Better : j <= k
      BY <2>1, <3>1, LargestExists
    <3>3. QED
      BY <3>2
  <2>3. IF i <= Len(hits) THEN ClearReports(i)
        ELSE draw' = "gone" /\ UNCHANGED <<mxx2s, hits, mxx2x, shownHit, mishaps>>
    BY <1>4 DEF ShowHit
  <2> HIDE DEF i
  <2>4. i \in 1..Len(mxx2s) /\ i \in Nat /\ Len(hits) \in Nat /\ Len(mxx2s) \in Nat
    BY <1>0, <2>2 DEF Better
  <2>5. CASE i <= Len(hits)
    <3>1. /\ draw' = "clear" /\ mxx2s' = << >> /\ mxx2x' = mxx2s[i] /\ shownHit' = hits[i]
          /\ mishaps' = IF At("hit") THEN mishaps \cup {"crossed"} ELSE mishaps
      BY <2>3, <2>5 DEF ClearReports
    <3>2. i \in 1..Len(hits)
      BY <2>4, <2>5
    <3>3. mxx2x' \in Report /\ shownHit' \in Nat
      BY <1>0, <2>4, <3>1, <3>2
    <3>4. "crossed" \notin mishaps => mxx2s[i].n = hits[i]
      BY <2>1, <3>2 DEF ReportIInv
    <3>5. mxx2s' \in Seq(Report)
      BY <3>1
    <3>6. QED
      BY <1>0, <2>1, <3>1, <3>3, <3>4, <3>5 DEF ReportIInv, At
  <2>6. CASE ~ (i <= Len(hits))
    <3>1. draw' = "gone" /\ UNCHANGED <<mxx2s, mxx2x, shownHit, mishaps>>
      BY <2>3, <2>6
    <3>2. "crossed" \notin mishaps => At("hit")
      BY <2>1, <2>4, <2>6 DEF ReportIInv
    <3>3. QED
      BY <1>0, <2>1, <3>1, <3>2 DEF ReportIInv, At
  <2>7. QED
    BY <2>5, <2>6
<1>5. CASE ClearHits
  <2>1. /\ draw = "clear" /\ draw' = "none" /\ hits' = << >>
        /\ mishaps' = IF mxx2s # << >> THEN mishaps \cup {"crossed"} ELSE mishaps
        /\ UNCHANGED <<fill, frameNo, mxx2s, mxx2x, shownHit>>
    BY <1>5 DEF ClearHits, frameVars
  <2>2. QED
    BY <1>0, <2>1 DEF ReportIInv, At
<1>6. CASE ShowIdle
  <2>1. /\ mxx2x' = [d |-> Far, n |-> 0] /\ shownHit' = 0
        /\ UNCHANGED <<fill, frameNo, mxx2s, hits, draw, mishaps>>
    BY <1>6 DEF ShowIdle, frameVars
  <2>2. mxx2x' \in Report /\ mxx2x'.n = 0
    BY <2>1, FarIsNumber DEF Report
  <2>3. QED
    BY <1>0, <2>1, <2>2 DEF ReportIInv, At
<1>7. QED
  BY <1>1, <1>2, <1>3, <1>4, <1>5, <1>6 DEF TrainRecogNext, recogx, update_data_hits

-----------------------------------------------------------------------------
LEMMA TrainRecogInitHolds ==
  ASSUME TrainRecogInit
  PROVE  TrainingIInv /\ ReportIInv
<1>1. /\ acts = 0 /\ trainTool \in {"org", "low", "3d"}
      /\ button = "none" /\ enabled = TRUE /\ tlabel = 1 /\ train = FALSE /\ recog = FALSE
      /\ traindict = << >> /\ datacnt = 0
      /\ frameNo = 0 /\ column = [c \in 1..Cells |-> 0] /\ wides = {}
      /\ fill = [at |-> "read", cell |-> 1]
      /\ session = [label |-> 0, clean |-> TRUE] /\ done = {} /\ mishaps = {}
      /\ mxx2s = << >> /\ hits = << >> /\ draw = "none" /\ shownHit = 0
      /\ mxx2x = [d |-> Far, n |-> 0]
  BY DEF TrainRecogInit
<1>2. DOMAIN traindict = {} /\ CSI_TRAIN_SIZE \in Nat \ {0} /\ Cells \in Nat \ {0}
  BY <1>1, TrainSize
<1>3. /\ fill.at = "read" /\ fill.cell = 1 /\ fill \in [at : Places3, cell : 1..Cells]
      /\ session \in [label : Nat, clean : BOOLEAN]
  BY <1>1, <1>2 DEF Places3
<1>4. traindict \in [DOMAIN traindict -> [0..(CSI_TRAIN_SIZE - 1) -> [1..Cells -> Nat]]]
  BY <1>1, <1>2
<1>5. TrainTypeOK
  BY <1>1, <1>2, <1>3, <1>4 DEF TrainTypeOK
<1>6. ButtonsHold
  BY <1>1, <1>3 DEF ButtonsHold, At
<1>7. CountHolds
  BY <1>1, <1>2, <1>3 DEF CountHolds, At
<1>8. SessionHolds /\ RowsSoFar /\ ZerosAhead /\ DoneWhole
  BY <1>1, <1>3 DEF SessionHolds, RowsSoFar, ZerosAhead, DoneWhole, Unfinished, AtRow, At
<1>11. ColumnHolds
  <2>1. {n \in wides : n <= 0} = {}
    BY <1>1
  <2>2. LatestWide(0) = 0
    BY <2>1 DEF LatestWide, Max
  <2>3. QED
    BY <1>1, <1>3, <2>2 DEF ColumnHolds, At
<1>9. ReportIInv
  <2>1. mxx2x \in Report /\ mxx2x.n = 0
    BY <1>1, FarIsNumber DEF Report
  <2>2. QED
    BY <1>1, <1>3, <2>1 DEF ReportIInv, At
<1>10. QED
  BY <1>5, <1>6, <1>7, <1>8, <1>9, <1>11 DEF TrainingIInv

LEMMA TrainRecogStep ==
  ASSUME TrainingIInv, ReportIInv, [TrainRecogNext]_trainRecogVars
  PROVE  TrainingIInv' /\ ReportIInv'
<1>1. CASE TrainRecogNext
  <2>1. TrainTypeOK' /\ ButtonsHold' /\ CountHolds' /\ SessionHolds' /\ ColumnHolds'
    BY <1>1, TrainTypeStep, ButtonsStep, CountStep, SessionStep, ColumnStep DEF TrainingIInv
  <2>2. RowsSoFar' /\ ZerosAhead' /\ DoneWhole'
    BY <1>1, RowsStep, ZerosStep, DoneStep DEF TrainingIInv
  <2>3. ReportIInv'
    BY <1>1, ReportStep DEF TrainingIInv
  <2>4. QED
    BY <2>1, <2>2, <2>3 DEF TrainingIInv
<1>2. CASE UNCHANGED trainRecogVars
  <2>1. UNCHANGED <<acts, trainTool, button, enabled, tlabel, train, recog, traindict, datacnt, session,
                    done, fill, frameNo, column, wides, mxx2s, hits, mxx2x, shownHit, draw, mishaps>>
    BY <1>2 DEF trainRecogVars, guiVars, dictVars, reportVars, frameVars
  <2>2. CSI_TRAIN_SIZE' = CSI_TRAIN_SIZE
    BY <2>1, TrainSize
  <2>3. TrainTypeOK'
    BY <2>1, <2>2 DEF TrainingIInv, TrainTypeOK
  <2>4. ButtonsHold' /\ CountHolds'
    BY <2>1, <2>2 DEF TrainingIInv, ButtonsHold, CountHolds, At
  <2>5. SessionHolds' /\ ColumnHolds'
    BY <2>1 DEF TrainingIInv, SessionHolds, Unfinished, AtRow, At, ColumnHolds, LatestWide, SignalCells
  <2>9. /\ \A frame, c : FrameCell(frame, c)' = FrameCell(frame, c)
        /\ \A c : Written(c)' = Written(c)
        /\ RowFrame' = RowFrame
    BY <2>1 DEF FrameCell, LatestWide, Written, SignalCells, RowFrame, AtRow, At
  <2>10. RowsSoFar'
    BY <2>1, <2>2, <2>9 DEF TrainingIInv, RowsSoFar, AtRow
  <2>11. ZerosAhead'
    BY <2>1, <2>2, <2>9 DEF TrainingIInv, ZerosAhead, Ahead, Unfinished, AtRow, At
  <2>6. DoneWhole'
    BY <2>1, <2>2, <2>9 DEF TrainingIInv, DoneWhole, RowsWhole
  <2>7. ReportIInv'
    BY <2>1 DEF ReportIInv, At
  <2>8. QED
    BY <2>3, <2>4, <2>5, <2>6, <2>7, <2>10, <2>11 DEF TrainingIInv
<1>3. QED
  BY <1>1, <1>2

LEMMA TrainRecogInvariant == TrainRecogSpec => [](TrainingIInv /\ ReportIInv)
  BY TrainRecogInitHolds, TrainRecogStep, PTL DEF TrainRecogSpec

(* The rows of a training that reached its end under one label are those of  *)
(* consecutive frames, each with what its frame and, in low, the long one     *)
(* before it left in the cells, for any number of rows and cells, whichever   *)
(* frames are short, however often a training was cancelled before and        *)
(* whenever the label was changed.                                          *)
THEOREM TrainedWholeAlways == TrainRecogSpec => []TrainedWhole
<1>1. ASSUME TrainingIInv PROVE TrainedWhole
  <2>1. \A l \in done : DOMAIN traindict[l] = 0..(CSI_TRAIN_SIZE - 1)
    BY <1>1 DEF TrainingIInv, TrainTypeOK, SessionHolds
  <2>2. \A l \in done : RowsWhole(CSI_TRAIN_SIZE, traindict[l])
    BY <1>1 DEF TrainingIInv, DoneWhole
  <2>3. QED
    BY <2>1, <2>2 DEF TrainedWhole, RowsWhole, FrameCell
<1>2. QED
  BY <1>1, TrainRecogInvariant, PTL

(* The Train button comes back after a training, except by the two ways that *)
(* ButtonsBack names, and a training has rows left to fill unless an earlier *)
(* one lost its label.                                                      *)
THEOREM ButtonsBackAlways == TrainRecogSpec => []ButtonsBack
<1>1. TrainingIInv => ButtonsBack
  <2> SUFFICES ASSUME TrainingIInv, Idle, At("read")
               PROVE  /\ enabled => ~ train
                      /\ ~ enabled /\ ~ train => mishaps \cap {"cancelled", "raced"} # {}
                      /\ train => datacnt < CSI_TRAIN_SIZE \/ "lost" \in mishaps
    BY DEF ButtonsBack
  <2>1. button = "none" /\ fill.at = "read"
    BY DEF Idle, At
  <2>2. /\ enabled => ~ train
        /\ ~ enabled /\ ~ train => mishaps \cap {"cancelled", "raced"} # {}
    BY <2>1 DEF TrainingIInv, ButtonsHold, At
  <2>3. datacnt < CSI_TRAIN_SIZE \/ "lost" \in mishaps
    BY <2>1, TrainSize DEF TrainingIInv, CountHolds, TrainTypeOK
  <2>4. QED
    BY <2>2, <2>3
<1>2. QED
  BY <1>1, TrainRecogInvariant, PTL

(* low shows the label and the distance of one report, for any number of      *)
(* reports, unless one was under way while the lists were cleared.           *)
THEOREM ReportPairedAlways == TrainRecogSpec => []ReportPaired
<1>1. ReportIInv => ReportPaired
  BY DEF ReportIInv, ReportPaired
<1>2. QED
  BY <1>1, TrainRecogInvariant, PTL
-----------------------------------------------------------------------------
(* LogWindow.                                                               *)

(* Induction up to a bound, for a property given as a set of numbers.        *)
LEMMA Climb ==
  ASSUME NEW G, NEW n \in Nat, 1 \in G,
         \A i \in 1..(n - 1) : i \in G => i + 1 \in G
  PROVE  1..n \subseteq G
<1> DEFINE Bad == {i \in 1..n : i \notin G}
           Less == {ss \in Nat \X Nat : ss[1] < ss[2]}
<1>1. SUFFICES ASSUME Bad # {}
               PROVE  FALSE
  OBVIOUS
<1>2. IsWellFoundedOn(Less, Nat)
  BY NatLessThanWellFounded DEF OpToRel
<1>3. \A x, y \in Nat : x < y => <<x, y>> \in Less
  OBVIOUS
<1>4. Bad \subseteq Nat /\ Bad # {}
  BY <1>1
<1> HIDE DEF Less
<1>5. PICK b \in Bad : \A x \in Bad : ~ (<<x, b>> \in Less)
  <2> HIDE DEF Bad
  <2>1. QED
    BY <1>2, <1>4, WFMin
<1>6. b \in 1..n /\ b # 1 /\ b \notin G
  OBVIOUS
<1>7. b - 1 \in 1..(n - 1) /\ b - 1 \in 1..n /\ (b - 1) + 1 = b
  BY <1>6
<1>8. b - 1 \in G
  <2>1. b - 1 < b /\ b - 1 \in Nat /\ b \in Nat
    BY <1>6, <1>7
  <2>2. <<b - 1, b>> \in Less
    BY <1>3, <2>1
  <2>3. b - 1 \notin Bad
    BY <1>5, <2>2
  <2>4. QED
    BY <1>7, <2>3
<1>9. QED
  BY <1>6, <1>7, <1>8

(* FlattenSeq of a queue of texts, as a function on the queue's positions.   *)
FlatTo(s, n, f) == f = [i \in 1..n |-> IF i = 1 THEN s[i] ELSE f[i - 1] \o s[i]]

LEMMA FlatExists ==
  ASSUME NEW s, NEW n \in Nat \ {0}
  PROVE  \E f : FlatTo(s, n, f)
<1> DEFINE G == {k \in Nat \ {0} : \E f : FlatTo(s, k, f)}
<1>1. 1 \in G
  <2> DEFINE f == [i \in 1..1 |-> s[i]]
  <2>1. f = [i \in 1..1 |-> IF i = 1 THEN s[i] ELSE f[i - 1] \o s[i]]
    <3>1. \A i \in 1..1 : i = 1
      OBVIOUS
    <3>2. QED
      BY <3>1
  <2>2. FlatTo(s, 1, f)
    BY <2>1 DEF FlatTo
  <2> HIDE DEF f
  <2>3. QED
    BY <2>2
<1>2. ASSUME NEW k \in 1..(n - 1), k \in G
      PROVE  k + 1 \in G
  <2>1. PICK f : FlatTo(s, k, f)
    BY <1>2
  <2> DEFINE v == f[k] \o s[k + 1]
             g == [i \in 1..(k + 1) |-> IF i = k + 1 THEN v ELSE f[i]]
  <2> HIDE DEF v
  <2>2. \A i \in 1..k : g[i] = f[i]
    OBVIOUS
  <2>3. k + 1 \in 1..(k + 1) /\ k \in 1..k /\ k + 1 # 1 /\ (k + 1) - 1 = k
    OBVIOUS
  <2>30. g[k + 1] = v
    BY <2>3
  <2>4. DOMAIN g = 1..(k + 1) /\ g = [i \in 1..(k + 1) |-> g[i]]
    OBVIOUS
  <2> HIDE DEF g
  <2>5. ASSUME NEW i \in 1..(k + 1)
        PROVE  g[i] = IF i = 1 THEN s[i] ELSE g[i - 1] \o s[i]
    <3>1. CASE i = k + 1
      <4>1. g[k + 1] = v /\ g[k] = f[k]
        BY <2>2, <2>3, <2>30
      <4>2. g[k + 1] = g[(k + 1) - 1] \o s[k + 1]
        BY <2>3, <4>1 DEF v
      <4>3. QED
        BY <2>3, <3>1, <4>2
    <3>2. CASE i # k + 1
      <4>1. i \in 1..k /\ (i # 1 => i - 1 \in 1..k)
        BY <3>2
      <4>2. f[i] = IF i = 1 THEN s[i] ELSE f[i - 1] \o s[i]
        BY <2>1, <4>1 DEF FlatTo
      <4>3. QED
        BY <2>2, <4>1, <4>2
    <3>3. QED
      BY <3>1, <3>2
  <2>6. FlatTo(s, k + 1, g)
    BY <2>4, <2>5 DEF FlatTo
  <2>7. QED
    BY <2>6
<1>3. 1..n \subseteq G
  <2> HIDE DEF G
  <2>1. QED
    BY <1>1, <1>2, Climb
<1>4. QED
  BY <1>3

(* Its value is built text by text, and is a text.                          *)
LEMMA Flat ==
  ASSUME NEW S, NEW s \in Seq(Seq(S)), s # << >>
  PROVE  \E f : /\ FlattenSeq(s) = f[Len(s)]
                /\ f[1] = s[1]
                /\ \A i \in 1..(Len(s) - 1) : f[i + 1] = f[i] \o s[i + 1]
                /\ \A i \in 1..Len(s) : f[i] \in Seq(S)
<1>1. Len(s) \in Nat \ {0}
  OBVIOUS
<1> DEFINE f == CHOOSE g : FlatTo(s, Len(s), g)
<1>2. FlattenSeq(s) = f[Len(s)]
  BY <1>1 DEF FlattenSeq, FlatTo
<1>3. FlatTo(s, Len(s), f)
  BY <1>1, FlatExists
<1> HIDE DEF f
<1>4. \A i \in 1..Len(s) : f[i] = IF i = 1 THEN s[i] ELSE f[i - 1] \o s[i]
  BY <1>3 DEF FlatTo
<1>5. f[1] = s[1] /\ s[1] \in Seq(S)
  BY <1>1, <1>4
<1>6. ASSUME NEW i \in 1..(Len(s) - 1)
      PROVE  f[i + 1] = f[i] \o s[i + 1] /\ s[i + 1] \in Seq(S)
  <2>1. i + 1 \in 1..Len(s) /\ i + 1 # 1 /\ (i + 1) - 1 = i
    BY <1>1
  <2>2. f[i + 1] = f[(i + 1) - 1] \o s[i + 1]
    BY <1>4, <2>1
  <2>3. s[i + 1] \in Seq(S)
    BY <2>1, ElementOfSeq
  <2>4. QED
    BY <2>1, <2>2, <2>3
<1> DEFINE G == {i \in Nat : f[i] \in Seq(S)}
<1>7. 1 \in G
  BY <1>5
<1>8. ASSUME NEW i \in 1..(Len(s) - 1), i \in G
      PROVE  i + 1 \in G
  <2>1. f[i] \in Seq(S) /\ s[i + 1] \in Seq(S) /\ f[i + 1] = f[i] \o s[i + 1]
    BY <1>6, <1>8
  <2>2. f[i] \o s[i + 1] \in Seq(S)
    BY <2>1, ConcatProperties
  <2>3. f[i + 1] \in Seq(S)
    BY <2>1, <2>2, Zenon
  <2>4. i + 1 \in Nat
    OBVIOUS
  <2>5. QED
    BY <2>3, <2>4
<1>9. 1..Len(s) \subseteq G
  <2> HIDE DEF G
  <2>1. QED
    BY <1>1, <1>7, <1>8, Climb
<1>10. QED
  BY <1>2, <1>5, <1>6, <1>9

LEMMA FlattenEmpty == FlattenSeq(<< >>) = << >>
BY DEF FlattenSeq

LEMMA FlattenType ==
  ASSUME NEW S, NEW s \in Seq(Seq(S))
  PROVE  FlattenSeq(s) \in Seq(S)
<1>1. CASE s = << >>
  <2>1. FlattenSeq(s) = << >>
    BY <1>1, FlattenEmpty
  <2>2. << >> \in Seq(S)
    OBVIOUS
  <2>3. QED
    BY <2>1, <2>2, Zenon
<1>2. CASE s # << >>
  <2>1. PICK f : FlattenSeq(s) = f[Len(s)] /\ \A i \in 1..Len(s) : f[i] \in Seq(S)
    BY <1>2, Flat
  <2>2. Len(s) \in 1..Len(s)
    BY <1>2
  <2>3. f[Len(s)] \in Seq(S)
    BY <2>1, <2>2, Zenon
  <2>4. QED
    BY <2>1, <2>3, Zenon
<1>3. QED
  BY <1>1, <1>2

(* A text that is put into the queue comes last.                             *)
LEMMA FlattenAppend ==
  ASSUME NEW S, NEW s \in Seq(Seq(S)), NEW e \in Seq(S)
  PROVE  FlattenSeq(Append(s, e)) = FlattenSeq(s) \o e
<1> DEFINE a == Append(s, e)
           n == Len(s)
<1>1. /\ a \in Seq(Seq(S)) /\ a # << >> /\ Len(a) = n + 1 /\ n \in Nat
      /\ \A i \in 1..n : a[i] = s[i]
      /\ a[n + 1] = e
  <2> DEFINE T == Seq(S)
  <2>1. s \in Seq(T) /\ e \in T
    OBVIOUS
  <2> HIDE DEF T
  <2>2. /\ a \in Seq(T) /\ Len(a) = n + 1 /\ n \in Nat
        /\ \A i \in 1..n : a[i] = s[i]
        /\ a[n + 1] = e
    BY <2>1
  <2>3. a # << >>
    <3>1. Len(a) # 0
      BY <2>2
    <3>2. Len(<< >>) = 0
      OBVIOUS
    <3>3. QED
      BY <3>1, <3>2, Zenon
  <2> HIDE DEF a, n
  <2>4. QED
    BY <2>2, <2>3 DEF T
<1> HIDE DEF a
<1>2. PICK g : /\ FlattenSeq(a) = g[Len(a)]
               /\ g[1] = a[1]
               /\ \A i \in 1..(Len(a) - 1) : g[i + 1] = g[i] \o a[i + 1]
  <2> HIDE DEF n
  <2>1. \E g : /\ FlattenSeq(a) = g[Len(a)]
               /\ g[1] = a[1]
               /\ \A i \in 1..(Len(a) - 1) : g[i + 1] = g[i] \o a[i + 1]
               /\ \A i \in 1..Len(a) : g[i] \in Seq(S)
    BY <1>1, Flat
  <2>2. QED
    BY <2>1
<1>3. CASE s = << >>
  <2>1. n = 0 /\ FlattenSeq(s) = << >>
    BY <1>3, FlattenEmpty
  <2>2. FlattenSeq(a) = e
    BY <1>1, <1>2, <2>1
  <2>3. QED
    BY <2>1, <2>2 DEF a
<1>4. CASE s # << >>
  <2>1. PICK f : /\ FlattenSeq(s) = f[n]
                 /\ f[1] = s[1]
                 /\ \A i \in 1..(n - 1) : f[i + 1] = f[i] \o s[i + 1]
    BY <1>4, Flat
  <2>2. n > 0 /\ 1 \in 1..n /\ n \in 1..n
    BY <1>1, <1>4
  <2> DEFINE G == {i \in Nat : g[i] = f[i]}
  <2>3. 1 \in G
    BY <1>1, <1>2, <2>1, <2>2
  <2>4. ASSUME NEW i \in 1..(n - 1), i \in G
        PROVE  i + 1 \in G
    <3>1. i \in 1..(Len(a) - 1) /\ i + 1 \in 1..n
      BY <1>1
    <3>2. g[i + 1] = g[i] \o a[i + 1] /\ f[i + 1] = f[i] \o s[i + 1]
      BY <1>2, <2>1, <2>4, <3>1
    <3>3. a[i + 1] = s[i + 1]
      BY <1>1, <3>1
    <3>4. g[i] = f[i]
      BY <2>4
    <3>5. g[i + 1] = f[i + 1]
      BY <3>2, <3>3, <3>4
    <3>6. i + 1 \in Nat
      OBVIOUS
    <3>7. QED
      BY <3>5, <3>6
  <2>5. 1..n \subseteq G
    <3> HIDE DEF G
    <3>1. QED
      BY <1>1, <2>3, <2>4, Climb
  <2>6. g[n] = f[n]
    BY <2>2, <2>5
  <2>7. n \in 1..(Len(a) - 1)
    BY <1>1, <2>2
  <2>8. FlattenSeq(a) = g[n] \o e
    BY <1>1, <1>2, <2>7
  <2>9. QED
    BY <2>1, <2>6, <2>8 DEF a
<1>5. QED
  BY <1>3, <1>4

(* The text that is taken from the queue came first.                         *)
LEMMA FlattenHead ==
  ASSUME NEW S, NEW s \in Seq(Seq(S)), s # << >>
  PROVE  FlattenSeq(s) = Head(s) \o FlattenSeq(Tail(s))
<1> DEFINE t == Tail(s)
           n == Len(s)
<1>1. /\ t \in Seq(Seq(S)) /\ Len(t) = n - 1 /\ n \in Nat /\ n > 0
      /\ \A i \in 1..(n - 1) : t[i] = s[i + 1]
      /\ Head(s) = s[1] /\ s[1] \in Seq(S)
  OBVIOUS
<1> HIDE DEF t
<1>2. PICK f : /\ FlattenSeq(s) = f[n]
               /\ f[1] = s[1]
               /\ \A i \in 1..(n - 1) : f[i + 1] = f[i] \o s[i + 1]
  BY Flat
<1>3. CASE t = << >>
  <2>1. n = 1 /\ FlattenSeq(t) = << >>
    BY <1>1, <1>3, FlattenEmpty
  <2>2. FlattenSeq(s) = s[1]
    BY <1>2, <2>1
  <2>3. QED
    BY <1>1, <2>1, <2>2 DEF t
<1>4. CASE t # << >>
  <2>1. PICK h : /\ FlattenSeq(t) = h[Len(t)]
                 /\ h[1] = t[1]
                 /\ \A i \in 1..(Len(t) - 1) : h[i + 1] = h[i] \o t[i + 1]
                 /\ \A i \in 1..Len(t) : h[i] \in Seq(S)
    BY <1>1, <1>4, Flat
  <2>2. n - 1 > 0 /\ 1 \in 1..(n - 1) /\ n - 1 \in 1..(n - 1) /\ n - 1 \in Nat
    BY <1>1, <1>4
  <2> DEFINE G == {i \in Nat : f[i + 1] = s[1] \o h[i]}
  <2>3. 1 \in G
    <3>1. f[1 + 1] = f[1] \o s[1 + 1] /\ t[1] = s[1 + 1]
      BY <1>1, <1>2, <2>2
    <3>2. QED
      BY <1>2, <2>1, <3>1
  <2>4. ASSUME NEW i \in 1..((n - 1) - 1), i \in G
        PROVE  i + 1 \in G
    <3>1. /\ i \in 1..(Len(t) - 1) /\ i \in 1..Len(t) /\ i + 1 \in 1..(n - 1)
          /\ i + 1 \in 1..Len(t)
      BY <1>1
    <3>2. f[(i + 1) + 1] = f[i + 1] \o s[(i + 1) + 1] /\ t[i + 1] = s[(i + 1) + 1]
      BY <1>1, <1>2, <3>1
    <3>3. f[i + 1] = s[1] \o h[i]
      BY <2>4
    <3>4. h[i] \in Seq(S) /\ t[i + 1] \in Seq(S) /\ h[i + 1] = h[i] \o t[i + 1]
      <4>1. h[i] \in Seq(S) /\ h[i + 1] = h[i] \o t[i + 1]
        BY <2>1, <3>1
      <4>2. t[i + 1] \in Seq(S)
        BY <1>1, <3>1, ElementOfSeq
      <4>3. QED
        BY <4>1, <4>2
    <3>5. (s[1] \o h[i]) \o t[i + 1] = s[1] \o (h[i] \o t[i + 1])
      <4> DEFINE x == s[1]
                 y == h[i]
                 z == t[i + 1]
      <4>1. x \in Seq(S) /\ y \in Seq(S) /\ z \in Seq(S)
        BY <1>1, <3>4
      <4> HIDE DEF x, y, z
      <4>2. (x \o y) \o z = x \o (y \o z)
        BY <4>1
      <4>3. QED
        BY <4>2 DEF x, y, z
    <3>6. f[(i + 1) + 1] = s[1] \o h[i + 1]
      BY <3>2, <3>3, <3>4, <3>5
    <3>7. i + 1 \in Nat
      OBVIOUS
    <3>8. QED
      BY <3>6, <3>7
  <2>5. 1..(n - 1) \subseteq G
    <3> HIDE DEF G
    <3>1. QED
      BY <2>2, <2>3, <2>4, Climb
  <2>6. f[(n - 1) + 1] = s[1] \o h[n - 1]
    BY <2>2, <2>5
  <2>7. (n - 1) + 1 = n /\ Len(t) = n - 1
    BY <1>1
  <2>8. FlattenSeq(s) = s[1] \o FlattenSeq(t)
    BY <1>2, <2>1, <2>6, <2>7
  <2>9. QED
    BY <1>1, <2>8 DEF t
<1>5. QED
  BY <1>3, <1>4

(* A suffix, position by position.                                          *)
SuffixAt(s, t) == /\ Len(s) <= Len(t)
                  /\ \A i \in 1..Len(s) : s[i] = t[i + (Len(t) - Len(s))]

LEMMA SuffixIsAt ==
  ASSUME NEW S, NEW s \in Seq(S), NEW t \in Seq(S)
  PROVE  IsSuffix(s, t) <=> SuffixAt(s, t)
<1> DEFINE r == Reverse(s)
           q == Reverse(t)
           m == Len(s)
           n == Len(t)
<1>1. m \in Nat /\ n \in Nat
  OBVIOUS
<1>2. /\ r \in Seq(S) /\ q \in Seq(S) /\ Len(r) = m /\ Len(q) = n
      /\ \A i \in 1..m : r[i] = s[(m - i) + 1]
      /\ \A i \in 1..n : q[i] = t[(n - i) + 1]
  BY DEF Reverse
<1>3. IsSuffix(s, t) <=> IsPrefix(r, q)
  BY DEF IsSuffix
<1> HIDE DEF r, q, m, n
<1>4. CASE m <= n
  <2>1. /\ SubSeq(r, 1, m) \in Seq(S) /\ Len(SubSeq(r, 1, m)) = m
        /\ SubSeq(q, 1, m) \in Seq(S) /\ Len(SubSeq(q, 1, m)) = m
        /\ \A i \in 1..m : SubSeq(r, 1, m)[i] = r[i] /\ SubSeq(q, 1, m)[i] = q[i]
    BY <1>1, <1>2, <1>4
  <2>2. SubSeq(r, 1, m) = SubSeq(q, 1, m) <=> \A i \in 1..m : r[i] = q[i]
    <3>1. ASSUME \A i \in 1..m : r[i] = q[i]
          PROVE  SubSeq(r, 1, m) = SubSeq(q, 1, m)
      <4> DEFINE x == SubSeq(r, 1, m)
                 y == SubSeq(q, 1, m)
      <4>1. x \in Seq(S) /\ y \in Seq(S) /\ Len(x) = Len(y) /\ \A i \in 1..Len(x) : x[i] = y[i]
        BY <2>1, <3>1
      <4> HIDE DEF x, y
      <4>2. x = y
        BY <4>1
      <4>3. QED
        BY <4>2 DEF x, y
    <3>2. ASSUME SubSeq(r, 1, m) = SubSeq(q, 1, m), NEW i \in 1..m
          PROVE  r[i] = q[i]
      BY <2>1, <3>2, Zenon
    <3>3. QED
      BY <3>1, <3>2
  <2>3. IsPrefix(r, q) <=> \A i \in 1..m : r[i] = q[i]
    BY <1>2, <1>4, <2>2 DEF IsPrefix
  <2>4. (\A i \in 1..m : r[i] = q[i]) <=> (\A i \in 1..m : s[i] = t[i + (n - m)])
    <3>1. ASSUME \A i \in 1..m : r[i] = q[i], NEW i \in 1..m
          PROVE  s[i] = t[i + (n - m)]
      <4>1. /\ (m - i) + 1 \in 1..m /\ (m - i) + 1 \in 1..n
            /\ (m - ((m - i) + 1)) + 1 = i
            /\ (n - ((m - i) + 1)) + 1 = i + (n - m)
        BY <1>1, <1>4
      <4>2. r[(m - i) + 1] = q[(m - i) + 1]
        BY <3>1, <4>1
      <4>3. QED
        BY <1>2, <4>1, <4>2
    <3>2. ASSUME \A i \in 1..m : s[i] = t[i + (n - m)], NEW i \in 1..m
          PROVE  r[i] = q[i]
      <4>1. (m - i) + 1 \in 1..m /\ i \in 1..n /\ ((m - i) + 1) + (n - m) = (n - i) + 1
        BY <1>1, <1>4
      <4>2. s[(m - i) + 1] = t[(n - i) + 1]
        BY <3>2, <4>1
      <4>3. QED
        BY <1>2, <4>1, <4>2
    <3>3. QED
      BY <3>1, <3>2
  <2>5. QED
    BY <1>3, <1>4, <2>3, <2>4 DEF SuffixAt, m, n
<1>5. CASE ~ (m <= n)
  BY <1>2, <1>3, <1>5 DEF IsPrefix, SuffixAt, m, n
<1>6. QED
  BY <1>4, <1>5

LEMMA SuffixGrows ==
  ASSUME NEW S, NEW s \in Seq(S), NEW t \in Seq(S), NEW e \in Seq(S), IsSuffix(s, t)
  PROVE  IsSuffix(s \o e, t \o e)
<1>1. SuffixAt(s, t)
  BY SuffixIsAt
<1>2. /\ s \o e \in Seq(S) /\ Len(s \o e) = Len(s) + Len(e)
      /\ t \o e \in Seq(S) /\ Len(t \o e) = Len(t) + Len(e)
  OBVIOUS
<1>3. ASSUME NEW i \in 1..Len(s \o e)
      PROVE  (s \o e)[i] = (t \o e)[i + (Len(t) - Len(s))]
  <2>1. CASE i \in 1..Len(s)
    <3>1. i + (Len(t) - Len(s)) \in 1..Len(t)
      BY <1>1, <2>1 DEF SuffixAt
    <3>2. (s \o e)[i] = s[i]
      BY <2>1
    <3>3. (t \o e)[i + (Len(t) - Len(s))] = t[i + (Len(t) - Len(s))]
      BY <3>1
    <3>4. QED
      BY <1>1, <2>1, <3>2, <3>3 DEF SuffixAt
  <2>2. CASE i \notin 1..Len(s)
    <3> DEFINE k == i - Len(s)
    <3>1. k \in 1..Len(e) /\ i = Len(s) + k /\ i + (Len(t) - Len(s)) = Len(t) + k
      BY <1>2, <2>2
    <3> HIDE DEF k
    <3>2. (s \o e)[Len(s) + k] = e[k] /\ (t \o e)[Len(t) + k] = e[k]
      BY <3>1
    <3>3. QED
      BY <3>1, <3>2
  <2>3. QED
    BY <2>1, <2>2
<1>4. SuffixAt(s \o e, t \o e)
  <2>1. Len(t \o e) - Len(s \o e) = Len(t) - Len(s) /\ Len(s \o e) <= Len(t \o e)
    BY <1>1, <1>2 DEF SuffixAt
  <2>2. QED
    BY <1>3, <2>1 DEF SuffixAt
<1>5. QED
  BY <1>2, <1>4, SuffixIsAt

LEMMA SuffixShrinks ==
  ASSUME NEW S, NEW s \in Seq(S), NEW t \in Seq(S), IsSuffix(s, t), NEW c \in 0..Len(s)
  PROVE  LET u == SubSeq(s, c + 1, Len(s))
         IN  u \in Seq(S) /\ Len(u) = Len(s) - c /\ IsSuffix(u, t)
<1> DEFINE u == SubSeq(s, c + 1, Len(s))
<1>1. SuffixAt(s, t)
  BY SuffixIsAt
<1>2. /\ u \in Seq(S) /\ Len(u) = Len(s) - c
      /\ \A i \in 1..(Len(s) - c) : u[i] = s[i + c]
  OBVIOUS
<1> HIDE DEF u
<1>3. ASSUME NEW i \in 1..Len(u)
      PROVE  u[i] = t[i + (Len(t) - Len(u))]
  <2>1. /\ i \in 1..(Len(s) - c) /\ i + c \in 1..Len(s)
        /\ (i + c) + (Len(t) - Len(s)) = i + (Len(t) - Len(u))
    BY <1>2
  <2>2. QED
    BY <1>1, <1>2, <2>1 DEF SuffixAt
<1>4. Len(u) <= Len(t)
  BY <1>1, <1>2 DEF SuffixAt
<1>5. IsSuffix(u, t)
  BY <1>2, <1>3, <1>4, SuffixIsAt DEF SuffixAt
<1>6. QED
  BY <1>2, <1>5 DEF u

-----------------------------------------------------------------------------
(* What is shown and queued is a part of what was logged.                    *)
LogTypeOK ==
  /\ logTool \in LogTools /\ drains \in BOOLEAN
  /\ queue \in Seq(Seq(Nat))
  /\ logwin \in Seq(Nat) /\ logged \in Seq(Nat)

LogIInv == LogTypeOK /\ WindowIsRecent

LEMMA CutBounds ==
  ASSUME LogTypeOK
  PROVE  TrimAbove \in Nat /\ Cut[logTool] \in 0..TrimAbove
BY LogAssumption DEF LogTypeOK

LEMMA LogInitHolds == LogInit => LogIInv
<1> SUFFICES ASSUME LogInit
             PROVE  LogIInv
  OBVIOUS
<1>1. LogTypeOK
  <2>1. queue \in Seq(Seq(Nat)) /\ logwin \in Seq(Nat) /\ logged \in Seq(Nat)
    <3>1. \A T : << >> \in Seq(T)
      OBVIOUS
    <3>2. queue = << >> /\ logwin = << >> /\ logged = << >>
      BY DEF LogInit
    <3>3. QED
      BY <3>1, <3>2, Zenon
  <2>2. QED
    BY <2>1 DEF LogInit, LogTypeOK
<1>2. logwin \o FlattenSeq(queue) = << >> /\ logged = << >>
  <2>1. logwin = << >> /\ FlattenSeq(queue) = << >> /\ logged = << >>
    BY FlattenEmpty DEF LogInit
  <2>2. << >> \o << >> = << >>
    OBVIOUS
  <2>3. QED
    BY <2>1, <2>2
<1>3. IsSuffix(<< >>, << >>)
  <2>1. SuffixAt(<< >>, << >>)
    BY DEF SuffixAt
  <2>2. << >> \in Seq(Nat)
    OBVIOUS
  <2>3. QED
    BY <2>1, <2>2, SuffixIsAt
<1>4. WindowIsRecent
  BY <1>2, <1>3 DEF WindowIsRecent
<1>5. QED
  BY <1>1, <1>4 DEF LogIInv

LEMMA PrintKeeps ==
  ASSUME LogIInv, print
  PROVE  LogIInv'
<1>1. /\ LogTypeOK
      /\ IsSuffix(logwin \o FlattenSeq(queue), logged)
      /\ logwin \o FlattenSeq(queue) # logged => Len(logwin) > TrimAbove - Cut[logTool]
  BY DEF LogIInv, WindowIsRecent
<1>2. TextsLogged \in Nat
  <2>1. CASE logged = << >>
    BY <2>1 DEF TextsLogged
  <2>2. CASE logged # << >>
    <3>1. logged \in Seq(Nat)
      BY <1>1 DEF LogTypeOK
    <3>2. Len(logged) \in 1..Len(logged)
      BY <2>2, <3>1
    <3>3. logged[Len(logged)] \in Nat
      BY <3>1, <3>2, ElementOfSeq
    <3>4. QED
      BY <2>2, <3>3 DEF TextsLogged, Last
  <2>3. QED
    BY <2>1, <2>2
<1>3. PICK len \in Lengths :
        /\ queue' = Append(queue, [k \in 1..len |-> TextsLogged + 1])
        /\ logged' = logged \o [k \in 1..len |-> TextsLogged + 1]
  BY DEF print
<1> DEFINE text == [k \in 1..len |-> TextsLogged + 1]
<1>4. text \in Seq(Nat)
  <2>1. len \in Nat
    BY LogAssumption
  <2>2. QED
    BY <1>2, <2>1
<1>5. queue' = Append(queue, text) /\ logged' = logged \o text
  BY <1>3
<1> HIDE DEF text
<1>6. UNCHANGED <<logTool, logwin, drains>>
  BY DEF print
<1>7. queue \in Seq(Seq(Nat)) /\ logwin \in Seq(Nat) /\ logged \in Seq(Nat)
  BY <1>1 DEF LogTypeOK
<1>8. queue' \in Seq(Seq(Nat)) /\ logged' \in Seq(Nat)
  <2>1. logged' \in Seq(Nat)
    BY <1>4, <1>5, <1>7
  <2> DEFINE T == Seq(Nat)
  <2>2. queue \in Seq(T) /\ text \in T
    BY <1>4, <1>7
  <2> HIDE DEF T
  <2>3. queue' \in Seq(T)
    BY <1>5, <2>2
  <2>4. QED
    BY <2>1, <2>3 DEF T
<1> DEFINE f == FlattenSeq(queue)
<1>9. f \in Seq(Nat)
  BY <1>7, FlattenType
<1>10. FlattenSeq(queue') = f \o text
  BY <1>4, <1>5, <1>7, FlattenAppend
<1> HIDE DEF f
<1>11. logwin' \o FlattenSeq(queue') = (logwin \o f) \o text
  <2>1. logwin \o (f \o text) = (logwin \o f) \o text
    <3>1. logwin \in Seq(Nat) /\ f \in Seq(Nat) /\ text \in Seq(Nat)
      BY <1>4, <1>7, <1>9
    <3>2. QED
      BY <3>1, ConcatAssociative
  <2>2. QED
    BY <1>6, <1>10, <2>1
<1>12. logwin \o f \in Seq(Nat)
  BY <1>7, <1>9
<1>13. IsSuffix((logwin \o f) \o text, logged')
  <2>1. IsSuffix(logwin \o f, logged)
    BY <1>1 DEF f
  <2>2. QED
    BY <1>4, <1>5, <1>7, <1>12, <2>1, SuffixGrows
<1>14. (logwin \o f) \o text # logged' => Len(logwin') > TrimAbove - Cut[logTool']
  <2>1. logwin \o f = logged => (logwin \o f) \o text = logged'
    BY <1>5
  <2>2. QED
    BY <1>1, <1>6, <2>1 DEF f
<1>15. WindowIsRecent'
  BY <1>11, <1>13, <1>14 DEF WindowIsRecent
<1>16. LogTypeOK'
  BY <1>1, <1>6, <1>8 DEF LogTypeOK
<1>17. QED
  BY <1>15, <1>16 DEF LogIInv

LEMMA ShowTextKeeps ==
  ASSUME LogIInv, ShowText
  PROVE  LogIInv'
<1>1. /\ LogTypeOK
      /\ IsSuffix(logwin \o FlattenSeq(queue), logged)
      /\ logwin \o FlattenSeq(queue) # logged => Len(logwin) > TrimAbove - Cut[logTool]
  BY DEF LogIInv, WindowIsRecent
<1> DEFINE head == Head(queue)
           rest == FlattenSeq(Tail(queue))
<1>2. /\ queue # << >> /\ logwin' = logwin \o head /\ queue' = Tail(queue)
      /\ UNCHANGED <<logTool, drains, logged>>
  BY DEF ShowText
<1>3. queue \in Seq(Seq(Nat)) /\ logwin \in Seq(Nat) /\ logged \in Seq(Nat)
  BY <1>1 DEF LogTypeOK
<1>4. head \in Seq(Nat) /\ queue' \in Seq(Seq(Nat))
  <2> DEFINE T == Seq(Nat)
  <2>1. queue \in Seq(T)
    BY <1>3
  <2> HIDE DEF T
  <2>2. head \in T /\ queue' \in Seq(T)
    BY <1>2, <2>1
  <2>3. QED
    BY <2>2 DEF T
<1>5. rest \in Seq(Nat) /\ FlattenSeq(queue') = rest
  BY <1>2, <1>4, FlattenType
<1>6. FlattenSeq(queue) = head \o rest
  BY <1>2, <1>3, FlattenHead
<1> HIDE DEF head, rest
<1>7. logwin' \o FlattenSeq(queue') = logwin \o FlattenSeq(queue)
  <2>1. (logwin \o head) \o rest = logwin \o (head \o rest)
    <3>1. logwin \in Seq(Nat) /\ head \in Seq(Nat) /\ rest \in Seq(Nat)
      BY <1>3, <1>4, <1>5
    <3>2. QED
      BY <3>1, ConcatAssociative
  <2>2. QED
    BY <1>2, <1>5, <1>6, <2>1
<1>8. logwin' \in Seq(Nat) /\ Len(logwin') >= Len(logwin) /\ Len(logwin) \in Nat /\ Len(logwin') \in Nat
  BY <1>2, <1>3, <1>4
<1>9. WindowIsRecent'
  <2>1. TrimAbove - Cut[logTool] \in Int
    BY <1>1, CutBounds
  <2>2. Len(logwin) > TrimAbove - Cut[logTool] => Len(logwin') > TrimAbove - Cut[logTool]
    BY <1>8, <2>1
  <2>3. QED
    BY <1>1, <1>2, <1>7, <2>2 DEF WindowIsRecent
<1>10. LogTypeOK'
  BY <1>1, <1>2, <1>4, <1>8 DEF LogTypeOK
<1>11. QED
  BY <1>9, <1>10 DEF LogIInv

LEMMA TrimKeeps ==
  ASSUME LogIInv, Trim
  PROVE  LogIInv'
<1>1. /\ LogTypeOK
      /\ IsSuffix(logwin \o FlattenSeq(queue), logged)
      /\ logwin \o FlattenSeq(queue) # logged => Len(logwin) > TrimAbove - Cut[logTool]
  BY DEF LogIInv, WindowIsRecent
<1>2. /\ queue = << >> /\ drains' = FALSE /\ UNCHANGED <<logTool, queue, logged>>
      /\ logwin' = IF Len(logwin) > TrimAbove
                   THEN SubSeq(logwin, Cut[logTool] + 1, Len(logwin)) ELSE logwin
  BY DEF Trim
<1>3. logwin \in Seq(Nat) /\ logged \in Seq(Nat) /\ Len(logwin) \in Nat
  BY <1>1 DEF LogTypeOK
<1>4. FlattenSeq(queue) = << >> /\ FlattenSeq(queue') = << >>
  BY <1>2, FlattenEmpty
<1>5. IsSuffix(logwin, logged)
  <2>1. logwin \o << >> = logwin
    BY <1>3
  <2>2. QED
    BY <1>1, <1>4, <2>1
<1>6. TrimAbove \in Nat /\ Cut[logTool] \in 0..TrimAbove
  BY <1>1, CutBounds
<1>7. CASE Len(logwin) > TrimAbove
  <2>1. logwin' = SubSeq(logwin, Cut[logTool] + 1, Len(logwin)) /\ Cut[logTool] \in 0..Len(logwin)
    <3>1. logwin' = SubSeq(logwin, Cut[logTool] + 1, Len(logwin))
      BY <1>2, <1>7
    <3>2. Cut[logTool] \in 0..Len(logwin)
      BY <1>3, <1>6, <1>7
    <3>3. QED
      BY <3>1, <3>2
  <2>2. logwin' \in Seq(Nat) /\ Len(logwin') = Len(logwin) - Cut[logTool] /\ IsSuffix(logwin', logged)
    BY <1>3, <1>5, <2>1, SuffixShrinks
  <2>3. Len(logwin') > TrimAbove - Cut[logTool]
    BY <1>3, <1>6, <1>7, <2>2
  <2>4. logwin' \o FlattenSeq(queue') = logwin'
    BY <1>4, <2>2
  <2>5. WindowIsRecent'
    BY <1>2, <2>2, <2>3, <2>4 DEF WindowIsRecent
  <2>6. LogTypeOK'
    BY <1>1, <1>2, <2>2 DEF LogTypeOK
  <2>7. QED
    BY <2>5, <2>6 DEF LogIInv
<1>8. CASE ~ (Len(logwin) > TrimAbove)
  <2>1. logwin' = logwin
    BY <1>2, <1>8
  <2>2. WindowIsRecent'
    BY <1>1, <1>2, <2>1 DEF WindowIsRecent
  <2>3. LogTypeOK'
    BY <1>1, <1>2, <2>1 DEF LogTypeOK
  <2>4. QED
    BY <2>2, <2>3 DEF LogIInv
<1>9. QED
  BY <1>7, <1>8

LEMMA LogStep ==
  LogIInv /\ [LogNext]_logVars => LogIInv'
<1> SUFFICES ASSUME LogIInv, [LogNext]_logVars
             PROVE  LogIInv'
  OBVIOUS
<1>1. CASE print
  BY <1>1, PrintKeeps
<1>2. CASE EnterWorker
  <2>1. UNCHANGED <<logTool, queue, logwin, logged>> /\ drains' = TRUE
    BY <1>2 DEF EnterWorker
  <2>2. QED
    BY <2>1 DEF LogIInv, LogTypeOK, WindowIsRecent
<1>3. CASE ShowText
  BY <1>3, ShowTextKeeps
<1>4. CASE Trim
  BY <1>4, TrimKeeps
<1>5. CASE UNCHANGED logVars
  BY <1>5 DEF logVars, LogIInv, LogTypeOK, WindowIsRecent
<1>6. QED
  BY <1>1, <1>2, <1>3, <1>4, <1>5 DEF LogNext, worker_org, worker_3d, worker_logx, WorkerStep

(* The log window shows the newest part of what was logged, in order and      *)
(* without a gap, for texts of any lengths and any proportion of the limit   *)
(* above which a copy of worker trims and what it cuts.                      *)
THEOREM WindowIsRecentAlways == LogSpec => []WindowIsRecent
<1>1. LogIInv => WindowIsRecent
  BY DEF LogIInv
<1>2. QED
  BY <1>1, LogInitHolds, LogStep, PTL DEF LogSpec

=============================================================================
