-------------------------- MODULE CsiPipelineProofs --------------------------
(* The safety of CsiPipeline for every queue size, every number of buffers  *)
(* and every kind of frame.                                                 *)
EXTENDS CsiPipeline, FiniteSetTheorems, TLAPS

(* The print task holds a buffer exactly between receiving and printing. *)
PrinterHolds == info # NULL <=> printer # "receive"

(* What a buffer in use holds: the whole frame, of which the print task may *)
(* show less.                                                               *)
WholeFrame(f) == f.copied = FullLength(f.parts) /\ f.valid_len \in 1..f.copied

Contents ==
  /\ \A b \in Allocated : WholeFrame(heap[b]) /\ heap[b].number \in 1..received
  /\ lastRow <= received

IInv ==
  /\ TypeOK
  /\ PrinterHolds
  /\ OneOwner
  /\ Contents
  /\ RowsInOrder
  /\ IsFiniteSet(Allocated)
  /\ FramesConserved

-----------------------------------------------------------------------------
(* Malloc returns a free block, if there is one. *)
LEMMA MallocFree ==
  ASSUME Free # {}
  PROVE  Malloc \in Buffers /\ heap[Malloc] = NULL
  BY DEF Free, Malloc

LEMMA AppendFacts ==
  ASSUME NEW q \in Seq(Buffers), NEW b \in Buffers
  PROVE  LET a == Append(q, b)
         IN  /\ a \in Seq(Buffers)
             /\ Len(a) = Len(q) + 1
             /\ \A i \in 1..Len(q) : a[i] = q[i]
             /\ a[Len(q) + 1] = b
             /\ {a[i] : i \in 1..Len(a)} = {q[i] : i \in 1..Len(q)} \union {b}
  <1> DEFINE a == Append(q, b)
  <1>1. a \in Seq(Buffers) /\ Len(a) = Len(q) + 1 /\ a[Len(q) + 1] = b
    OBVIOUS
  <1>2. \A i \in 1..Len(q) : a[i] = q[i]
    OBVIOUS
  <1>3. 1..Len(a) = 1..Len(q) \union {Len(q) + 1}
    BY <1>1
  <1>4. {a[i] : i \in 1..Len(a)} = {q[i] : i \in 1..Len(q)} \union {b}
    <2> HIDE DEF a
    <2> QED
      BY <1>1, <1>2, <1>3
  <1>5. QED
    BY <1>1, <1>2, <1>4

LEMMA TailFacts ==
  ASSUME NEW q \in Seq(Buffers), q # <<>>
  PROVE  /\ Head(q) = q[1] /\ Head(q) \in Buffers
         /\ Tail(q) \in Seq(Buffers)
         /\ Len(q) \in Nat \ {0} /\ Len(Tail(q)) = Len(q) - 1
         /\ \A i \in 1..Len(Tail(q)) : Tail(q)[i] = q[i + 1]
  OBVIOUS

LEMMA LengthPositive ==
  ASSUME NEW parts \in FrameKinds
  PROVE  FullLength(parts) \in Nat \ {0} /\ parts.llft \in 1..FullLength(parts)
         /\ parts.llft + parts.ht \in 1..FullLength(parts)
  BY FrameAssumption DEF FrameAssumption, FullLength

-----------------------------------------------------------------------------
LEMMA InitInv == Init => IInv
  <1> SUFFICES ASSUME Init PROVE IInv
    OBVIOUS
  <1> USE DEF Init
  <1>1. TypeOK
    <2>1. queue \in Seq(Buffers) /\ Len(queue) = 0
      OBVIOUS
    <2>2. Len(queue) <= QueueSize
      BY <2>1, QueueAssumption DEF QueueAssumption
    <2>3. heap \in [Buffers -> Frames \union {NULL}]
      OBVIOUS
    <2>4. QED
      BY <2>1, <2>2, <2>3 DEF TypeOK, OutputTypes
  <1>2. Allocated = {}
    BY DEF Allocated
  <1>3. Queued = {}
    BY DEF Queued
  <1>4. IsFiniteSet(Allocated) /\ Cardinality(Allocated) = 0
    BY <1>2, FS_EmptySet
  <1>5. OneOwner
    BY <1>2, <1>3 DEF OneOwner
  <1>6. QED
    BY <1>1, <1>2, <1>4, <1>5 DEF IInv, PrinterHolds, Contents, RowsInOrder, FramesConserved

-----------------------------------------------------------------------------
(* One lemma per action that touches the buffers.                          *)

LEMMA CopyKeepsInv ==
  ASSUME IInv, CopyFrame
  PROVE  IInv'
  <1> DEFINE m == Malloc
  <1> USE DEF IInv
  <1>1. m \in Buffers /\ heap[m] = NULL
    BY MallocFree DEF CopyFrame
  <1>2. PICK parts \in FrameKinds :
          heap' = [heap EXCEPT ![m] = [number |-> received + 1, parts |-> parts,
                                       copied |-> FullLength(parts),
                                       valid_len |-> FullLength(parts)]]
    BY DEF CopyFrame
  <1> DEFINE f == [number |-> received + 1, parts |-> parts,
                   copied |-> FullLength(parts), valid_len |-> FullLength(parts)]
  <1>3. f \in Frames /\ f # NULL /\ WholeFrame(f) /\ f.number = received + 1
    <2>1. FullLength(parts) \in Nat \ {0}
      BY LengthPositive
    <2>2. f \in Frames
      BY <2>1 DEF Frames, TypeOK
    <2>3. QED
      BY <2>1, <2>2, NullAssumption DEF NullAssumption, WholeFrame
  <1> HIDE DEF m, f
  <1>4. heap' = [heap EXCEPT ![m] = f] /\ q_data' = m /\ received' = received + 1 /\ q_data = NULL
    BY <1>2 DEF CopyFrame, m, f
  <1>5. UNCHANGED <<boot, consoleVars, queue, printVars, dropped>>
    BY DEF CopyFrame
  <1>6. m # NULL
    BY <1>1, BufferAssumption DEF BufferAssumption
  <1>7. TypeOK'
    BY <1>1, <1>3, <1>4, <1>5 DEF TypeOK, consoleVars, printVars
  <1>8. /\ Allocated' = Allocated \union {m} /\ m \notin Allocated
        /\ \A b \in Allocated : heap'[b] = heap[b]
        /\ heap'[m] = f
    BY <1>1, <1>3, <1>4 DEF Allocated, TypeOK
  <1>9. Queued' = Queued /\ info' = info
    BY <1>5 DEF Queued, printVars
  <1>10. OneOwner'
    BY <1>4, <1>5, <1>6, <1>8, <1>9 DEF OneOwner
  <1>11. Contents'
    BY <1>3, <1>4, <1>5, <1>8 DEF Contents, printVars, TypeOK
  <1>12. RowsInOrder'
    <2>1. \A b \in Queued \union ({info} \ {NULL}) :
             /\ b \in Allocated /\ heap'[b].number = heap[b].number
             /\ heap[b].number \in 1..received
      BY <1>8 DEF OneOwner, Contents
    <2>2. lastRow' = lastRow /\ queue' = queue /\ info' = info
      BY <1>5 DEF printVars
    <2>3. \A i \in 1..Len(queue) : queue[i] \in Queued
      BY DEF Queued
    <2>4. heap'[q_data'].number = received + 1 /\ lastRow <= received
      BY <1>3, <1>4, <1>8 DEF Contents
    <2>5. received \in Nat /\ lastRow \in Nat
      BY DEF TypeOK
    <2>6. QED
      BY <2>1, <2>2, <2>3, <2>4, <2>5, <1>9 DEF RowsInOrder
  <1>13. IsFiniteSet(Allocated') /\ Cardinality(Allocated') = Cardinality(Allocated) + 1
    BY <1>8, FS_AddElement
  <1>14. FramesConserved'
    BY <1>4, <1>5, <1>13, FS_CardinalityType DEF FramesConserved, TypeOK, printVars
  <1>15. PrinterHolds'
    BY <1>5 DEF PrinterHolds, printVars
  <1>16. QED
    BY <1>7, <1>10, <1>11, <1>12, <1>13, <1>14, <1>15

LEMMA SendKeepsInv ==
  ASSUME IInv, SendBuffer
  PROVE  IInv'
  <1> USE DEF IInv
  <1>1. /\ q_data \in Buffers /\ q_data # NULL /\ Len(queue) < QueueSize
        /\ queue' = Append(queue, q_data) /\ q_data' = NULL
        /\ queue \in Seq(Buffers)
    BY DEF SendBuffer, CanSend, TypeOK
  <1>2. UNCHANGED <<boot, consoleVars, heap, printVars, received, dropped>>
    BY DEF SendBuffer
  <1>3. /\ queue' \in Seq(Buffers) /\ Len(queue') = Len(queue) + 1
        /\ \A i \in 1..Len(queue) : queue'[i] = queue[i]
        /\ queue'[Len(queue) + 1] = q_data
        /\ Queued' = Queued \union {q_data}
    BY <1>1, AppendFacts DEF Queued
  <1>4. TypeOK'
    <2>1. Len(queue') <= QueueSize
      BY <1>1, <1>3, QueueAssumption DEF QueueAssumption
    <2>2. QED
      BY <1>1, <1>2, <1>3, <2>1 DEF TypeOK, consoleVars, printVars
  <1>5. Allocated' = Allocated
    BY <1>2 DEF Allocated
  <1>6. Len(queue) \in Nat /\ 1..Len(queue') = 1..Len(queue) \union {Len(queue) + 1}
    BY <1>1, <1>3
  <1>7. \A i \in 1..Len(queue) : queue[i] \in Queued
    BY DEF Queued
  <1>8. q_data \notin Queued /\ info # q_data /\ info \notin Queued
    BY <1>1 DEF OneOwner
  <1>9. info' = info /\ lastRow' = lastRow /\ heap' = heap
    BY <1>2 DEF printVars
  <1>10. OneOwner'
    <2>1. \A i, j \in 1..Len(queue') : queue'[i] = queue'[j] => i = j
      BY <1>3, <1>6, <1>7, <1>8 DEF OneOwner
    <2>2. NULL \notin Queued'
      BY <1>1, <1>3, BufferAssumption DEF BufferAssumption, Queued
    <2>3. QED
      BY <2>1, <2>2, <1>1, <1>3, <1>5, <1>8, <1>9 DEF OneOwner
  <1>11. RowsInOrder'
    <2>1. \A b \in Queued \union ({info} \ {NULL}) : heap[b].number < heap[q_data].number
      BY <1>1 DEF RowsInOrder
    <2>2. heap[q_data].number > lastRow
      BY <1>1 DEF RowsInOrder
    <2>3. \A i \in 1..Len(queue') : heap[queue'[i]].number > lastRow
      BY <1>3, <1>6, <2>2 DEF RowsInOrder
    <2>4. \A i, j \in 1..Len(queue') :
            i < j => heap[queue'[i]].number < heap[queue'[j]].number
      <3> SUFFICES ASSUME NEW i \in 1..Len(queue'), NEW j \in 1..Len(queue'), i < j
                   PROVE  heap[queue'[i]].number < heap[queue'[j]].number
        OBVIOUS
      <3>1. i \in 1..Len(queue) /\ queue'[i] = queue[i]
        BY <1>3, <1>6
      <3>2. CASE j \in 1..Len(queue)
        BY <3>1, <3>2, <1>3 DEF RowsInOrder
      <3>3. CASE j = Len(queue) + 1
        BY <3>1, <3>3, <1>3, <1>7, <2>1
      <3>4. QED
        BY <3>2, <3>3, <1>6
    <2>5. info # NULL => /\ heap[info].number > lastRow
                         /\ \A b \in Queued' : heap[info].number < heap[b].number
      BY <1>3, <2>1 DEF RowsInOrder
    <2>6. QED
      BY <1>1, <1>9, <2>3, <2>4, <2>5 DEF RowsInOrder
  <1>12. Contents' /\ PrinterHolds' /\ FramesConserved'
    BY <1>2, <1>5 DEF Contents, PrinterHolds, FramesConserved, printVars
  <1>13. QED
    BY <1>4, <1>5, <1>10, <1>11, <1>12

(* Freeing one buffer that is in no slot of the queue: the rest keep what   *)
(* they hold and there is one buffer less in use.                           *)
LEMMA FreeFacts ==
  ASSUME IInv, NEW b \in Allocated, heap' = [heap EXCEPT ![b] = NULL]
  PROVE  /\ Allocated' = Allocated \ {b}
         /\ \A c \in Allocated' : heap'[c] = heap[c]
         /\ heap' \in [Buffers -> Frames \union {NULL}]
         /\ IsFiniteSet(Allocated')
         /\ Cardinality(Allocated) = Cardinality(Allocated') + 1
         /\ Cardinality(Allocated') \in Nat
  <1>1. b \in Buffers /\ heap \in [Buffers -> Frames \union {NULL}]
    BY DEF Allocated, IInv, TypeOK
  <1>2. Allocated' = Allocated \ {b}
    BY <1>1 DEF Allocated
  <1>3. IsFiniteSet(Allocated')
    BY <1>2, FS_RemoveElement DEF IInv
  <1>4. Cardinality(Allocated' \union {b}) = Cardinality(Allocated') + 1
    BY <1>2, <1>3, FS_AddElement
  <1>5. Allocated = Allocated' \union {b}
    BY <1>2
  <1>6. \A c \in Allocated' : heap'[c] = heap[c]
    BY <1>1, <1>2 DEF Allocated
  <1>7. QED
    BY <1>1, <1>2, <1>3, <1>4, <1>5, <1>6, FS_CardinalityType

LEMMA DropKeepsInv ==
  ASSUME IInv, DropBuffer
  PROVE  IInv'
  <1>1. /\ heap' = [heap EXCEPT ![q_data] = NULL] /\ q_data # NULL /\ q_data' = NULL
        /\ dropped' = dropped + 1
        /\ UNCHANGED <<boot, consoleVars, queue, printVars, received>>
    BY DEF DropBuffer
  <1>2. q_data \in Allocated
    BY <1>1 DEF IInv, OneOwner
  <1>3. /\ Allocated' = Allocated \ {q_data}
        /\ \A c \in Allocated' : heap'[c] = heap[c]
        /\ heap' \in [Buffers -> Frames \union {NULL}]
        /\ IsFiniteSet(Allocated')
        /\ Cardinality(Allocated) = Cardinality(Allocated') + 1
        /\ Cardinality(Allocated') \in Nat
    BY <1>1, <1>2, FreeFacts
  <1> USE DEF IInv
  <1>4. TypeOK'
    BY <1>1, <1>3 DEF TypeOK, consoleVars, printVars
  <1>5. Queued' = Queued /\ info' = info /\ lastRow' = lastRow /\ queue' = queue
    BY <1>1 DEF Queued, printVars
  <1>6. NULL \notin Queued
    BY BufferAssumption DEF BufferAssumption, Queued, TypeOK
  <1>7. OneOwner'
    BY <1>1, <1>3, <1>5, <1>6 DEF OneOwner
  <1>8. RowsInOrder'
    <2>1. \A b \in Queued \union ({info} \ {NULL}) : heap'[b] = heap[b]
      BY <1>1, <1>3, <1>5, <1>7 DEF OneOwner
    <2>2. \A i \in 1..Len(queue) : queue[i] \in Queued
      BY DEF Queued
    <2>3. QED
      BY <1>1, <1>5, <2>1, <2>2 DEF RowsInOrder
  <1>9. Contents'
    BY <1>1, <1>3, <1>5 DEF Contents
  <1>10. PrinterHolds'
    BY <1>1 DEF PrinterHolds, printVars
  <1>11. FramesConserved'
    BY <1>1, <1>3 DEF FramesConserved, TypeOK, printVars
  <1>12. QED
    BY <1>3, <1>4, <1>7, <1>8, <1>9, <1>10, <1>11

LEMMA ReceiveKeepsInv ==
  ASSUME IInv, ReceiveBuffer
  PROVE  IInv'
  <1>1. /\ queue # <<>> /\ info' = Head(queue) /\ queue' = Tail(queue)
        /\ printer = "receive" /\ printer' = "LLFT"
        /\ UNCHANGED <<boot, consoleVars, heap, q_data, count, lastRow, received, dropped>>
    BY DEF ReceiveBuffer
  <1> USE DEF IInv
  <1>2. queue \in Seq(Buffers) /\ info = NULL
    BY <1>1 DEF TypeOK, PrinterHolds
  <1>3. /\ info' = queue[1] /\ info' \in Buffers
        /\ queue' \in Seq(Buffers)
        /\ Len(queue) \in Nat \ {0} /\ Len(queue') = Len(queue) - 1
        /\ \A i \in 1..Len(queue') : queue'[i] = queue[i + 1]
    BY <1>1, <1>2, TailFacts
  <1>4. \A i \in 1..Len(queue') : i + 1 \in 1..Len(queue) /\ i + 1 # 1
    BY <1>3
  <1>5. \A i \in 1..Len(queue) : i = 1 \/ (i - 1 \in 1..Len(queue') /\ queue'[i - 1] = queue[i])
    BY <1>3
  <1>6. 1 \in 1..Len(queue)
    BY <1>3
  <1>7. Queued = Queued' \union {info'}
    <2>1. Queued' \subseteq Queued
      BY <1>3, <1>4 DEF Queued
    <2>2. info' \in Queued
      BY <1>3, <1>6 DEF Queued
    <2>3. \A b \in Queued : b = info' \/ b \in Queued'
      BY <1>3, <1>5 DEF Queued
    <2>4. QED
      BY <2>1, <2>2, <2>3
  <1>8. info' \notin Queued'
    <2> SUFFICES ASSUME NEW i \in 1..Len(queue'), queue'[i] = info'
                 PROVE  FALSE
      BY DEF Queued
    <2>1. queue[i + 1] = queue[1]
      BY <1>3
    <2>2. QED
      BY <2>1, <1>4, <1>6 DEF OneOwner
  <1>9. TypeOK'
    <2>1. Len(queue') <= QueueSize
      BY <1>3, QueueAssumption DEF QueueAssumption, TypeOK
    <2>2. QED
      BY <1>1, <1>3, <2>1 DEF TypeOK, consoleVars, Tests
  <1>10. info' # NULL
    BY <1>3, BufferAssumption DEF BufferAssumption
  <1>11. Allocated' = Allocated
    BY <1>1 DEF Allocated
  <1>12. OneOwner'
    <2>1. \A i, j \in 1..Len(queue') : queue'[i] = queue'[j] => i = j
      <3> SUFFICES ASSUME NEW i \in 1..Len(queue'), NEW j \in 1..Len(queue'),
                          queue'[i] = queue'[j]
                   PROVE  i = j
        OBVIOUS
      <3>1. i + 1 = j + 1
        BY <1>3, <1>4 DEF OneOwner
      <3>2. QED
        BY <3>1
    <2>2. q_data \notin Queued /\ q_data' = q_data
      BY <1>1 DEF OneOwner
    <2>3. QED
      BY <2>1, <2>2, <1>2, <1>7, <1>8, <1>10, <1>11 DEF OneOwner
  <1>13. RowsInOrder'
    <2>1. \A i \in 1..Len(queue') : heap[queue'[i]].number > lastRow
      BY <1>3, <1>4 DEF RowsInOrder
    <2>2. \A i, j \in 1..Len(queue') :
            i < j => heap[queue'[i]].number < heap[queue'[j]].number
      <3> SUFFICES ASSUME NEW i \in 1..Len(queue'), NEW j \in 1..Len(queue'), i < j
                   PROVE  heap[queue'[i]].number < heap[queue'[j]].number
        OBVIOUS
      <3>1. i + 1 < j + 1
        OBVIOUS
      <3>2. QED
        BY <3>1, <1>3, <1>4 DEF RowsInOrder
    <2>3. heap[info'].number > lastRow
      BY <1>3, <1>6 DEF RowsInOrder
    <2>4. \A b \in Queued' : heap[info'].number < heap[b].number
      <3> SUFFICES ASSUME NEW i \in 1..Len(queue')
                   PROVE  heap[info'].number < heap[queue'[i]].number
        BY DEF Queued
      <3>1. i + 1 > 1 /\ queue'[i] = queue[i + 1]
        BY <1>3
      <3>2. QED
        BY <3>1, <1>3, <1>4, <1>6 DEF RowsInOrder
    <2>5. q_data # NULL => /\ heap[q_data].number > lastRow
                           /\ \A b \in Queued : heap[b].number < heap[q_data].number
      BY DEF RowsInOrder
    <2>6. QED
      BY <1>1, <1>7, <2>1, <2>2, <2>3, <2>4, <2>5 DEF RowsInOrder
  <1>14. Contents' /\ FramesConserved'
    BY <1>1, <1>11 DEF Contents, FramesConserved
  <1>15. PrinterHolds'
    BY <1>1, <1>10 DEF PrinterHolds
  <1>16. QED
    BY <1>9, <1>11, <1>12, <1>13, <1>14, <1>15

LEMMA SelectKeepsInv ==
  ASSUME IInv, SelectLength
  PROVE  IInv'
  <1> DEFINE f == heap[info]
  <1> USE DEF IInv
  <1> DEFINE length == Selected(printer, f.parts)
  <1>1. /\ heap' = [heap EXCEPT ![info].valid_len = length]
        /\ printer \in Tests /\ printer' = "print"
        /\ UNCHANGED <<boot, consoleVars, queue, q_data, info, count, lastRow, received, dropped>>
    BY DEF SelectLength
  <1>2. info # NULL /\ info \in Buffers /\ info \in Allocated
    BY <1>1 DEF PrinterHolds, OneOwner, TypeOK, Tests
  <1>3. f \in Frames /\ WholeFrame(f)
    BY <1>2 DEF Allocated, TypeOK, Contents
  <1>4. f.parts \in FrameKinds
    BY <1>3 DEF Frames
  <1>5. length \in 1..f.copied /\ length \in Nat
    <2>1. f.copied = FullLength(f.parts) /\ f.copied \in Nat /\ f.valid_len \in 1..f.copied
      BY <1>3 DEF WholeFrame, Frames
    <2>2. FullLength(f.parts) \in 1..FullLength(f.parts)
      BY <1>4, LengthPositive
    <2>3. QED
      BY <2>1, <2>2, <1>1, <1>4, LengthPositive DEF Selected, Tests
  <1> DEFINE g == [f EXCEPT !.valid_len = length]
  <1>6. g \in Frames /\ WholeFrame(g) /\ g.number = f.number /\ g # NULL
    BY <1>3, <1>5, NullAssumption DEF NullAssumption, Frames, WholeFrame
  <1>7. heap' = [heap EXCEPT ![info] = g]
    BY <1>1, <1>2
  <1> HIDE DEF g, f
  <1>8. \A b \in Buffers : heap'[b] = IF b = info THEN g ELSE heap[b]
    BY <1>2, <1>7 DEF TypeOK
  <1>9. TypeOK'
    BY <1>1, <1>2, <1>6, <1>7 DEF TypeOK, consoleVars
  <1>10. Allocated' = Allocated
    BY <1>2, <1>6, <1>8 DEF Allocated
  <1>11. \A b \in Allocated : heap'[b].number = heap[b].number
    BY <1>6, <1>8 DEF Allocated, f
  <1>12. Queued' = Queued
    BY <1>1 DEF Queued
  <1>13. OneOwner'
    BY <1>1, <1>10, <1>12 DEF OneOwner
  <1>14. RowsInOrder'
    <2>1. \A i \in 1..Len(queue) : queue[i] \in Allocated
      BY DEF OneOwner, Queued
    <2>2. \A b \in Queued \union ({q_data, info} \ {NULL}) : b \in Allocated
      BY DEF OneOwner
    <2>3. QED
      BY <1>1, <1>11, <1>12, <2>1, <2>2 DEF RowsInOrder
  <1>15. Contents'
    <2>1. \A b \in Allocated : WholeFrame(heap'[b])
      BY <1>6, <1>8 DEF Contents, Allocated
    <2>2. QED
      BY <1>1, <1>10, <1>11, <2>1 DEF Contents
  <1>16. PrinterHolds' /\ FramesConserved'
    BY <1>1, <1>2, <1>10 DEF PrinterHolds, FramesConserved, Tests
  <1>17. QED
    BY <1>9, <1>10, <1>13, <1>14, <1>15, <1>16

LEMMA PrintKeepsInv ==
  ASSUME IInv, PrintRow
  PROVE  IInv'
  <1>1. /\ heap' = [heap EXCEPT ![info] = NULL] /\ info' = NULL
        /\ lastRow' = heap[info].number /\ count' = count + 1
        /\ printer = "print" /\ printer' = "receive"
        /\ UNCHANGED <<boot, consoleVars, queue, q_data, received, dropped>>
    BY DEF PrintRow
  <1>2. info # NULL /\ info \in Allocated
    BY <1>1 DEF IInv, PrinterHolds, OneOwner
  <1>3. /\ Allocated' = Allocated \ {info}
        /\ \A c \in Allocated' : heap'[c] = heap[c]
        /\ heap' \in [Buffers -> Frames \union {NULL}]
        /\ IsFiniteSet(Allocated')
        /\ Cardinality(Allocated) = Cardinality(Allocated') + 1
        /\ Cardinality(Allocated') \in Nat
    BY <1>1, <1>2, FreeFacts
  <1> USE DEF IInv
  <1>4. heap[info].number \in 1..received /\ received \in Nat
    BY <1>2 DEF Contents, TypeOK
  <1>5. TypeOK'
    BY <1>1, <1>3, <1>4 DEF TypeOK, consoleVars
  <1>6. Queued' = Queued
    BY <1>1 DEF Queued
  <1>7. NULL \notin Queued
    BY BufferAssumption DEF BufferAssumption, Queued, TypeOK
  <1>8. OneOwner'
    BY <1>1, <1>2, <1>3, <1>6, <1>7 DEF OneOwner
  <1>9. RowsInOrder'
    <2>1. \A b \in Queued \union ({q_data} \ {NULL}) : heap'[b] = heap[b]
      BY <1>1, <1>3, <1>6, <1>8 DEF OneOwner
    <2>2. \A i \in 1..Len(queue) : queue[i] \in Queued
      BY DEF Queued
    <2>3. \A b \in Queued \union ({q_data} \ {NULL}) : heap'[b].number > lastRow'
      BY <1>1, <1>2, <2>1 DEF RowsInOrder
    <2>4. QED
      BY <1>1, <1>6, <2>1, <2>2, <2>3 DEF RowsInOrder
  <1>10. Contents'
    BY <1>1, <1>3, <1>4 DEF Contents
  <1>11. PrinterHolds'
    BY <1>1 DEF PrinterHolds
  <1>12. FramesConserved'
    BY <1>1, <1>3 DEF FramesConserved, TypeOK
  <1>13. QED
    BY <1>3, <1>5, <1>8, <1>9, <1>10, <1>11, <1>12

(* The other actions do not touch the buffers. *)
LEMMA OtherKeepsInv ==
  ASSUME IInv, StartRadar \/ CreateQueue \/ ChooseType \/ RegisterCallback \/ UNCHANGED vars
  PROVE  IInv'
  <1>1. UNCHANGED <<queue, heap, q_data, printVars, received, dropped>>
    BY DEF StartRadar, CreateQueue, ChooseType, RegisterCallback, vars, consoleVars
  <1>2. TypeOK'
    <2>1. boot' \in {"console", "radar", "queue"} /\ filtered_cb' \in BOOLEAN
          /\ console' \in {"idle", "register", "unregister"} /\ csi_output_type' \in OutputTypes
      BY DEF IInv, TypeOK, StartRadar, CreateQueue, ChooseType, RegisterCallback, vars, consoleVars
    <2>2. QED
      BY <1>1, <2>1 DEF IInv, TypeOK, printVars
  <1>3. Allocated' = Allocated /\ Queued' = Queued
    BY <1>1 DEF Allocated, Queued
  <1>4. QED
    BY <1>1, <1>2, <1>3
    DEF IInv, PrinterHolds, OneOwner, Contents, RowsInOrder, FramesConserved, printVars

LEMMA TestKeepsInv ==
  ASSUME IInv, NextTest
  PROVE  IInv'
  <1>1. UNCHANGED <<boot, consoleVars, queue, heap, q_data, info, count, lastRow, received, dropped>>
    BY DEF NextTest
  <1>2. printer \in Tests /\ printer' \in Tests \union {"print"}
    BY DEF NextTest, Tests
  <1>3. TypeOK'
    BY <1>1, <1>2 DEF IInv, TypeOK, consoleVars
  <1>4. Allocated' = Allocated /\ Queued' = Queued
    BY <1>1 DEF Allocated, Queued
  <1>5. QED
    BY <1>1, <1>2, <1>3, <1>4
    DEF IInv, PrinterHolds, OneOwner, Contents, RowsInOrder, FramesConserved, Tests

LEMMA NextKeepsInv == IInv /\ [Next]_vars => IInv'
  BY CopyKeepsInv, SendKeepsInv, DropKeepsInv, ReceiveKeepsInv, SelectKeepsInv, TestKeepsInv,
     PrintKeepsInv, OtherKeepsInv
  DEF Next, Callback, Printing

LEMMA AlwaysInv == Spec => []IInv
  BY InitInv, NextKeepsInv, PTL DEF Spec

-----------------------------------------------------------------------------
(* Every variable keeps its type, and the queue its bound. *)
THEOREM CsiTypeCorrect == Spec => []TypeOK
  <1>1. IInv => TypeOK
    BY DEF IInv
  <1>2. QED
    BY <1>1, AlwaysInv, PTL

(* No buffer is leaked, freed twice or used after it was freed. *)
THEOREM CsiOneOwner == Spec => []OneOwner
  <1>1. IInv => OneOwner
    BY DEF IInv
  <1>2. QED
    BY <1>1, AlwaysInv, PTL

(* Each frame is printed once, dropped once, or in exactly one buffer. *)
THEOREM CsiFramesConserved == Spec => []FramesConserved
  <1>1. IInv => FramesConserved
    BY DEF IInv
  <1>2. QED
    BY <1>1, AlwaysInv, PTL

(* Rows leave in the order in which the frames came. *)
THEOREM CsiRowsInOrder == Spec => []RowsInOrder
  <1>1. IInv => RowsInOrder
    BY DEF IInv
  <1>2. QED
    BY <1>1, AlwaysInv, PTL

(* The print task never reads past the copy, whatever the type is set to. *)
THEOREM CsiRowWithinCopy == Spec => []RowWithinCopy
  <1>1. IInv => RowWithinCopy
    BY DEF IInv, RowWithinCopy, OneOwner, Contents, WholeFrame
  <1>2. QED
    BY <1>1, AlwaysInv, PTL

(* One more element makes a set at most one larger. *)
LEMMA AddOne ==
  ASSUME NEW T, NEW x, NEW n \in Nat, IsFiniteSet(T), Cardinality(T) <= n
  PROVE  IsFiniteSet(T \union {x}) /\ Cardinality(T \union {x}) <= n + 1
  <1>1. Cardinality(T) \in Nat
    BY FS_CardinalityType
  <1>2. /\ IsFiniteSet(T \union {x})
        /\ \/ Cardinality(T \union {x}) = Cardinality(T)
           \/ Cardinality(T \union {x}) = Cardinality(T) + 1
    BY FS_AddElement
  <1>3. QED
    BY <1>1, <1>2

(* The heap the pipeline needs is that of QueueSize + 2 frames. *)
THEOREM CsiHeapBounded == Spec => []HeapBounded
  <1>1. IInv => HeapBounded
    <2> SUFFICES ASSUME IInv PROVE HeapBounded
      OBVIOUS
    <2> USE DEF IInv
    <2>1. queue \in [1..Len(queue) -> Queued] /\ Len(queue) \in Nat
      BY DEF TypeOK, Queued
    <2>2. queue \in Surjection(1..Len(queue), Queued)
      BY <2>1 DEF Surjection, Queued
    <2>3. IsFiniteSet(1..Len(queue)) /\ Cardinality(1..Len(queue)) = Len(queue)
      <3>1. Len(queue) \in Nat
        BY <2>1
      <3>2. DEFINE n == Len(queue)
      <3> HIDE DEF n
      <3>3. n \in Nat
        BY <3>1 DEF n
      <3>4. IsFiniteSet(1..n) /\ Cardinality(1..n) = n
        BY <3>3, FS_Interval
      <3>5. QED
        BY <3>4 DEF n
    <2>4. IsFiniteSet(Queued) /\ Cardinality(Queued) <= Len(queue)
      BY <2>2, <2>3, FS_Surjection
    <2> DEFINE S == (Queued \union {q_data}) \union {info}
    <2>5. /\ IsFiniteSet(Queued \union {q_data})
          /\ Cardinality(Queued \union {q_data}) <= Len(queue) + 1
      BY <2>1, <2>4, AddOne
    <2>6. IsFiniteSet(S) /\ Cardinality(S) <= (Len(queue) + 1) + 1
      <3>1. Len(queue) + 1 \in Nat
        BY <2>1
      <3>2. QED
        BY <2>5, <3>1, AddOne
    <2>7. Allocated \subseteq S
      BY DEF OneOwner
    <2>8. Cardinality(Allocated) <= Cardinality(S)
      BY <2>6, <2>7, FS_Subset
    <2>9. Cardinality(Allocated) \in Nat /\ Cardinality(S) \in Nat
      BY <2>6, <2>7, FS_CardinalityType, FS_Subset
    <2>10. Len(queue) <= QueueSize /\ QueueSize \in Nat
      BY QueueAssumption DEF QueueAssumption, TypeOK
    <2> HIDE DEF S
    <2>11. QED
      BY <2>1, <2>6, <2>8, <2>9, <2>10 DEF HeapBounded
  <1>2. QED
    BY <1>1, AlwaysInv, PTL
=============================================================================
