-------------------------- MODULE UartBufferProofs --------------------------
(***************************************************************************)
(* Proofs about UartBuffer, for buffers of any size.                        *)
(***************************************************************************)
EXTENDS UartBuffer, SequenceTheorems, TLAPS

\* Interrupts are masked from before a byte is taken until the indices are
\* reset, and the indices are equal only then or in the empty buffer.
Masked == MIE = IF pc \in {"take", "check", "reset", "unmask"} THEN 0 ELSE 1
Level == /\ pc = "reset" => r = w
         /\ r = w => r = 0 \/ pc \in {"check", "reset"}

IInv == BufferTypeOK /\ Masked /\ Level

LEMMA Sizes == BUFFER_SIZE \in Nat /\ BUFFER_SIZE > 0
  BY BufferAssumption

LEMMA AcceptedIs ==
  ASSUME InBuffer, NEW n \in Nat
  PROVE  /\ Accepted(n) \in 0..n /\ w + Accepted(n) \in w..BUFFER_SIZE
         /\ Accepted(n) = IF n <= BUFFER_SIZE - w THEN n ELSE BUFFER_SIZE - w
  BY Sizes DEF Accepted, InBuffer

LEMMA BurstIs ==
  ASSUME NEW temp \in Bursts
  PROVE  /\ temp \in Seq(Byte) /\ Len(temp) \in Nat /\ Len(temp) > 0
         /\ \A i \in 1..Len(temp) : temp[i] \in Byte
  BY BufferAssumption DEF Bursts

LEMMA InitIInv == BufferInit => IInv
<1> SUFFICES ASSUME BufferInit PROVE IInv
  OBVIOUS
<1>1. InBuffer /\ Level
  BY Sizes DEF BufferInit, InBuffer, Level
<1> QED
  BY <1>1 DEF BufferInit, IInv, BufferTypeOK, Masked, Places

LEMMA IsrKeepsIInv ==
  ASSUME IInv, NEW temp \in Bursts, uart_isr(temp)
  PROVE  IInv'
<1>1. InBuffer /\ Level /\ pc \in Places /\ MIE \in {0, 1} /\ Masked
      /\ pc \notin {"take", "check", "reset", "unmask"}
  BY DEF IInv, BufferTypeOK, Masked, uart_isr
<1>2. /\ Accepted(Len(temp)) \in 0..Len(temp) /\ Len(temp) \in Nat
      /\ w + Accepted(Len(temp)) \in w..BUFFER_SIZE
  BY <1>1, AcceptedIs, BurstIs, Zenon
<1>3. w' \in w..BUFFER_SIZE /\ w' = w + Accepted(Len(temp)) /\ UNCHANGED <<r, MIE, c, pc>>
  BY <1>2 DEF uart_isr
<1>4. data' \in [Cells -> Byte]
  <2>1. ASSUME NEW i \in Cells
        PROVE  (IF w <= i /\ i < w + Accepted(Len(temp)) THEN temp[i - w + 1] ELSE data[i]) \in Byte
    <3>1. CASE w <= i /\ i < w + Accepted(Len(temp))
      <4>1. i - w + 1 \in 1..Len(temp)
        BY <1>1, <1>2, <3>1, Sizes DEF Cells, InBuffer
      <4> QED
        BY <3>1, <4>1, BurstIs
    <3>2. CASE ~(w <= i /\ i < w + Accepted(Len(temp)))
      BY <1>1, <3>2 DEF InBuffer
    <3> QED
      BY <3>1, <3>2
  <2> QED
    BY <2>1 DEF uart_isr
<1>5. InBuffer'
  BY <1>1, <1>3, <1>4, Sizes DEF InBuffer
<1>6. Level'
  <2>1. r = w => w' = w \/ w' # r
    BY <1>1, <1>3 DEF InBuffer
  <2>2. r' = w' => r = w
    BY <1>1, <1>2, <1>3 DEF InBuffer
  <2> QED
    BY <1>1, <1>3, <2>2 DEF Level
<1>7. BufferTypeOK' /\ Masked'
  BY <1>1, <1>3, <1>5 DEF BufferTypeOK, Masked, Places
<1> QED
  BY <1>6, <1>7 DEF IInv

LEMMA NextKeepsIInv == IInv /\ [BufferNext]_bufferVars => IInv'
<1> SUFFICES ASSUME IInv, [BufferNext]_bufferVars PROVE IInv'
  OBVIOUS
<1>1. InBuffer /\ Level /\ pc \in Places /\ MIE \in {0, 1} /\ Masked
  BY DEF IInv, BufferTypeOK
<1>2. CASE \E temp \in Bursts : uart_isr(temp)
  BY <1>2, IsrKeepsIInv
<1>3. CASE ReadBuffer
  <2>1. InBuffer' /\ Level'
    <3>1. CASE Test \/ Mask \/ CaughtUp \/ Unmask \/ EndKey \/ Restart
      BY <1>1, <3>1, Sizes
      DEF InBuffer, Level, Places, Test, Mask, CaughtUp, Unmask, EndKey, Restart
    <3>2. CASE Take
      <4>1. r \in Cells /\ data[r] \in Byte /\ r + 1 \in 0..w
        BY <1>1, <3>2, Sizes DEF InBuffer, Take, Cells
      <4> QED
        BY <1>1, <3>2, <4>1 DEF InBuffer, Level, Take
    <3>3. CASE Reset
      BY <1>1, <3>3, Sizes DEF InBuffer, Level, Reset
    <3>4. CASE Start
      BY <1>1, <3>4, Sizes DEF InBuffer, Level, Start
    <3> QED
      BY <1>3, <3>1, <3>2, <3>3, <3>4 DEF ReadBuffer
  <2>2. MIE' \in {0, 1} /\ pc' \in Places /\ Masked'
    <3>1. CASE Test
      BY <1>1, <3>1 DEF Masked, Places, Test
    <3>2. CASE Mask
      BY <1>1, <3>2 DEF Masked, Places, Mask
    <3>3. CASE Take
      BY <1>1, <3>3 DEF Masked, Places, Take
    <3>4. CASE CaughtUp
      BY <1>1, <3>4 DEF Masked, Places, CaughtUp
    <3>5. CASE Reset
      BY <1>1, <3>5 DEF Masked, Places, Reset
    <3>6. CASE Unmask
      BY <1>1, <3>6 DEF Masked, Places, Unmask
    <3>7. CASE EndKey
      BY <1>1, <3>7 DEF Masked, Places, EndKey
    <3>8. CASE Restart
      BY <1>1, <3>8 DEF Masked, Places, Restart
    <3>9. CASE Start
      BY <1>1, <3>9 DEF Masked, Places, Start
    <3> QED
      BY <1>3, <3>1, <3>2, <3>3, <3>4, <3>5, <3>6, <3>7, <3>8, <3>9 DEF ReadBuffer
  <2> QED
    BY <2>1, <2>2 DEF IInv, BufferTypeOK
<1>4. CASE UNCHANGED bufferVars
  BY <1>4 DEF IInv, BufferTypeOK, InBuffer, Masked, Level, bufferVars
<1> QED
  BY <1>2, <1>3, <1>4 DEF BufferNext

LEMMA AlwaysIInv == BufferSpec => []IInv
  BY InitIInv, NextKeepsIInv, PTL DEF BufferSpec

(* uart_isr never writes outside the buffer, readline reads only bytes that *)
(* were received.                                                           *)
THEOREM TypeCorrect == BufferSpec => []BufferTypeOK
<1>1. IInv => BufferTypeOK
  BY DEF IInv
<1> QED
  BY <1>1, AlwaysIInv, PTL
-----------------------------------------------------------------------------
(* The refinement.                                                         *)

queue == [i \in 1..(w - r) |-> data[r + i - 1]]
room == IF r = w THEN BUFFER_SIZE ELSE BUFFER_SIZE - w

LEMMA QueueIs ==
  ASSUME InBuffer
  PROVE  /\ queue \in Seq(Byte) /\ Len(queue) = w - r /\ w - r \in Nat
         /\ \A i \in 1..(w - r) : queue[i] = data[r + i - 1]
<1>1. w - r \in Nat
  BY Sizes DEF InBuffer
<1>2. ASSUME NEW i \in 1..(w - r) PROVE data[r + i - 1] \in Byte
  <2>1. r + i - 1 \in Cells
    BY Sizes DEF InBuffer, Cells
  <2> QED
    BY <2>1 DEF InBuffer
<1> QED
  BY <1>1, <1>2 DEF queue

LEMMA IsrPuts ==
  ASSUME IInv, IInv', NEW temp \in Bursts, uart_isr(temp)
  PROVE  Q!Put(temp)
<1> DEFINE n == Len(temp)
           k == Accepted(n)
<1>0. InBuffer /\ Level /\ InBuffer' /\ pc \notin {"take", "check", "reset", "unmask"}
  BY DEF IInv, BufferTypeOK, Masked, uart_isr
<1>1. n \in Nat /\ n > 0 /\ temp \in Seq(Byte) /\ \A i \in 1..n : temp[i] \in Byte
  BY BurstIs
<1>2. /\ k \in 0..n /\ w + k \in w..BUFFER_SIZE
      /\ k = IF n <= BUFFER_SIZE - w THEN n ELSE BUFFER_SIZE - w
  BY <1>0, <1>1, AcceptedIs, Zenon
<1>3. w' = w + k /\ r' = r /\ c' = c /\ w \in Nat /\ r \in 0..w /\ k \in Nat /\ r \in Nat
  BY <1>0, <1>2, Sizes DEF uart_isr, InBuffer
<1> HIDE DEF k, n
<1>4. room = BUFFER_SIZE - w
  BY <1>0, <1>3, Sizes DEF room, Level
<1>5. k = IF n <= room THEN n ELSE room
  BY <1>2, <1>4
<1>6. room' = IF n <= room THEN room - n ELSE 0
  <2>1. r' # w'
    BY <1>0, <1>1, <1>2, <1>3, Sizes DEF Level
  <2> QED
    BY <2>1, <1>1, <1>2, <1>3, <1>4, Sizes DEF room
<1> DEFINE s == SubSeq(temp, 1, k)
<1>7. s \in Seq(Byte) /\ Len(s) = k /\ \A i \in 1..k : s[i] = temp[i]
  <2>1. k \in Int /\ k <= Len(temp)
    BY <1>1, <1>2 DEF n
  <2>2. /\ SubSeq(temp, 1, k) \in Seq(Byte)
        /\ Len(SubSeq(temp, 1, k)) = IF 1 <= k THEN k - 1 + 1 ELSE 0
        /\ \A i \in 1..(k - 1 + 1) : SubSeq(temp, 1, k)[i] = temp[1 + i - 1]
    BY <1>1, <2>1, SubSeqProperties
  <2> QED
    BY <2>2, <2>1, <1>1, <1>3
<1> HIDE DEF s, k
<1>8. /\ queue \o s \in Seq(Byte) /\ Len(queue \o s) = (w - r) + k
      /\ \A i \in 1..((w - r) + k) :
           (queue \o s)[i] = IF i <= w - r THEN queue[i] ELSE s[i - (w - r)]
  <2>1. queue \in Seq(Byte) /\ Len(queue) = w - r
    BY <1>0, QueueIs
  <2>2. /\ queue \o s \in Seq(Byte) /\ Len(queue \o s) = Len(queue) + Len(s)
        /\ \A i \in 1..(Len(queue) + Len(s)) :
             (queue \o s)[i] = IF i <= Len(queue) THEN queue[i] ELSE s[i - Len(queue)]
    BY <1>7, <2>1, ConcatProperties, Zenon
  <2> QED
    BY <1>7, <2>1, <2>2
<1>9. queue' \in Seq(Byte) /\ Len(queue') = (w - r) + k
      /\ \A i \in 1..((w - r) + k) : queue'[i] = data'[r + i - 1]
  <2>1. w' - r' = (w - r) + k /\ (w - r) + k \in Nat
    BY <1>3
  <2>2. queue' = [i \in 1..((w - r) + k) |-> data'[r + i - 1]]
    BY <1>3, <2>1 DEF queue
  <2>3. ASSUME NEW i \in 1..((w - r) + k) PROVE data'[r + i - 1] \in Byte
    <3>1. r + i - 1 \in Cells
      BY <1>2, <1>3, Sizes DEF Cells
    <3>2. data' \in [Cells -> Byte]
      BY <1>0 DEF InBuffer
    <3> QED
      BY <3>1, <3>2
  <2> QED
    BY <2>1, <2>2, <2>3
<1>10. ASSUME NEW i \in 1..((w - r) + k) PROVE queue'[i] = (queue \o s)[i]
  <2>1. r + i - 1 \in Cells /\ queue'[i] = data'[r + i - 1]
    BY <1>2, <1>3, <1>9, Sizes DEF Cells
  <2>2. data'[r + i - 1] = IF w <= r + i - 1 /\ r + i - 1 < w + k THEN temp[(r + i - 1) - w + 1]
                           ELSE data[r + i - 1]
    BY <2>1 DEF uart_isr, k, n
  <2>3. CASE i <= w - r
    <3>1. data'[r + i - 1] = data[r + i - 1]
      BY <2>2, <2>3, <1>3
    <3>2. queue[i] = data[r + i - 1]
      BY <2>3, <1>3, <1>0, QueueIs
    <3> QED
      BY <2>1, <3>1, <3>2, <2>3, <1>8
  <2>4. CASE i > w - r
    <3>1. i - (w - r) \in 1..k /\ (r + i - 1) - w + 1 = i - (w - r)
          /\ w <= r + i - 1 /\ r + i - 1 < w + k
      BY <2>4, <1>3
    <3>2. data'[r + i - 1] = temp[i - (w - r)]
      BY <2>2, <3>1
    <3> QED
      BY <2>1, <2>4, <3>1, <3>2, <1>7, <1>8, <1>3
  <2>5. i <= w - r \/ i > w - r
    BY <1>3
  <2> QED
    BY <2>3, <2>4, <2>5
<1>11. queue' = queue \o s
  <2> HIDE DEF queue
  <2> QED
    BY <1>8, <1>9, <1>10, SeqEqual
<1> QED
  BY <1>3, <1>5, <1>6, <1>11 DEF Q!Put, queue, room, s, n

LEMMA TakeGets ==
  ASSUME IInv, Take
  PROVE  Q!Get
<1>1. InBuffer /\ Level /\ pc = "take"
  BY DEF IInv, BufferTypeOK, Take
<1>2. r < w /\ r' = r + 1 /\ w' = w /\ data' = data /\ c' = data[r] /\ w \in Nat /\ r \in Nat
      /\ w <= BUFFER_SIZE
  BY <1>1, Sizes DEF InBuffer, Take
<1>3. queue \in Seq(Byte) /\ Len(queue) = w - r /\ \A i \in 1..(w - r) : queue[i] = data[r + i - 1]
  BY <1>1, QueueIs
<1>4. queue # <<>> /\ queue[1] = data[r]
  BY <1>2, <1>3
<1>5. /\ Tail(queue) \in Seq(Byte) /\ Len(Tail(queue)) = (w - r) - 1
      /\ \A i \in 1..((w - r) - 1) : Tail(queue)[i] = data[(r + 1) + i - 1]
  <2>1. /\ Tail(queue) \in Seq(Byte) /\ Len(Tail(queue)) = (w - r) - 1
        /\ \A i \in 1..Len(Tail(queue)) : Tail(queue)[i] = queue[i + 1]
    BY <1>3, <1>4, HeadTailProperties
  <2>2. ASSUME NEW i \in 1..((w - r) - 1) PROVE Tail(queue)[i] = data[(r + 1) + i - 1]
    <3>1. i + 1 \in 1..(w - r) /\ (r + 1) + i - 1 = r + (i + 1) - 1
      BY <1>2
    <3> QED
      BY <2>1, <3>1, <1>3
  <2> QED
    BY <2>1, <2>2
<1>6. queue' = [i \in 1..((w - r) - 1) |-> data[(r + 1) + i - 1]]
  <2>1. w' - r' = (w - r) - 1
    BY <1>2
  <2> QED
    BY <1>2, <2>1 DEF queue
<1>7. /\ queue' \in Seq(Byte) /\ Len(queue') = (w - r) - 1
      /\ \A i \in 1..((w - r) - 1) : queue'[i] = data[(r + 1) + i - 1]
  <2>1. (w - r) - 1 \in Nat
    BY <1>2
  <2>2. ASSUME NEW i \in 1..((w - r) - 1) PROVE data[(r + 1) + i - 1] \in Byte
    <3>1. (r + 1) + i - 1 \in Cells
      BY <1>2, Sizes DEF Cells
    <3> QED
      BY <1>1, <3>1 DEF InBuffer
  <2> QED
    BY <2>1, <2>2, <1>6
<1>8. queue' = Tail(queue)
  <2> HIDE DEF queue
  <2> QED
    BY <1>5, <1>7, SeqEqual
<1>9. room' = IF queue' = <<>> THEN BUFFER_SIZE ELSE room
  <2>1. queue' = <<>> <=> r' = w'
    BY <1>2, <1>7
  <2> QED
    BY <2>1, <1>2 DEF room
<1> QED
  BY <1>2, <1>4, <1>8, <1>9 DEF Q!Get, queue, room

LEMMA SameQueue ==
  ASSUME data' = data, r' = r, w' = w
  PROVE  queue' = queue /\ room' = room
  BY DEF queue, room

LEMMA EmptyQueue ==
  ASSUME r = w, r \in Nat
  PROVE  queue = <<>> /\ room = BUFFER_SIZE
<1>1. 1..(w - r) = {}
  OBVIOUS
<1> QED
  BY <1>1 DEF queue, room

LEMMA EmptyQueueNext ==
  ASSUME r' = 0, w' = 0
  PROVE  queue' = <<>> /\ room' = BUFFER_SIZE
<1>1. 1..(w' - r') = {}
  OBVIOUS
<1> QED
  BY <1>1 DEF queue, room

LEMMA StepImplements == IInv /\ IInv' /\ [BufferNext]_bufferVars => [Q!Next]_(Q!vars)
<1> SUFFICES ASSUME IInv, IInv', [BufferNext]_bufferVars PROVE Q!Next \/ UNCHANGED Q!vars
  OBVIOUS
<1>1. CASE \E temp \in Bursts : uart_isr(temp)
  <2>1. PICK temp \in Bursts : uart_isr(temp)
    BY <1>1
  <2> QED
    BY <2>1, IsrPuts DEF Q!Next, Q!Bursts, Bursts
<1>2. CASE Take
  BY <1>2, TakeGets DEF Q!Next
<1>3. CASE Test \/ Mask \/ CaughtUp \/ Unmask \/ EndKey \/ Restart \/ UNCHANGED bufferVars
  <2>1. data' = data /\ r' = r /\ w' = w /\ c' = c
    BY <1>3 DEF Test, Mask, CaughtUp, Unmask, EndKey, Restart, bufferVars
  <2> QED
    BY <2>1, SameQueue DEF Q!vars, queue, room
<1>4. CASE Reset
  <2>1. r = w /\ r \in Nat /\ r' = 0 /\ w' = 0 /\ c' = c
    BY <1>4, Sizes DEF IInv, BufferTypeOK, InBuffer, Level, Reset
  <2> QED
    BY <2>1, EmptyQueue, EmptyQueueNext DEF Q!vars, queue, room
<1>5. CASE Start
  <2>1. pc = "start" /\ r' = 0 /\ w' = 0 /\ c' \in Byte
    BY <1>5 DEF Start
  <2>2. Q!Clear
    BY <2>1, EmptyQueueNext DEF Q!Clear, queue, room
  <2> QED
    BY <2>2 DEF Q!Next
<1> QED
  BY <1>1, <1>2, <1>3, <1>4, <1>5 DEF BufferNext, ReadBuffer

(* uart_isr and readline implement a queue that loses bytes only at its     *)
(* limit, or all of them when the zone starts again: this is what masking    *)
(* the interrupts while a byte is taken is for.                             *)
THEOREM Refinement == BufferSpec => ImplementsQueue
<1>1. BufferInit => Q!Init
  <2> SUFFICES ASSUME BufferInit PROVE Q!Init
    OBVIOUS
  <2>1. r = w /\ r \in Nat /\ c \in Byte
    BY DEF BufferInit
  <2> QED
    BY <2>1, EmptyQueue DEF Q!Init, queue, room
<1> QED
  BY <1>1, StepImplements, AlwaysIInv, PTL DEF BufferSpec, ImplementsQueue, Q!Spec
=============================================================================
