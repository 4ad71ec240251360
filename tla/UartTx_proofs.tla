--------------------------- MODULE UartTx_proofs ---------------------------
(***************************************************************************)
(* Safety of UartTx for any threads, lines, tx_write calls and ring size:  *)
(* one transfer at a time, and printing that is atomic and in order.       *)
(***************************************************************************)
EXTENDS UartTx, SequenceTheorems, TLAPS

-----------------------------------------------------------------------------
(* The inductive invariant.                                                *)

\* Who is printing holds tx_lock.
LockInv == \A w \in Writers : pc[w] # "idle" <=> tx_lock = w

\* How far a line has come, by the place in tx_write and tx_flush, and how much of it
\* ring_buf_put may be copying: no more than the call has and the ring takes.
LineInv ==
  \A w \in Writers :
    /\ pc[w] \in {"put", "copy", "wait", "start"} => done[w] < LineLen[w]
    /\ pc[w] \in {"flush", "flush_start", "unlock"} => done[w] = LineLen[w]
    /\ pc[w] = "copy" => claimed[w] <= Left(w) /\ Len(tx_ring) + claimed[w] <= TxBufSize

IInv == TypeOK /\ LockInv /\ LineInv /\ OneTransfer

LEMMA LineType ==
  ASSUME NEW w \in Writers, NEW n \in Nat
  PROVE  Line(w, n) \in Seq(Bytes) /\ Len(Line(w, n)) = LineLen[w]
  BY WritersAssumption DEF Line, Bytes

LEMMA LeftType ==
  ASSUME TypeOK, NEW w \in Writers, done[w] < LineLen[w]
  PROVE  Left(w) \in 1..(LineLen[w] - done[w])
  <1>1. LineLen[w] \in Nat /\ done[w] \in 0..LineLen[w] - 1
    BY WritersAssumption DEF TypeOK
  <1>2. CallEnd[w][done[w]] \in done[w] + 1..LineLen[w]
    BY <1>1, WritersAssumption
  <1> QED BY <1>1, <1>2 DEF Left

LEMMA Part ==
  ASSUME NEW s \in Seq(Bytes), NEW m \in Nat, NEW n \in Nat, m <= n, n <= Len(s)
  PROVE  SubSeq(s, m + 1, n) \in Seq(Bytes) /\ Len(SubSeq(s, m + 1, n)) = n - m
  OBVIOUS

LEMMA InitInv == Init => IInv
  <1> SUFFICES ASSUME Init PROVE IInv
    OBVIOUS
  <1>0. failed \in BOOLEAN
    BY Zenon DEF Init
  <1>1. TypeOK
    BY <1>0, SizeAssumption DEF Init, TypeOK, Pcs
  <1>2. LockInv /\ LineInv
    BY WritersAssumption DEF Init, LockInv, LineInv
  <1>3. OneTransfer
    BY DEF Init, OneTransfer, Starting
  <1> QED BY <1>1, <1>2, <1>3 DEF IInv

\* tx_start keeps a transfer inside the ring and leaves the token in one place.
LEMMA StartTransferType ==
  ASSUME NEW r \in Seq(Bytes), NEW b \in 0..TxBufSize - 1, tx_idle = 0,
         failed \in BOOLEAN, StartTransfer(r, b)
  PROVE  /\ dma' \in 0..Len(r) /\ failed' \in BOOLEAN
         /\ (dma' > 0 /\ tx_idle' = 0) \/ (dma' = 0 /\ tx_idle' = 1)
  <1>1. failed' \in BOOLEAN
    BY Zenon DEF StartTransfer
  <1>2. /\ dma' \in 0..Len(r)
        /\ (dma' > 0 /\ tx_idle' = 0) \/ (dma' = 0 /\ tx_idle' = 1)
    BY SizeAssumption DEF StartTransfer, Idle, Give, Lower
  <1> QED BY <1>1, <1>2

LEMMA BeginLineInv == ASSUME IInv, NEW w \in Writers, BeginLine(w) PROVE IInv'
  <1> USE DEF IInv, BeginLine, Goto, TakeLock, ring
  <1>1. TypeOK'
    BY SizeAssumption DEF TypeOK, Pcs
  <1>2. LockInv'
    BY WritersAssumption DEF TypeOK, LockInv
  <1>3. LineInv'
    <2>1. \A v \in Writers : v # w => pc'[v] = "idle"
      BY WritersAssumption DEF TypeOK, LockInv
    <2>2. pc'[w] = "put" /\ done'[w] = 0 /\ LineLen[w] > 0
      BY WritersAssumption DEF TypeOK
    <2> QED BY <2>1, <2>2 DEF LineInv
  <1>4. OneTransfer'
    BY DEF TypeOK, OneTransfer, Starting
  <1> QED BY <1>1, <1>2, <1>3, <1>4

LEMMA RingBufPutInv == ASSUME IInv, NEW w \in Writers, RingBufPut(w) PROVE IInv'
  <1> USE DEF IInv, RingBufPut, Goto, ring
  <1>0. Left(w) \in Nat
    BY LeftType DEF LineInv, TypeOK
  <1>1. TypeOK'
    BY <1>0, SizeAssumption DEF TypeOK, Pcs, Room, Lower
  <1>2. LockInv'
    BY DEF TypeOK, LockInv
  <1>3. LineInv'
    <2>1. Room(w) <= Left(w) /\ Len(tx_ring) + Room(w) <= TxBufSize
      BY <1>0, SizeAssumption DEF TypeOK, Room, Lower
    <2>2. claimed'[w] = Room(w) /\ \A v \in Writers : v # w => claimed'[v] = claimed[v]
      BY DEF TypeOK
    <2>3. pc'[w] = "copy" /\ pc[w] = "put" /\ \A v \in Writers : v # w => pc'[v] = pc[v]
      BY DEF TypeOK
    <2> QED BY <2>1, <2>2, <2>3 DEF LineInv, Left
  <1>4. OneTransfer'
    BY DEF TypeOK, OneTransfer, Starting
  <1> QED BY <1>1, <1>2, <1>3, <1>4

LEMMA RingBufPutFinishInv ==
  ASSUME IInv, NEW w \in Writers, RingBufPutFinish(w) PROVE IInv'
  <1> USE DEF IInv
  <1> DEFINE upto == done[w] + claimed[w]
             part == SubSeq(Line(w, line[w]), done[w] + 1, upto)
  <1>0. /\ done[w] \in Nat /\ claimed[w] \in Nat /\ LineLen[w] \in Nat /\ line[w] \in Nat
        /\ Left(w) \in 1..(LineLen[w] - done[w]) /\ claimed[w] <= Left(w)
        /\ Len(tx_ring) + claimed[w] <= TxBufSize /\ pc[w] = "copy"
    <2>1. done[w] \in Nat /\ claimed[w] \in Nat /\ line[w] \in Nat /\ pc[w] = "copy"
      BY DEF RingBufPutFinish, TypeOK
    <2>2. done[w] < LineLen[w] /\ claimed[w] <= Left(w) /\ Len(tx_ring) + claimed[w] <= TxBufSize
      BY <2>1 DEF LineInv
    <2>3. LineLen[w] \in Nat
      BY WritersAssumption
    <2> QED BY <2>1, <2>2, <2>3, LeftType
  <1>1. part \in Seq(Bytes) /\ Len(part) = claimed[w]
    <2>1. Line(w, line[w]) \in Seq(Bytes) /\ Len(Line(w, line[w])) = LineLen[w]
      BY <1>0, LineType
    <2>2. upto \in Nat /\ done[w] <= upto /\ upto <= LineLen[w]
      BY <1>0
    <2>3. upto - done[w] = claimed[w]
      BY <1>0
    <2> DEFINE l == Line(w, line[w])
    <2> HIDE DEF upto, l
    <2>4. SubSeq(l, done[w] + 1, upto) \in Seq(Bytes) /\ Len(SubSeq(l, done[w] + 1, upto)) = upto - done[w]
      BY <1>0, <2>1, <2>2, Part DEF l
    <2> QED BY <2>3, <2>4 DEF l, upto
  <1>2. TypeOK'
    <2>1. tx_ring' = tx_ring \o part /\ tx_ring' \in Seq(Bytes)
      BY <1>1 DEF RingBufPutFinish, TypeOK
    <2>2. Len(tx_ring') = Len(tx_ring) + claimed[w]
      BY <1>1, <2>1 DEF TypeOK
    <2>3. dma' \in 0..Len(tx_ring')
      BY <1>0, <2>2 DEF RingBufPutFinish, TypeOK
    <2>4. pc' \in [Writers -> Pcs] /\ done' \in [Writers -> Nat]
      BY <1>0 DEF RingBufPutFinish, TypeOK, Pcs
    <2> QED BY <1>0, <2>1, <2>2, <2>3, <2>4 DEF RingBufPutFinish, TypeOK
  <1>3. LockInv'
    BY <1>0 DEF RingBufPutFinish, TypeOK, LockInv
  <1>4. LineInv'
    <2>1. ASSUME NEW v \in Writers, v # w PROVE pc'[v] = "idle"
      BY <1>0, <2>1 DEF RingBufPutFinish, TypeOK, LockInv
    <2>2. done'[w] = upto /\ pc'[w] # "copy"
      BY DEF RingBufPutFinish, TypeOK
    <2>3. pc'[w] \in {"put", "wait"} => upto < LineLen[w]
      BY <1>0 DEF RingBufPutFinish, TypeOK
    <2>4. pc'[w] \notin {"put", "wait"} => pc'[w] = "flush" /\ upto = LineLen[w]
      <3>1. pc'[w] = IF claimed[w] < Left(w) THEN "wait"
                     ELSE IF upto < LineLen[w] THEN "put" ELSE "flush"
        BY DEF RingBufPutFinish, TypeOK
      <3>2. upto <= LineLen[w]
        BY <1>0
      <3> QED BY <1>0, <3>1, <3>2
    <2> QED BY <1>0, <2>1, <2>2, <2>3, <2>4 DEF LineInv
  <1>5. OneTransfer'
    <2>1. Starting' = Starting
      BY <1>0 DEF RingBufPutFinish, TypeOK, Starting
    <2> QED BY <2>1 DEF RingBufPutFinish, OneTransfer
  <1> QED BY <1>2, <1>3, <1>4, <1>5

LEMMA TokenInv ==
  ASSUME IInv, NEW w \in Writers, WaitIdle(w) \/ Flush(w) PROVE IInv'
  <1> USE DEF IInv, WaitIdle, Flush, Goto, ring
  <1>1. TypeOK'
    BY DEF TypeOK, Pcs
  <1>2. LockInv'
    BY DEF TypeOK, LockInv
  <1>3. LineInv'
    BY DEF TypeOK, LineInv, Left
  <1>4. OneTransfer'
    <2>1. CASE tx_idle = 1
      <3>1. tx_idle' = 0 /\ dma' = 0 /\ Starting = {} /\ pc'[w] \in {"start", "flush_start"}
        BY <2>1 DEF TypeOK, OneTransfer
      <3>2. \A v \in Writers : v # w => pc'[v] = pc[v]
        BY DEF TypeOK
      <3>3. Starting' = {w}
        BY <3>1, <3>2 DEF Starting
      <3> QED BY <3>1, <3>3 DEF OneTransfer
    <2>2. CASE tx_idle # 1
      <3>1. tx_idle' = tx_idle /\ dma' = dma
        BY <2>2 DEF TypeOK
      <3>2. Starting' = Starting
        BY <2>2 DEF TypeOK, Starting
      <3> QED BY <3>1, <3>2 DEF OneTransfer
    <2> QED BY <2>1, <2>2
  <1> QED BY <1>1, <1>2, <1>3, <1>4

LEMMA TxStartInv == ASSUME IInv, NEW w \in Writers, TxStart(w) PROVE IInv'
  <1> USE DEF IInv, TxStart, Goto, ring
  <1>0. /\ dma' \in 0..Len(tx_ring) /\ failed' \in BOOLEAN
        /\ (dma' > 0 /\ tx_idle' = 0) \/ (dma' = 0 /\ tx_idle' = 1)
    BY StartTransferType DEF TypeOK, OneTransfer, Starting
  <1>1. TypeOK'
    BY <1>0 DEF TypeOK, Pcs
  <1>2. LockInv'
    BY DEF TypeOK, LockInv
  <1>3. LineInv'
    BY DEF TypeOK, LineInv, Left
  <1>4. OneTransfer'
    <2>1. Starting' = {}
      BY DEF TypeOK, OneTransfer, Starting
    <2> QED BY <1>0, <2>1 DEF OneTransfer
  <1> QED BY <1>1, <1>2, <1>3, <1>4

LEMMA EndLineInv == ASSUME IInv, NEW w \in Writers, EndLine(w) PROVE IInv'
  <1> USE DEF IInv, EndLine, Goto, ring
  <1>1. TypeOK'
    BY DEF TypeOK, Pcs
  <1>2. LockInv'
    BY WritersAssumption DEF TypeOK, LockInv
  <1>3. LineInv'
    BY DEF TypeOK, LineInv, Left
  <1>4. OneTransfer'
    BY DEF TypeOK, OneTransfer, Starting
  <1> QED BY <1>1, <1>2, <1>3, <1>4

LEMMA InterruptInv == ASSUME IInv, NEW n \in 0..dma, TxDone(n) PROVE IInv'
  <1> USE DEF IInv
  <1> DEFINE rest == SubSeq(tx_ring, n + 1, Len(tx_ring))
             b    == (base + n) % TxBufSize
             gone == SubSeq(tx_ring, 1, n)
  <1>0. n \in Nat /\ n <= Len(tx_ring) /\ dma > 0 /\ tx_idle = 0 /\ Starting = {}
    BY DEF TypeOK, OneTransfer, TxDone
  <1>1. /\ rest \in Seq(Bytes) /\ Len(rest) = Len(tx_ring) - n
        /\ gone \in Seq(Bytes) /\ b \in 0..TxBufSize - 1
    BY <1>0, SizeAssumption DEF TypeOK
  <1> HIDE DEF rest, b, gone
  <1>2. /\ dma' \in 0..Len(rest) /\ failed' \in BOOLEAN
        /\ (dma' > 0 /\ tx_idle' = 0) \/ (dma' = 0 /\ tx_idle' = 1)
    <2>1. GoOn(rest, b)
      BY DEF TxDone, rest, b
    <2> QED BY <1>0, <1>1, <2>1, StartTransferType DEF GoOn, Idle, Give, TypeOK
  <1>3. tx_ring' = rest /\ base' = b /\ sent' = sent \o gone /\ UNCHANGED writer
    BY DEF TxDone, rest, b, gone
  <1>4. TypeOK'
    <2>1. sent' \in Seq(Bytes)
      BY <1>1, <1>3 DEF TypeOK
    <2>2. Len(tx_ring') <= TxBufSize
      BY <1>0, <1>1, <1>3, SizeAssumption DEF TypeOK
    <2>3. tx_idle' \in {0, 1} /\ dma' \in 0..Len(tx_ring') /\ failed' \in BOOLEAN
      BY <1>2, <1>3
    <2> QED BY <1>1, <1>3, <2>1, <2>2, <2>3 DEF TypeOK, writer
  <1>5. LockInv'
    BY <1>3 DEF LockInv, writer
  <1>6. LineInv'
    BY <1>0, <1>1, <1>3, SizeAssumption DEF LineInv, Left, writer, TypeOK
  <1>7. OneTransfer'
    BY <1>0, <1>2, <1>3 DEF OneTransfer, Starting, writer
  <1> QED BY <1>4, <1>5, <1>6, <1>7

LEMMA NextInv == IInv /\ [Next]_vars => IInv'
  <1> SUFFICES ASSUME IInv, [Next]_vars PROVE IInv'
    OBVIOUS
  <1>1. ASSUME NEW w \in Writers, PrintLine(w) PROVE IInv'
    BY <1>1, BeginLineInv, RingBufPutInv, RingBufPutFinishInv, TokenInv, TxStartInv,
       EndLineInv DEF PrintLine
  <1>2. CASE Interrupt
    BY <1>2, InterruptInv DEF Interrupt
  <1>3. CASE UNCHANGED vars
    BY <1>3 DEF vars, writer, ring, IInv, TypeOK, LockInv, LineInv, Left, OneTransfer, Starting
  <1> QED BY <1>1, <1>2, <1>3 DEF Next

LEMMA Invariant == Spec => []IInv
  BY InitInv, NextInv, PTL DEF Spec

\* Every variable keeps its type: above all, the ring never holds more than its size
\* and a transfer never runs past what is in it.
THEOREM TypeCorrect == Spec => []TypeOK
  <1>1. IInv => TypeOK
    BY DEF IInv
  <1> QED BY <1>1, Invariant, PTL

\* A transfer is never started while another one runs, by a thread or the interrupt.
THEOREM OneTransferHolds == Spec => []OneTransfer
  <1>1. IInv => OneTransfer
    BY DEF IInv
  <1> QED BY <1>1, Invariant, PTL

-----------------------------------------------------------------------------
(* UartTx implements LineStream: what is still to be sent is the ring and  *)
(* the rest of the line that is being printed.                             *)

LEMMA Associative ==
  ASSUME NEW r \in Seq(Bytes), NEW s \in Seq(Bytes), NEW t \in Seq(Bytes)
  PROVE  (r \o s) \o t = r \o (s \o t)
  OBVIOUS

\* A part is taken from the front of a concatenation: the rest goes on with its end.
LEMMA FrontOfConcat ==
  ASSUME NEW r \in Seq(Bytes), NEW t \in Seq(Bytes), NEW n \in 1..Len(r)
  PROVE  /\ SubSeq(r \o t, 1, n) = SubSeq(r, 1, n)
         /\ SubSeq(r \o t, n + 1, Len(r \o t)) = SubSeq(r, n + 1, Len(r)) \o t
  <1> DEFINE a == SubSeq(r, 1, n)
             b == SubSeq(r, n + 1, Len(r))
             x == b \o t
  <1>0. Len(r) \in Nat /\ n \in Nat /\ 1 \in 1..Len(r) /\ 1 <= n /\ n <= Len(r)
    OBVIOUS
  <1>1. SubSeq(r \o t, 1, n) = a
    BY <1>0, SubSeqOfConcat1
  <1>2. a \in Seq(Bytes) /\ Len(a) = n /\ b \in Seq(Bytes) /\ a \o b = r
    <2>1. Len(r) \in Nat /\ n <= Len(r) /\ 0 <= n /\ 0 \in Nat /\ 0 + 1 = 1
      BY <1>0
    <2>2. a \in Seq(Bytes) /\ Len(a) = n
      BY <1>0
    <2>3. b \in Seq(Bytes)
      BY <1>0
    <2>4. 1 \in 1..Len(r) + 1 /\ n \in 1 - 1..Len(r) /\ Len(r) \in n..Len(r)
      BY <1>0
    <2>5. a \o b = SubSeq(r, 1, Len(r))
      BY <2>4, ConcatAdjacentSubSeq, Zenon
    <2> QED BY <2>2, <2>3, <2>5, SubSeqFull
  <1>3. x \in Seq(Bytes) /\ Len(x) \in Nat
    BY <1>2
  <1> HIDE DEF a, b
  <1>4. r \o t = a \o x
    <2>1. (a \o b) \o t = a \o (b \o t)
      BY <1>2, Associative
    <2> QED BY <1>2, <2>1
  <1> HIDE DEF x
  <1>5. Len(a \o x) = n + Len(x)
    BY <1>2, <1>3, ConcatProperties
  <1>6. SubSeq(a \o x, n + 1, n + Len(x)) = x
    <2>1. CASE Len(x) = 0
      <3>1. n + 1 \in Int /\ n + Len(x) \in Int /\ n + Len(x) < n + 1
        BY <1>0, <1>3, <2>1
      <3>2. SubSeq(a \o x, n + 1, n + Len(x)) = <<>>
        BY <3>1, SubSeqEmpty, Zenon
      <3>3. x = <<>>
        BY <1>3, <2>1
      <3> QED BY <3>2, <3>3
    <2>2. CASE Len(x) > 0
      <3>1. n + 1 \in Len(a) + 1..Len(a) + Len(x) /\ n + Len(x) \in Len(a) + 1..Len(a) + Len(x)
        BY <1>0, <1>2, <1>3, <2>2
      <3> DEFINE from == (n + 1) - Len(a)
                 upto == (n + Len(x)) - Len(a)
      <3>2. SubSeq(a \o x, n + 1, n + Len(x)) = SubSeq(x, from, upto)
        BY <1>2, <1>3, <3>1, SubSeqOfConcat2
      <3>3. from = 1 /\ upto = Len(x)
        BY <1>0, <1>2, <1>3
      <3> HIDE DEF from, upto
      <3>4. SubSeq(x, 1, Len(x)) = x
        BY <1>3, SubSeqFull
      <3> QED BY <3>2, <3>3, <3>4, Zenon
    <2>3. Len(x) = 0 \/ Len(x) > 0
      BY <1>3
    <2> QED BY <2>1, <2>2, <2>3, Zenon
  <1> QED BY <1>1, <1>4, <1>5, <1>6 DEF a, b, x

LEMMA RestType ==
  ASSUME TypeOK, NEW w \in Writers
  PROVE  Rest(w) \in Seq(Bytes)
  <1>1. Line(w, line[w]) \in Seq(Bytes) /\ Len(Line(w, line[w])) = LineLen[w]
    <2>1. line[w] \in Nat
      BY SizeAssumption DEF TypeOK
    <2> QED BY <2>1, LineType
  <1>2. done[w] \in Nat /\ LineLen[w] \in Nat
    BY WritersAssumption DEF TypeOK
  <1> DEFINE l == Line(w, line[w])
  <1> HIDE DEF l
  <1>3. l \in Seq(Bytes) /\ Len(l) = LineLen[w]
    BY <1>1 DEF l
  <1>4. SubSeq(l, done[w] + 1, LineLen[w]) \in Seq(Bytes)
    BY <1>2, <1>3
  <1> QED BY <1>4 DEF Rest, l

LEMMA BeginLineRefines == ASSUME IInv, NEW w \in Writers, BeginLine(w) PROVE LS!PrintLine(w)
  <1>1. line[w] \in Nat /\ line[w] < MaxLines /\ line' = [line EXCEPT ![w] = @ + 1]
    BY SizeAssumption DEF IInv, TypeOK, BeginLine
  <1>2. line'[w] = line[w] + 1 /\ done'[w] = 0 /\ tx_ring' = tx_ring /\ tx_lock = "none"
        /\ tx_lock' = w /\ sent' = sent
    BY DEF IInv, TypeOK, BeginLine, TakeLock, ring
  <1> DEFINE l == Line(w, line[w] + 1)
  <1>3. l \in Seq(Bytes) /\ Len(l) = LineLen[w]
    <2>1. line[w] + 1 \in Nat
      BY <1>1
    <2> QED BY <2>1, LineType, Zenon
  <1>4. Todo = tx_ring
    BY <1>2, ConcatEmptySeq DEF Todo, IInv, TypeOK
  <1>5. Rest(w)' = l
    <2>1. Rest(w)' = SubSeq(l, 1, LineLen[w])
      BY <1>2 DEF Rest, Line
    <2> HIDE DEF l
    <2> QED BY <1>3, <2>1, SubSeqFull
  <1>6. Todo' = tx_ring \o l
    BY <1>2, <1>5, WritersAssumption DEF Todo
  <1> QED BY <1>1, <1>2, <1>4, <1>6 DEF LS!PrintLine, LS!Line, Line

\* A piece of the line goes from its rest to the ring: nothing changes in their sum.
LEMMA PutFinishRefines ==
  ASSUME IInv, NEW w \in Writers, RingBufPutFinish(w)
  PROVE  UNCHANGED <<line, Todo, sent>>
  <1> DEFINE upto == done[w] + claimed[w]
             l    == Line(w, line[w])
             n    == LineLen[w]
             part == SubSeq(l, done[w] + 1, upto)
             rest == SubSeq(l, upto + 1, n)
  <1>1. /\ done[w] \in Nat /\ claimed[w] \in Nat /\ n \in Nat /\ line[w] \in Nat
        /\ done[w] < n /\ claimed[w] <= Left(w) /\ Left(w) \in 1..(n - done[w])
        /\ tx_lock = w /\ w # "none" /\ tx_ring \in Seq(Bytes)
    BY LeftType, WritersAssumption, SizeAssumption
    DEF IInv, RingBufPutFinish, LineInv, LockInv, TypeOK
  <1>2. l \in Seq(Bytes) /\ Len(l) = n
    BY <1>1, LineType
  <1>3. upto \in Nat /\ done[w] <= upto /\ upto <= n
    BY <1>1
  <1>4. /\ tx_ring' = tx_ring \o part /\ done'[w] = upto
        /\ line' = line /\ tx_lock' = tx_lock /\ sent' = sent
    BY DEF RingBufPutFinish, IInv, TypeOK
  <1>5. Rest(w) = SubSeq(l, done[w] + 1, n) /\ Rest(w)' = rest
    BY <1>4 DEF Rest, Line
  <1> HIDE DEF upto, l, n
  <1>6. part \in Seq(Bytes) /\ rest \in Seq(Bytes) /\ part \o rest = SubSeq(l, done[w] + 1, n)
    <2>1. part \in Seq(Bytes) /\ rest \in Seq(Bytes)
      BY <1>1, <1>2, <1>3
    <2>2. /\ done[w] + 1 \in 1..Len(l) + 1
          /\ upto \in (done[w] + 1) - 1..Len(l) /\ n \in upto..Len(l)
      BY <1>1, <1>2, <1>3
    <2>3. part \o rest = SubSeq(l, done[w] + 1, n)
      BY <1>2, <2>2, ConcatAdjacentSubSeq, Zenon
    <2> QED BY <2>1, <2>3
  <1> HIDE DEF part, rest
  <1>7. Todo' = (tx_ring \o part) \o rest
    BY <1>1, <1>4, <1>5 DEF Todo
  <1>8. Todo = tx_ring \o (part \o rest)
    BY <1>1, <1>5, <1>6 DEF Todo
  <1>9. (tx_ring \o part) \o rest = tx_ring \o (part \o rest)
    BY <1>1, <1>6, Associative
  <1> QED BY <1>4, <1>7, <1>8, <1>9

LEMMA EndLineRefines ==
  ASSUME IInv, NEW w \in Writers, EndLine(w) PROVE UNCHANGED <<line, Todo, sent>>
  <1>1. /\ tx_lock = w /\ w # "none" /\ tx_lock' = "none" /\ done[w] = LineLen[w]
        /\ tx_ring' = tx_ring /\ tx_ring \in Seq(Bytes) /\ LineLen[w] \in Nat
        /\ line' = line /\ sent' = sent
    BY WritersAssumption DEF IInv, TypeOK, LockInv, LineInv, EndLine, Goto, ring
  <1>2. Rest(w) = <<>>
    BY <1>1, SubSeqEmpty DEF Rest
  <1> QED BY <1>1, <1>2 DEF Todo

LEMMA InterruptRefines ==
  ASSUME IInv, NEW n \in 0..dma, TxDone(n)
  PROVE  (n \in 1..Len(Todo) /\ LS!Transmit(n)) \/ UNCHANGED <<line, Todo, sent>>
  <1> DEFINE t == IF tx_lock = "none" THEN <<>> ELSE Rest(tx_lock)
  <1>1. /\ n \in Nat /\ n <= Len(tx_ring) /\ Len(tx_ring) \in Nat
        /\ tx_ring \in Seq(Bytes) /\ sent \in Seq(Bytes)
    BY DEF IInv, TypeOK
  <1>2. t \in Seq(Bytes)
    BY RestType DEF IInv, TypeOK
  <1>3. /\ sent' = sent \o SubSeq(tx_ring, 1, n)
        /\ tx_ring' = SubSeq(tx_ring, n + 1, Len(tx_ring))
        /\ t' = t /\ line' = line
    BY DEF TxDone, writer, Rest
  <1> HIDE DEF t
  <1>4. Todo = tx_ring \o t /\ Todo' = SubSeq(tx_ring, n + 1, Len(tx_ring)) \o t
    BY <1>3 DEF Todo, t
  <1>5. CASE n = 0
    <2>1. SubSeq(tx_ring, 1, 0) = <<>> /\ SubSeq(tx_ring, 1, Len(tx_ring)) = tx_ring
      BY <1>1, SubSeqEmpty, SubSeqFull
    <2>2. sent' = sent /\ Todo' = Todo
      <3>1. sent \o <<>> = sent
        BY <1>1, ConcatEmptySeq
      <3>2. n + 1 = 1
        BY <1>5
      <3> QED BY <1>3, <1>4, <1>5, <2>1, <3>1, <3>2
    <2> QED BY <1>3, <2>2
  <1>6. CASE n # 0
    <2>1. n \in 1..Len(tx_ring)
      BY <1>1, <1>6
    <2>2. n \in 1..Len(Todo)
      BY <1>1, <1>2, <1>4, <2>1
    <2>3. /\ SubSeq(Todo, 1, n) = SubSeq(tx_ring, 1, n)
          /\ SubSeq(Todo, n + 1, Len(Todo)) = SubSeq(tx_ring, n + 1, Len(tx_ring)) \o t
      BY <1>1, <1>2, <1>4, <2>1, FrontOfConcat
    <2> QED BY <1>3, <1>4, <2>2, <2>3 DEF LS!Transmit
  <1> QED BY <1>5, <1>6

LEMMA OtherStepsRefine ==
  ASSUME IInv, NEW w \in Writers, RingBufPut(w) \/ WaitIdle(w) \/ Flush(w) \/ TxStart(w)
  PROVE  UNCHANGED <<line, Todo, sent>>
  BY DEF RingBufPut, WaitIdle, Flush, TxStart, ring, Todo, Rest

\* Printing is atomic and first in, first out, whoever prints and whenever the
\* interrupt comes: UartTx implements LineStream.
THEOREM PrintIsAtomicHolds == Spec => PrintIsAtomic
  <1>1. Init => LS!Init
    <2> SUFFICES ASSUME Init PROVE LS!Init
      OBVIOUS
    <2>1. Todo = <<>>
      BY ConcatEmptySeq DEF Init, Todo
    <2> QED BY <2>1 DEF Init, LS!Init
  <1>2. IInv /\ [Next]_vars => [LS!Next]_LS!vars
    <2> SUFFICES ASSUME IInv, [Next]_vars PROVE [LS!Next]_LS!vars
      OBVIOUS
    <2>1. ASSUME NEW w \in Writers, PrintLine(w) PROVE [LS!Next]_LS!vars
      <3>1. CASE BeginLine(w)
        BY <3>1, BeginLineRefines DEF LS!Next
      <3>2. CASE ~BeginLine(w)
        BY <2>1, <3>2, PutFinishRefines, EndLineRefines, OtherStepsRefine DEF PrintLine, LS!vars
      <3> QED BY <3>1, <3>2
    <2>2. CASE Interrupt
      BY <2>2, InterruptRefines DEF Interrupt, LS!Next, LS!vars
    <2>3. CASE UNCHANGED vars
      BY <2>3 DEF vars, writer, ring, LS!vars, Todo, Rest
    <2> QED BY <2>1, <2>2, <2>3 DEF Next
  <1> QED BY <1>1, <1>2, Invariant, PTL DEF Spec, PrintIsAtomic, LS!Spec
=============================================================================
