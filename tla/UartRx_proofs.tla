--------------------------- MODULE UartRx_proofs ---------------------------
(***************************************************************************)
(* Safety of UartRx for any number and size of blocks and any depth of the *)
(* queue: references, reports and blocks.                                  *)
(***************************************************************************)
EXTENDS UartRx, SequenceTheorems, FunctionTheorems, FiniteSetTheorems, TLAPS

-----------------------------------------------------------------------------
(* The inductive invariant.                                                *)

\* The places in the queue of the reports about a block, and their number.
Places(s, b) == {i \in 1..Len(s) : s[i].blk = b}
Held(s, b) == Cardinality(Places(s, b))

One(p) == IF p THEN 1 ELSE 0
Processing(b) == ev # <<>> /\ ev[1].blk = b

\* A block has a reference for the driver and one for each report about it.
RefInv ==
    \A b \in Blocks : refs[b] = One(b = cur \/ b = nxt) + Held(rx_events, b) + One(Processing(b))

\* The driver's blocks: two different ones, the next one not yet reported of, and of the
\* first only what has been reported.
Reported(e, c, n, r) ==
    /\ e.off + e.len <= RX_BUF_SIZE
    /\ e.blk = c => e.off + e.len <= r
    /\ e.blk # n
DriverInv ==
    /\ cur = 0 => nxt = 0 /\ fill = 0 /\ ready = 0 /\ ~asks
    /\ cur # 0 => cur # nxt
    /\ asks => nxt = 0
    /\ fill <= bytes
    /\ cur # 0 => \A k \in ready + 1..fill : data[cur][k] = bytes - fill + k
    /\ \A i \in 1..Len(rx_events) : Reported(rx_events[i], cur, nxt, ready)
    /\ ev # <<>> => Reported(ev[1], cur, nxt, ready)

QueueIntact ==
    /\ \A i \in 1..Len(rx_events) : Intact(rx_events[i])
    /\ ev # <<>> => Intact(ev[1])

IInv == TypeOK /\ RefInv /\ DriverInv /\ QueueIntact

-----------------------------------------------------------------------------
(* How many reports a queue holds about a block.                           *)

LEMMA HeldType ==
  ASSUME NEW s \in Seq(Events), NEW b \in Blocks
  PROVE  IsFiniteSet(Places(s, b)) /\ Held(s, b) \in Nat
  <1>1. IsFiniteSet(1..Len(s))
    BY FS_Interval
  <1>2. IsFiniteSet(Places(s, b))
    BY <1>1, FS_Subset DEF Places
  <1> QED BY <1>2, FS_CardinalityType DEF Held

LEMMA HeldEmpty ==
  ASSUME NEW b \in Blocks
  PROVE  Held(<<>>, b) = 0
  <1>1. Places(<<>>, b) = {}
    BY DEF Places
  <1> QED BY <1>1, FS_EmptySet DEF Held

LEMMA HeldAppend ==
  ASSUME NEW s \in Seq(Events), NEW e \in Events, NEW b \in Blocks
  PROVE  Held(Append(s, e), b) = Held(s, b) + One(e.blk = b)
  <1>1. CASE e.blk = b
    <2>1. Places(Append(s, e), b) = Places(s, b) \cup {Len(s) + 1}
      BY <1>1 DEF Places
    <2>2. Len(s) + 1 \notin Places(s, b)
      BY DEF Places
    <2> QED BY <1>1, <2>1, <2>2, HeldType, FS_AddElement DEF Held, One
  <1>2. CASE e.blk # b
    <2>1. Places(Append(s, e), b) = Places(s, b)
      BY <1>2 DEF Places
    <2> QED BY <1>2, <2>1, HeldType DEF Held, One
  <1> QED BY <1>1, <1>2

LEMMA HeldTail ==
  ASSUME NEW s \in Seq(Events), s # <<>>, NEW b \in Blocks
  PROVE  Held(s, b) = Held(Tail(s), b) + One(Head(s).blk = b)
  <1> DEFINE later == Places(s, b) \ {1}
             shift == [i \in Places(Tail(s), b) |-> i + 1]
  <1>0. Tail(s) \in Seq(Events) /\ Len(Tail(s)) = Len(s) - 1 /\ Head(s) = s[1] /\ Len(s) \in Nat \ {0}
    OBVIOUS
  <1>1. \A i \in 1..Len(Tail(s)) : Tail(s)[i] = s[i + 1]
    OBVIOUS
  <1>2. shift \in Bijection(Places(Tail(s), b), later)
    <2>1. shift \in [Places(Tail(s), b) -> later]
      BY <1>0, <1>1 DEF Places
    <2>2. \A i, j \in Places(Tail(s), b) : shift[i] = shift[j] => i = j
      BY DEF Places
    <2>3. \A j \in later : \E i \in Places(Tail(s), b) : shift[i] = j
      <3> TAKE j \in later
      <3>1. j - 1 \in Places(Tail(s), b)
        BY <1>0, <1>1 DEF Places
      <3>2. shift[j - 1] = j
        BY <1>0, <3>1 DEF Places
      <3> QED BY <3>1, <3>2
    <2> QED BY <2>1, <2>2, <2>3, Fun_IsBij
  <1>3. IsFiniteSet(Places(Tail(s), b)) /\ IsFiniteSet(Places(s, b))
    BY <1>0, HeldType
  <1>4. Cardinality(later) = Held(Tail(s), b)
    BY <1>2, <1>3, FS_Bijection DEF ExistsBijection, Held
  <1>5. Cardinality(later) = Cardinality(Places(s, b)) - One(1 \in Places(s, b))
    BY <1>3, FS_RemoveElement, FS_CardinalityType DEF One
  <1>6. 1 \in Places(s, b) <=> Head(s).blk = b
    BY <1>0 DEF Places
  <1> QED BY <1>0, <1>3, <1>4, <1>5, <1>6, HeldType, FS_CardinalityType DEF Held, One

\* A block of which no reference is left is not the driver's, and no report is about it.
LEMMA FreeBlock ==
  ASSUME TypeOK, RefInv, NEW b \in FreeBlocks
  PROVE  /\ b \in Blocks /\ b # cur /\ b # nxt /\ ~Processing(b) /\ b # 0
         /\ \A i \in 1..Len(rx_events) : rx_events[i].blk # b
  <1>1. b \in Blocks /\ refs[b] = 0 /\ b # 0
    BY DEF FreeBlocks, Blocks
  <1>2. Held(rx_events, b) \in Nat /\ IsFiniteSet(Places(rx_events, b))
    BY <1>1, HeldType DEF TypeOK
  <1>3. One(b = cur \/ b = nxt) = 0 /\ Held(rx_events, b) = 0 /\ One(Processing(b)) = 0
    BY <1>1, <1>2 DEF RefInv, One
  <1>4. Places(rx_events, b) = {}
    BY <1>2, <1>3, FS_EmptySet DEF Held
  <1> QED BY <1>1, <1>3, <1>4 DEF One, Places

\* A block that the driver did not take is free again.
LEMMA RefusedIsFree ==
  ASSUME TypeOK, NEW b \in FreeBlocks
  PROVE  Refused(b) = refs
  <1>1. b \in Blocks /\ refs[b] = 0 /\ refs \in [Blocks -> Nat]
    BY DEF FreeBlocks, TypeOK
  <1>2. \A x \in Blocks : Refused(b)[x] = refs[x]
    BY <1>1 DEF Refused, Unref, Alloc
  <1>3. Refused(b) = [x \in Blocks |-> Refused(b)[x]]
    BY DEF Refused, Unref
  <1> QED BY <1>1, <1>2, <1>3

\* Nothing that the queue or the driver's two blocks are about changes the sum.
LEMMA RefsSame ==
  ASSUME RefInv, UNCHANGED <<refs, rx_events, ev, cur, nxt>>
  PROVE  RefInv'
  BY DEF RefInv, Processing

\* The reports queued and the one being processed are reports.
LEMMA EventType ==
  ASSUME TypeOK
  PROVE  /\ \A i \in 1..Len(rx_events) : rx_events[i] \in Events
         /\ ev # <<>> => ev[1] \in Events /\ ev = <<ev[1]>>
         /\ rx_events \in Seq(Events) /\ Len(rx_events) \in Nat
  BY DEF TypeOK

-----------------------------------------------------------------------------
(* Every action preserves it.                                              *)

LEMMA InitInv == Init => IInv
  <1> SUFFICES ASSUME Init PROVE IInv
    OBVIOUS
  <1>a. refs \in [Blocks -> Nat] /\ data \in [Blocks -> [1..RX_BUF_SIZE -> 0..MaxBytes]]
    BY SizesAssumption DEF Init
  <1>b. rx_events \in Seq(Events) /\ Len(rx_events) = 0
    BY DEF Init
  <1>c. cur \in Blocks
    BY SizesAssumption DEF Init, Blocks
  <1>d. ev = <<>> /\ pc = "get" /\ cur \in Blocks \cup {0} /\ nxt \in Blocks \cup {0}
        /\ fill = 0 /\ ready = 0 /\ bytes = 0 /\ errors = 0 /\ asks = TRUE /\ rx_disabled = FALSE
    BY <1>c DEF Init
  <1>e. 0 \in 0..RX_BUF_SIZE /\ 0 \in 0..0 /\ 0 \in 0..MaxBytes /\ 0 \in 0..MaxErrors /\ 0 <= RX_EVENT_COUNT
    BY SizesAssumption
  <1>1. TypeOK
    BY <1>a, <1>b, <1>d, <1>e DEF TypeOK
  <1>2. RefInv
    BY HeldEmpty DEF Init, RefInv, One, Processing, Blocks
  <1>3. DriverInv /\ QueueIntact
    BY SizesAssumption DEF Init, DriverInv, QueueIntact, Reported
  <1> QED BY <1>1, <1>2, <1>3 DEF IInv

LEMMA ReceiveStep ==
  ASSUME IInv, Receive PROVE IInv'
  <1> USE DEF IInv
  <1>0. cur \in Blocks /\ fill + 1 \in 1..RX_BUF_SIZE /\ bytes + 1 \in 1..MaxBytes /\ bytes \in Nat
        /\ fill \in Nat /\ ready \in Nat /\ ready <= fill
    BY SizesAssumption DEF Receive, TypeOK
  <1>1. \A b \in Blocks, k \in 1..RX_BUF_SIZE :
            data'[b][k] = IF b = cur /\ k = fill + 1 THEN bytes + 1 ELSE data[b][k]
    BY <1>0 DEF Receive, TypeOK
  <1>2. data' \in [Blocks -> [1..RX_BUF_SIZE -> 0..MaxBytes]]
    <2>1. data \in [Blocks -> [1..RX_BUF_SIZE -> 0..MaxBytes]] /\ bytes + 1 \in 0..MaxBytes
      BY <1>0, SizesAssumption DEF TypeOK
    <2>2. [data[cur] EXCEPT ![fill + 1] = bytes + 1] \in [1..RX_BUF_SIZE -> 0..MaxBytes]
      BY <1>0, <2>1
    <2>3. data' = [data EXCEPT ![cur] = [data[cur] EXCEPT ![fill + 1] = bytes + 1]]
      BY DEF Receive
    <2> QED BY <1>0, <2>1, <2>2, <2>3
  <1>3. TypeOK'
    BY <1>0, <1>2, SizesAssumption DEF Receive, TypeOK, thread
  <1>4. RefInv'
    BY RefsSame DEF Receive, thread
  <1>5. ASSUME NEW e \in Events, Reported(e, cur, nxt, ready), Intact(e) PROVE Intact(e)'
    <2>1. \A k \in 1..e.len : e.off + k \in 1..RX_BUF_SIZE /\ e.blk \in Blocks
      BY <1>5, SizesAssumption DEF Events, Reported
    <2>2. \A k \in 1..e.len : ~(e.blk = cur /\ e.off + k = fill + 1)
      BY <1>0, <1>5, SizesAssumption DEF Events, Reported
    <2> QED BY <1>1, <1>5, <2>1, <2>2 DEF Intact
  <1>6. QueueIntact'
    BY <1>5 DEF QueueIntact, DriverInv, TypeOK, Receive, thread
  <1>7. ASSUME NEW k \in ready + 1..fill + 1 PROVE data'[cur][k] = bytes + 1 - (fill + 1) + k
    <2>1. k \in 1..RX_BUF_SIZE
      BY <1>0, SizesAssumption
    <2>2. data'[cur][k] = IF k = fill + 1 THEN bytes + 1 ELSE data[cur][k]
      BY <1>0, <1>1, <2>1
    <2>3. CASE k = fill + 1
      BY <1>0, <2>2, <2>3
    <2>4. CASE k # fill + 1
      <3>1. k \in ready + 1..fill /\ cur # 0 /\ k \in Nat
        BY <1>0, <2>4 DEF Blocks
      <3>2. data[cur][k] = bytes - fill + k
        BY <3>1 DEF DriverInv
      <3> QED BY <1>0, <2>2, <2>4, <3>1, <3>2
    <2> QED BY <2>3, <2>4
  <1>8. DriverInv'
    BY <1>0, <1>7 DEF DriverInv, Reported, Receive, thread
  <1> QED BY <1>3, <1>4, <1>6, <1>8

LEMMA RxRdyStep ==
  ASSUME IInv, RxRdy PROVE IInv'
  <1> USE DEF IInv
  <1> DEFINE e == [blk |-> cur, off |-> ready, len |-> fill - ready,
                   first |-> bytes - (fill - ready) + 1]
  <1>0. cur \in Blocks /\ cur # 0 /\ cur # nxt /\ fill \in Nat /\ ready \in Nat /\ ready < fill
        /\ fill <= RX_BUF_SIZE /\ fill <= bytes /\ bytes \in Nat /\ bytes <= MaxBytes
    BY SizesAssumption DEF RxRdy, TypeOK, DriverInv, Blocks
  <1>1. e \in Events
    BY <1>0, SizesAssumption DEF Events
  <1>2. Intact(e)
    <2> SUFFICES ASSUME NEW k \in 1..fill - ready
                 PROVE  data[cur][ready + k] = bytes - (fill - ready) + 1 + k - 1
      BY DEF Intact
    <2>1. ready + k \in ready + 1..fill /\ k \in Nat
      BY <1>0
    <2>2. data[cur][ready + k] = bytes - fill + (ready + k)
      BY <1>0, <2>1 DEF DriverInv
    <2> QED BY <1>0, <2>1, <2>2
  <1>3. ready' = fill /\ UNCHANGED <<data, rx_disabled, pc, ev, cur, nxt, fill, asks, bytes, errors>>
    BY DEF RxRdy, thread
  <1>4. ASSUME NEW d \in Events, Reported(d, cur, nxt, ready) PROVE Reported(d, cur, nxt, fill)
    BY <1>0, <1>3, <1>4, SizesAssumption DEF Reported, Events
  <1>5. Reported(e, cur, nxt, fill)
    BY <1>0, <1>3, SizesAssumption DEF Reported
  <1>6. CASE Len(rx_events) < RX_EVENT_COUNT
    <2>1. rx_events' = Append(rx_events, e) /\ refs' = Ref(cur)
      BY <1>6 DEF RxRdy
    <2>2. rx_events' \in Seq(Events) /\ Len(rx_events') <= RX_EVENT_COUNT
      BY <1>1, <1>6, <2>1, SizesAssumption DEF TypeOK
    <2>3. \A b \in Blocks : refs'[b] = refs[b] + One(b = cur)
      BY <1>0, <2>1 DEF Ref, One, TypeOK
    <2>4. \A b \in Blocks : Held(rx_events', b) = Held(rx_events, b) + One(cur = b)
      BY <1>1, <2>1, HeldAppend DEF TypeOK
    <2>5. RefInv'
      <3> SUFFICES ASSUME NEW b \in Blocks
                   PROVE  refs'[b] = One(b = cur \/ b = nxt) + Held(rx_events', b) + One(Processing(b))
        BY <1>3 DEF RefInv, Processing
      <3>1. Held(rx_events, b) \in Nat /\ One(b = cur) \in Nat /\ One(Processing(b)) \in Nat
            /\ One(b = cur \/ b = nxt) \in Nat /\ One(b = cur) = One(cur = b)
        BY HeldType DEF TypeOK, One
      <3> HIDE DEF IInv
      <3> QED BY <2>3, <2>4, <3>1 DEF IInv, RefInv
    <2>6. refs' \in [Blocks -> Nat]
      BY <1>0, <2>1 DEF Ref, TypeOK
    <2>7. TypeOK'
      BY <1>0, <1>3, <2>2, <2>6 DEF TypeOK
    <2>8. \A i \in 1..Len(rx_events') : rx_events'[i] = e \/ (i \in 1..Len(rx_events) /\ rx_events'[i] = rx_events[i])
      BY <2>1, <1>1 DEF TypeOK
    <2>9. QueueIntact'
      BY <1>2, <1>3, <2>8 DEF QueueIntact, Intact
    <2>10. \A i \in 1..Len(rx_events') : Reported(rx_events'[i], cur, nxt, fill)
      <3> TAKE i \in 1..Len(rx_events')
      <3>1. rx_events'[i] = e \/ (rx_events'[i] \in Events /\ Reported(rx_events'[i], cur, nxt, ready))
        BY <2>8, EventType DEF DriverInv
      <3> HIDE DEF e
      <3> QED BY <3>1, <1>4, <1>5
    <2>11. ev # <<>> => Reported(ev[1], cur, nxt, fill)
      BY <1>4, EventType DEF DriverInv
    <2>12. DriverInv'
      BY <1>0, <1>3, <2>10, <2>11 DEF DriverInv
    <2> QED BY <2>5, <2>7, <2>9, <2>12
  <1>7. CASE ~(Len(rx_events) < RX_EVENT_COUNT)
    <2>1. UNCHANGED <<rx_events, refs>>
      BY <1>7 DEF RxRdy, QueueFull
    <2>2. TypeOK' /\ RefInv'
      BY <1>0, <1>3, <2>1, RefsSame DEF TypeOK
    <2>3. \A i \in 1..Len(rx_events') : Reported(rx_events'[i], cur, nxt, fill)
      BY <1>4, <2>1, EventType DEF DriverInv
    <2>4. ev # <<>> => Reported(ev[1], cur, nxt, fill)
      BY <1>4, EventType DEF DriverInv
    <2>5. DriverInv'
      BY <1>0, <1>3, <2>3, <2>4 DEF DriverInv
    <2>6. QueueIntact'
      BY <1>3, <2>1 DEF QueueIntact, Intact
    <2> QED BY <2>2, <2>5, <2>6
  <1> QED BY <1>6, <1>7

\* The driver's asking for a block touches no report.
LEMMA BufRequestStep ==
  ASSUME IInv, BufRequest PROVE IInv'
  <1> USE DEF IInv
  <1>1. UNCHANGED <<data, rx_events, rx_disabled, pc, ev, cur, fill, ready, bytes, errors>>
        /\ asks /\ asks' = FALSE /\ nxt = 0 /\ cur \in Blocks /\ cur # 0
    BY DEF BufRequest, thread, DriverInv, TypeOK
  <1>2. CASE UNCHANGED <<nxt, refs>>
    <2>1. TypeOK' /\ RefInv'
      BY <1>1, <1>2, RefsSame DEF TypeOK
    <2>2. DriverInv' /\ QueueIntact'
      BY <1>1, <1>2 DEF DriverInv, QueueIntact, Intact
    <2> QED BY <2>1, <2>2
  <1>3. ASSUME NEW b \in FreeBlocks, nxt' = b, refs' = Alloc(b) PROVE IInv'
    <2>1. /\ b \in Blocks /\ b # cur /\ ~Processing(b) /\ b # 0
          /\ \A i \in 1..Len(rx_events) : rx_events[i].blk # b
      BY FreeBlock
    <2>2. refs[b] = 0 /\ refs' = [refs EXCEPT ![b] = 1] /\ refs' \in [Blocks -> Nat]
      BY <1>3, <2>1 DEF FreeBlocks, Alloc, TypeOK
    <2>3. TypeOK'
      BY <1>1, <1>3, <2>1, <2>2 DEF TypeOK
    <2>4. RefInv'
      <3> SUFFICES ASSUME NEW x \in Blocks
                   PROVE  refs'[x] = One(x = cur \/ x = b) + Held(rx_events, x) + One(Processing(x))
        BY <1>1, <1>3 DEF RefInv, Processing
      <3>1. Held(rx_events, x) \in Nat
        BY HeldType DEF TypeOK
      <3>2. refs[x] = One(x = cur) + Held(rx_events, x) + One(Processing(x)) /\ x # 0
        BY <1>1 DEF RefInv, Blocks
      <3>3. CASE x = b
        <4>1. refs'[x] = 1 /\ One(x = cur) = 0 /\ One(Processing(x)) = 0 /\ One(x = cur \/ x = b) = 1
          BY <2>1, <2>2, <3>3 DEF One, TypeOK
        <4> QED BY <2>2, <3>1, <3>2, <3>3, <4>1
      <3>4. CASE x # b
        BY <2>2, <3>2, <3>4 DEF One, TypeOK
      <3> QED BY <3>3, <3>4
    <2>5. DriverInv'
      BY <1>1, <1>3, <2>1 DEF DriverInv, Reported, Processing
    <2>6. QueueIntact'
      BY <1>1 DEF QueueIntact, Intact
    <2> QED BY <2>3, <2>4, <2>5, <2>6
  <1>4. ASSUME NEW b \in FreeBlocks, UNCHANGED nxt, refs' = Refused(b) PROVE IInv'
    <2>1. UNCHANGED <<nxt, refs>>
      BY <1>4, RefusedIsFree
    <2> QED BY <1>2, <2>1
  <1> QED BY <1>2, <1>3, <1>4 DEF BufRequest

\* References of the driver's blocks are given back with the blocks.
LEMMA NextBlockStep ==
  ASSUME IInv, NextBlock PROVE IInv'
  <1> USE DEF IInv
  <1>1. /\ UNCHANGED <<data, rx_events, rx_disabled, pc, ev, bytes, errors>>
        /\ cur' = nxt /\ nxt' = 0 /\ fill' = 0 /\ ready' = 0 /\ asks' = TRUE
        /\ refs' = Unref(refs, {cur})
        /\ nxt \in Blocks /\ nxt # 0 /\ cur \in Blocks /\ cur # nxt /\ cur # 0 /\ bytes \in Nat
    BY SizesAssumption DEF NextBlock, thread, DriverInv, TypeOK, Blocks
  <1>2. RefInv'
    <2> SUFFICES ASSUME NEW x \in Blocks
                 PROVE  refs'[x] = One(x = nxt \/ x = 0) + Held(rx_events, x) + One(Processing(x))
      BY <1>1 DEF RefInv, Processing
    <2>1. Held(rx_events, x) \in Nat /\ One(Processing(x)) \in Nat /\ x # 0
      BY HeldType DEF TypeOK, One, Blocks
    <2>2. refs[x] = One(x = cur \/ x = nxt) + Held(rx_events, x) + One(Processing(x))
      BY DEF RefInv
    <2>3. refs'[x] = IF x = cur THEN refs[x] - 1 ELSE refs[x]
      BY <1>1 DEF Unref
    <2>4. One(x = nxt \/ x = 0) = IF x = cur THEN One(x = cur \/ x = nxt) - 1 ELSE One(x = cur \/ x = nxt)
      BY <1>1, <2>1 DEF One
    <2>5. One(x = cur \/ x = nxt) \in Nat
      BY DEF One
    <2> QED BY <2>1, <2>2, <2>3, <2>4, <2>5
  <1>3. refs' \in [Blocks -> Nat]
    <2>1. \A x \in Blocks : refs'[x] \in Nat
      <3> TAKE x \in Blocks
      <3>1. Held(rx_events, x) \in Nat /\ refs'[x] = One(x = nxt \/ x = 0) + Held(rx_events, x) + One(Processing(x))
        BY <1>1, <1>2, HeldType DEF TypeOK, RefInv, Processing
      <3> QED BY <3>1 DEF One
    <2> QED BY <1>1, <2>1 DEF Unref
  <1>4. TypeOK'
    <2>1. 0 \in 0..RX_BUF_SIZE /\ 0 \in 0..0
      BY SizesAssumption
    <2> QED BY <1>1, <1>3, <2>1 DEF TypeOK
  <1>5. ASSUME NEW d \in Events, Reported(d, cur, nxt, ready) PROVE Reported(d, nxt, 0, 0)
    BY <1>5, SizesAssumption DEF Reported, Events, Blocks
  <1>6. DriverInv'
    <2>1. \A i \in 1..Len(rx_events) : Reported(rx_events[i], nxt, 0, 0)
      BY <1>5, EventType DEF DriverInv
    <2>2. ev # <<>> => Reported(ev[1], nxt, 0, 0)
      BY <1>5, EventType DEF DriverInv
    <2>3. \A k \in 0 + 1..0 : data'[nxt][k] = bytes - 0 + k
      OBVIOUS
    <2> QED BY <1>1, <2>1, <2>2, <2>3 DEF DriverInv
  <1>7. QueueIntact'
    BY <1>1 DEF QueueIntact, Intact
  <1> QED BY <1>2, <1>4, <1>6, <1>7

LEMMA StopStep ==
  ASSUME IInv, Stop, UNCHANGED errors \/ errors' \in 0..MaxErrors, cur # 0 PROVE IInv'
  <1> USE DEF IInv
  <1>1. /\ UNCHANGED <<data, rx_events, pc, ev, bytes>> /\ rx_disabled' = TRUE
        /\ cur' = 0 /\ nxt' = 0 /\ fill' = 0 /\ ready' = 0 /\ asks' = FALSE
        /\ refs' = Unref(refs, {cur, nxt} \ {0})
        /\ cur # nxt /\ bytes \in Nat
    BY SizesAssumption DEF Stop, RxDisabled, thread, DriverInv, TypeOK
  <1>2. ASSUME NEW x \in Blocks PROVE refs'[x] = Held(rx_events, x) + One(Processing(x))
    <2>1. Held(rx_events, x) \in Nat /\ One(Processing(x)) \in Nat /\ x # 0
      BY HeldType DEF TypeOK, One, Blocks
    <2>2. refs[x] = One(x = cur \/ x = nxt) + Held(rx_events, x) + One(Processing(x))
      BY DEF RefInv
    <2>3. refs'[x] = IF x = cur \/ x = nxt THEN refs[x] - 1 ELSE refs[x]
      BY <1>1, <2>1 DEF Unref
    <2> QED BY <2>1, <2>2, <2>3 DEF One
  <1>3. RefInv'
    <2> SUFFICES ASSUME NEW x \in Blocks
                 PROVE  refs'[x] = One(x = 0) + Held(rx_events, x) + One(Processing(x))
      BY <1>1 DEF RefInv, Processing
    <2>1. Held(rx_events, x) \in Nat /\ One(Processing(x)) \in Nat /\ One(x = 0) = 0
      BY HeldType DEF TypeOK, One, Blocks
    <2> QED BY <1>2, <2>1
  <1>4. refs' \in [Blocks -> Nat]
    <2>1. \A x \in Blocks : refs'[x] \in Nat
      <3> TAKE x \in Blocks
      <3>1. Held(rx_events, x) \in Nat /\ One(Processing(x)) \in Nat
        BY HeldType DEF TypeOK, One
      <3> QED BY <1>2, <3>1
    <2> QED BY <1>1, <2>1 DEF Unref
  <1>5. TypeOK'
    <2>1. 0 \in 0..RX_BUF_SIZE /\ 0 \in 0..0
      BY SizesAssumption
    <2> QED BY <1>1, <1>4, <2>1 DEF TypeOK
  <1>6. ASSUME NEW d \in Events, Reported(d, cur, nxt, ready) PROVE Reported(d, 0, 0, 0)
    BY <1>6, SizesAssumption DEF Reported, Events, Blocks
  <1>7. DriverInv'
    <2>1. \A i \in 1..Len(rx_events) : Reported(rx_events[i], 0, 0, 0)
      BY <1>6, EventType DEF DriverInv
    <2>2. ev # <<>> => Reported(ev[1], 0, 0, 0)
      BY <1>6, EventType DEF DriverInv
    <2> QED BY <1>1, <2>1, <2>2 DEF DriverInv
  <1>8. QueueIntact'
    BY <1>1 DEF QueueIntact, Intact
  <1> QED BY <1>3, <1>5, <1>7, <1>8
\* The thread takes the first report: it is no longer queued, and now it is processed.
LEMMA GetStep ==
  ASSUME IInv, Get PROVE IInv'
  <1> USE DEF IInv
  <1>1. /\ UNCHANGED <<refs, data, rx_disabled, cur, nxt, fill, ready, asks, bytes, errors>>
        /\ rx_events # <<>> /\ rx_events' = Tail(rx_events) /\ ev' = <<Head(rx_events)>>
        /\ pc = "get" /\ pc' = "process"
    BY DEF Get, Goto, driver
  <1>2. /\ Tail(rx_events) \in Seq(Events) /\ Head(rx_events) \in Events /\ Head(rx_events) = rx_events[1]
        /\ Len(Tail(rx_events)) = Len(rx_events) - 1 /\ Len(rx_events) \in Nat /\ Len(rx_events) > 0
        /\ \A i \in 1..Len(Tail(rx_events)) : Tail(rx_events)[i] = rx_events[i + 1] /\ i + 1 \in 1..Len(rx_events)
    BY <1>1, EventType
  <1>3. ev' # <<>> /\ ev'[1] = rx_events[1] /\ 1 \in 1..Len(rx_events) /\ ev' \in {<<x>> : x \in Events}
    BY <1>1, <1>2
  <1>4. TypeOK'
    <2>1. Len(rx_events') <= RX_EVENT_COUNT
      BY <1>1, <1>2, SizesAssumption DEF TypeOK
    <2> QED BY <1>1, <1>2, <1>3, <2>1 DEF TypeOK
  <1>5. RefInv'
    <2> SUFFICES ASSUME NEW x \in Blocks
                 PROVE  refs[x] = One(x = cur \/ x = nxt) + Held(Tail(rx_events), x) + One(Head(rx_events).blk = x)
      BY <1>1, <1>2, <1>3 DEF RefInv, Processing
    <2>1. Held(rx_events, x) = Held(Tail(rx_events), x) + One(Head(rx_events).blk = x)
      BY <1>1, HeldTail, EventType
    <2>2. ev = <<>>
      BY <1>1 DEF TypeOK
    <2>3. refs[x] = One(x = cur \/ x = nxt) + Held(rx_events, x) + One(Processing(x)) /\ One(Processing(x)) = 0
      BY <2>2 DEF RefInv, Processing, One
    <2>4. Held(Tail(rx_events), x) \in Nat
      BY <1>2, HeldType
    <2> QED BY <2>1, <2>3, <2>4 DEF One
  <1>6. DriverInv'
    BY <1>1, <1>2, <1>3 DEF DriverInv
  <1>7. QueueIntact'
    <2>1. \A i \in 1..Len(rx_events) : Intact(rx_events[i])
      BY DEF QueueIntact
    <2>2. \A i \in 1..Len(rx_events') : Intact(rx_events'[i])
      BY <1>1, <1>2, <2>1
    <2>3. Intact(ev'[1])
      BY <1>3, <2>1
    <2> QED BY <1>1, <2>2, <2>3 DEF QueueIntact, Intact
  <1> QED BY <1>4, <1>5, <1>6, <1>7

LEMMA ProcessedStep ==
  ASSUME IInv, Processed PROVE IInv'
  <1> USE DEF IInv
  <1>1. /\ UNCHANGED <<data, rx_events, rx_disabled, cur, nxt, fill, ready, asks, bytes, errors>>
        /\ ev # <<>> /\ ev' = <<>> /\ pc' = "check" /\ refs' = Unref(refs, {ev[1].blk})
    BY DEF Processed, Goto, driver, TypeOK
  <1>2. ASSUME NEW x \in Blocks
        PROVE  refs'[x] \in Nat /\ refs'[x] = One(x = cur \/ x = nxt) + Held(rx_events, x) + 0
    <2>1. Held(rx_events, x) \in Nat
      BY HeldType DEF TypeOK
    <2>2. refs[x] = One(x = cur \/ x = nxt) + Held(rx_events, x) + One(Processing(x))
      BY DEF RefInv
    <2>3. refs'[x] = IF x = ev[1].blk THEN refs[x] - 1 ELSE refs[x]
      BY <1>1 DEF Unref
    <2>4. Processing(x) <=> x = ev[1].blk
      BY <1>1 DEF Processing
    <2> QED BY <2>1, <2>2, <2>3, <2>4 DEF One
  <1>3. RefInv'
    <2>1. \A x \in Blocks : One(Processing(x))' = 0
      BY <1>1 DEF Processing, One
    <2> QED BY <1>1, <1>2, <2>1 DEF RefInv
  <1>4. refs' \in [Blocks -> Nat]
    BY <1>1, <1>2 DEF Unref
  <1>5. TypeOK'
    BY <1>1, <1>4 DEF TypeOK
  <1>6. DriverInv' /\ QueueIntact'
    BY <1>1 DEF DriverInv, QueueIntact, Intact
  <1> QED BY <1>3, <1>5, <1>6

\* Starting RX takes a free block, which no report is about; failing to start it takes none.
LEMMA RxEnableStep ==
  ASSUME IInv, RxEnable PROVE IInv'
  <1> USE DEF IInv
  <1>1. UNCHANGED <<data, rx_events, rx_disabled, ev, nxt, bytes, errors>> /\ pc = "enable"
    BY DEF RxEnable, RxStarts, RxStartFails, Goto, driver
  <1>2. CASE pc' = "get" /\ UNCHANGED <<cur, refs, fill, ready, asks>>
    <2>1. TypeOK' /\ RefInv'
      BY <1>1, <1>2, RefsSame DEF TypeOK
    <2>2. DriverInv' /\ QueueIntact'
      BY <1>1, <1>2 DEF DriverInv, QueueIntact, Intact
    <2> QED BY <2>1, <2>2
  <1>3. ASSUME NEW b \in FreeBlocks, cur = 0, cur' = b, refs' = Alloc(b), pc' = "clear",
               fill' = 0, ready' = 0, asks' = TRUE
        PROVE  IInv'
    <2>1. /\ b \in Blocks /\ ~Processing(b) /\ b # 0 /\ nxt = 0
          /\ \A i \in 1..Len(rx_events) : rx_events[i].blk # b
      BY <1>3, FreeBlock DEF DriverInv
    <2>2. refs[b] = 0 /\ refs' = [refs EXCEPT ![b] = 1] /\ refs' \in [Blocks -> Nat]
      BY <1>3, <2>1 DEF FreeBlocks, Alloc, TypeOK
    <2>3. TypeOK'
      <3>1. 0 \in 0..RX_BUF_SIZE /\ 0 \in 0..0
        BY SizesAssumption
      <3> QED BY <1>1, <1>3, <2>1, <2>2, <3>1 DEF TypeOK
    <2>4. RefInv'
      <3> SUFFICES ASSUME NEW x \in Blocks
                   PROVE  refs'[x] = One(x = b \/ x = nxt) + Held(rx_events, x) + One(Processing(x))
        BY <1>1, <1>3 DEF RefInv, Processing
      <3>1. Held(rx_events, x) \in Nat /\ One(Processing(x)) \in Nat /\ x # 0
        BY HeldType DEF TypeOK, One, Blocks
      <3>2. refs[x] = One(x = cur \/ x = nxt) + Held(rx_events, x) + One(Processing(x))
        BY DEF RefInv
      <3>3. One(x = cur \/ x = nxt) = 0 /\ One(x = b \/ x = nxt) = One(x = b)
        BY <1>3, <2>1, <3>1 DEF One
      <3>4. refs'[x] = IF x = b THEN 1 ELSE refs[x]
        BY <2>1, <2>2 DEF TypeOK
      <3> QED BY <2>2, <3>1, <3>2, <3>3, <3>4 DEF One
    <2>5. ASSUME NEW d \in Events, Reported(d, cur, nxt, ready), d.blk # b PROVE Reported(d, b, nxt, 0)
      BY <2>5 DEF Reported
    <2>6. \A i \in 1..Len(rx_events) : Reported(rx_events[i], b, nxt, 0)
      BY <2>1, <2>5, EventType DEF DriverInv
    <2>7. ev # <<>> => Reported(ev[1], b, nxt, 0)
      BY <2>1, <2>5, EventType DEF DriverInv, Processing
    <2>8. 0 <= bytes /\ \A k \in 0 + 1..0 : data[b][k] = bytes - 0 + k
      BY SizesAssumption DEF TypeOK
    <2>9. DriverInv'
      BY <1>1, <1>3, <2>1, <2>6, <2>7, <2>8 DEF DriverInv
    <2>10. QueueIntact'
      BY <1>1 DEF QueueIntact, Intact
    <2> QED BY <2>3, <2>4, <2>9, <2>10
  <1>4. CASE RxStarts
    BY <1>3, <1>4 DEF RxStarts, Goto
  <1>5. CASE RxStartFails
    <2>1. UNCHANGED refs
      BY <1>5, RefusedIsFree DEF RxStartFails
    <2> QED BY <1>2, <1>5, <2>1 DEF RxStartFails, Goto, driver
  <1> QED BY <1>4, <1>5 DEF RxEnable

\* The other steps of the thread touch neither blocks nor reports.
LEMMA RestStep ==
  ASSUME IInv, GetTimesOut \/ Check \/ Clear \/ UNCHANGED vars PROVE IInv'
  <1> USE DEF IInv
  <1>1. UNCHANGED <<refs, data, rx_events, ev, cur, nxt, fill, ready, asks, bytes, errors>>
    BY DEF GetTimesOut, Check, Clear, vars, thread, driver
  <1>2. /\ rx_disabled' \in BOOLEAN
        /\ pc' \in {"get", "process", "check", "enable", "clear"}
        /\ (pc' = "process" <=> pc = "process")
    BY DEF GetTimesOut, Check, Clear, Goto, vars, thread, TypeOK
  <1>3. TypeOK'
    BY <1>1, <1>2 DEF TypeOK
  <1>4. RefInv'
    BY <1>1, RefsSame
  <1>5. DriverInv' /\ QueueIntact'
    BY <1>1 DEF DriverInv, QueueIntact, Intact
  <1> QED BY <1>3, <1>4, <1>5

LEMMA NextInv == IInv /\ [Next]_vars => IInv'
  <1> SUFFICES ASSUME IInv, [Next]_vars PROVE IInv'
    OBVIOUS
  <1>1. CASE NoBlock
    <2>1. cur # 0
      BY <1>1, SizesAssumption DEF NoBlock, IInv, DriverInv
    <2> QED BY <1>1, <2>1, StopStep DEF NoBlock
  <1>2. CASE LineError
    <2>1. errors' \in 0..MaxErrors
      BY <1>2, SizesAssumption DEF LineError, IInv, TypeOK
    <2> QED BY <1>2, <2>1, StopStep DEF LineError
  <1> QED
    BY <1>1, <1>2, ReceiveStep, RxRdyStep, BufRequestStep, NextBlockStep, GetStep, ProcessedStep,
       RxEnableStep, RestStep DEF Next, Driver, RxThread

THEOREM Invariance == Spec => []IInv
  BY InitInv, NextInv, PTL DEF Spec

-----------------------------------------------------------------------------
(* What follows from it.                                                   *)

\* Every variable keeps its type: no reference count of rx_buf_ref and rx_buf_unref goes
\* below zero, and the queue keeps within its depth.
THEOREM TypeCorrect == Spec => []TypeOK
  <1>1. IInv => TypeOK
    BY DEF IInv
  <1> QED BY <1>1, Invariance, PTL

\* rx_process reads what the driver reported: the references keep a block from being filled
\* again while a report about it is queued or being processed.
THEOREM ReportsIntactHolds == Spec => []ReportsIntact
  <1>1. IInv => ReportsIntact
    <2> SUFFICES ASSUME IInv, NEW i \in 1..Len(ev) PROVE Intact(ev[i])
      BY DEF IInv, QueueIntact, ReportsIntact
    <2>1. ev # <<>>
      OBVIOUS
    <2>2. PICK x \in Events : ev = <<x>>
      BY <2>1 DEF IInv, TypeOK
    <2>3. Len(<<x>>) = 1
      OBVIOUS
    <2>4. i = 1
      BY <2>2, <2>3
    <2> QED BY <2>1, <2>4 DEF IInv, QueueIntact
  <1> QED BY <1>1, Invariance, PTL

\* Once RX is off and every report has been processed, every block is back in the slab,
\* however reports were dropped (uart_cb, UART_RX_RDY), blocks refused by the driver
\* (UART_RX_BUF_REQUEST, rx_enable) and RX stopped.
THEOREM NoBlockLostHolds == Spec => []NoBlockLost
  <1>1. IInv => NoBlockLost
    <2> SUFFICES ASSUME IInv, cur = 0, rx_events = <<>>, pc # "process", NEW b \in Blocks
                 PROVE  refs[b] = 0
      BY DEF NoBlockLost, FreeBlocks
    <2>1. nxt = 0 /\ ev = <<>> /\ b # 0
      BY DEF IInv, TypeOK, DriverInv, Blocks
    <2>2. One(b = cur \/ b = nxt) = 0 /\ One(Processing(b)) = 0 /\ Held(rx_events, b) = 0
      BY <2>1, HeldEmpty DEF One, Processing
    <2> QED BY <2>2 DEF IInv, RefInv
  <1> QED BY <1>1, Invariance, PTL
=============================================================================
