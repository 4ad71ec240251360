---------------------------- MODULE MsgTx_proofs ----------------------------
(***************************************************************************)
(* Safety of MsgTx for any number of slots, unicasts in flight, buffers    *)
(* and messages.  The count is exact: it is the entries of in_flight[],    *)
(* the acknowledged messages that wait for a buffer, and the one that the  *)
(* AT thread is counting.  With its limit, in_flight_add finds room.       *)
(***************************************************************************)
EXTENDS MsgTx, FiniteSetTheorems, TLAPS

-----------------------------------------------------------------------------
(* The inductive invariant.                                                *)

\* The slot the AT thread holds, and the one the ZBOSS thread holds in a handler.
HeldByAt    == IF at_pc \in {"count", "request", "uncount", "drop"} THEN {slot} ELSE {}
HeldByZboss == {zb.slot} \ {-1}

SlotsInv ==
    /\ slots_used = wanted \cup HeldByAt \cup HeldByZboss
    /\ HeldByAt \cap wanted = {} /\ zb.slot \notin wanted \cup HeldByAt
    /\ zb.pc = "idle" => zb = ZbIdle
    /\ zb.buf \notin DOMAIN carried
    /\ at_pc \in {"count", "uncount"} => req.ack

\* The unicast that the AT thread has counted and not yet handed on or taken back.
Counting == IF at_pc = "uncount" \/ (at_pc = "request" /\ req.ack) THEN 1 ELSE 0

CountInv ==
    /\ IsFiniteSet(in_flight)
    /\ in_flight_count = Cardinality(in_flight) + Cardinality(OnTheirWay) + Counting
    /\ in_flight_count <= UCAST_IN_FLIGHT + (IF at_pc = "uncount" THEN 1 ELSE 0)

IInv == TypeOK /\ Tracked /\ SlotsInv /\ CountInv

LEMMA OnTheirWayType ==
  ASSUME TypeOK
  PROVE  IsFiniteSet(OnTheirWay) /\ Cardinality(OnTheirWay) \in Nat
  <1>1. IsFiniteSet(Slots)
    BY SizesAssumption, FS_Interval DEF Slots
  <1>2. OnTheirWay \subseteq Slots
    BY DEF TypeOK, OnTheirWay
  <1> QED BY <1>1, <1>2, FS_Subset, FS_CardinalityType

LEMMA CountType ==
  ASSUME TypeOK, CountInv
  PROVE  /\ Cardinality(in_flight) \in Nat /\ Cardinality(OnTheirWay) \in Nat
         /\ UCAST_IN_FLIGHT \in Nat /\ Counting \in {0, 1}
         /\ Cardinality(in_flight) + Cardinality(OnTheirWay) <= UCAST_IN_FLIGHT
  BY OnTheirWayType, FS_CardinalityType, SizesAssumption DEF CountInv, Counting

LEMMA InitInv == Init => IInv
  <1> SUFFICES ASSUME Init PROVE IInv
    OBVIOUS
  <1>1. TypeOK
    <2>1. NoMessage \in Message /\ ~NoMessage.ack
      BY DEF NoMessage, Message
    <2>2. 0 \in Slots
      BY SizesAssumption DEF Slots
    <2>3. carried = [b \in {} |-> NoMessage] /\ DOMAIN carried = {}
      BY DEF Init
    <2>4. carried \in [DOMAIN carried -> Message]
      BY <2>3
    <2>5. told \in [Seqs -> Seq({"SEQ", "OK", "ERROR", "ACK", "NACK"})]
      BY DEF Init
    <2>6. slots \in [Slots -> Message] /\ slots_used \subseteq Slots /\ wanted \subseteq Slots
      BY <2>1 DEF Init
    <2>7. in_flight_count \in 0..UCAST_IN_FLIGHT + 1
      BY SizesAssumption DEF Init
    <2>8. zb \in [pc : {"idle", "report", "finish"}, seq : 0..255, quiet : BOOLEAN,
                  acked : BOOLEAN, buf : Bufs \cup {"none"}, slot : Slots \cup {-1}]
      BY DEF Init, ZbIdle
    <2> QED BY <2>1, <2>2, <2>3, <2>4, <2>5, <2>6, <2>7, <2>8, SizesAssumption
            DEF Init, TypeOK
  <1>2. Tracked
    BY DEF Init, Tracked
  <1>3. SlotsInv
    BY DEF Init, SlotsInv, HeldByAt, HeldByZboss, ZbIdle
  <1>4. CountInv
    <2>1. OnTheirWay = {}
      BY DEF Init, OnTheirWay
    <2> QED BY <2>1, FS_EmptySet, SizesAssumption DEF Init, CountInv, Counting
  <1> QED BY <1>1, <1>2, <1>3, <1>4 DEF IInv

-----------------------------------------------------------------------------
(* The AT thread.                                                          *)

LEMMA SubmitInv ==
  ASSUME IInv, SendBroadcast \/ \E quiet \in Quiets : SendUnicast(quiet)
  PROVE  IInv'
  <1>1. /\ at_pc = "idle" /\ at_pc' = "slot" /\ slot' = 0 /\ req' \in Message
        /\ req'.ack => req'.seq \in Seqs
        /\ next_seq' \in 0..MaxUnicasts /\ broadcasts' \in 0..MaxBroadcasts
    <2>1. next_seq \in 0..MaxUnicasts /\ broadcasts \in 0..MaxBroadcasts
      BY DEF IInv, TypeOK
    <2>2. CASE SendBroadcast
      BY <2>1, <2>2, SizesAssumption DEF SendBroadcast, Submit, AtGoto, Message, NoMessage
    <2>3. ASSUME NEW quiet \in Quiets, SendUnicast(quiet)
          PROVE  /\ next_seq \in Seqs /\ next_seq \in 0..255 /\ next_seq' \in 0..MaxUnicasts
                 /\ req' = [ack |-> TRUE, seq |-> next_seq, quiet |-> quiet]
                 /\ at_pc = "idle" /\ at_pc' = "slot" /\ slot' = 0 /\ broadcasts' = broadcasts
      BY <2>1, <2>3, SizesAssumption DEF SendUnicast, Submit, AtGoto, Seqs
    <2>4. ASSUME NEW quiet \in Quiets, SendUnicast(quiet)
          PROVE  req' \in Message /\ (req'.ack => req'.seq \in Seqs)
      <3>1. /\ next_seq \in 0..255 /\ next_seq \in Seqs /\ quiet \in BOOLEAN
            /\ req' = [ack |-> TRUE, seq |-> next_seq, quiet |-> quiet]
        BY <2>3, <2>4, QuietsAssumption
      <3>2. [ack |-> TRUE, seq |-> next_seq, quiet |-> quiet] \in Message
        BY <3>1 DEF Message
      <3> QED BY <3>1, <3>2
    <2> QED BY <2>1, <2>2, <2>3, <2>4
  <1>2. UNCHANGED <<slots, slots_used, in_flight_count, in_flight, zb, wanted, carried, told>>
    BY DEF SendUnicast, SendBroadcast, Submit, count, stack
  <1>3. TypeOK'
    BY <1>1, <1>2, SizesAssumption DEF IInv, TypeOK, Slots
  <1>4. Tracked'
    BY <1>2 DEF IInv, Tracked
  <1>5. SlotsInv'
    BY <1>1, <1>2 DEF IInv, SlotsInv, HeldByAt, HeldByZboss
  <1>6. CountInv'
    BY <1>1, <1>2 DEF IInv, CountInv, Counting, OnTheirWay
  <1> QED BY <1>3, <1>4, <1>5, <1>6 DEF IInv

LEMMA TakeSlotInv == ASSUME IInv, TakeSlot PROVE IInv'
  <1>1. /\ at_pc = "slot" /\ at_pc' \in {"count", "request", "slot", "error"} /\ slot' \in Slots
        /\ slots_used' \subseteq Slots
    <2>1. slot \in Slots /\ slots_used \subseteq Slots
      BY DEF IInv, TypeOK
    <2>2. (slot + 1) % TX_SLOTS \in Slots
      BY <2>1, SizesAssumption DEF Slots
    <2> QED BY <2>1, <2>2 DEF TakeSlot, AtGoto
  <1>2. /\ UNCHANGED <<slots, in_flight_count, in_flight, zb, wanted, carried, told>>
        /\ UNCHANGED <<req, next_seq, broadcasts>>
    BY DEF TakeSlot, count, stack
  <1>3. TypeOK'
    BY <1>1, <1>2 DEF IInv, TypeOK
  <1>4. Tracked'
    BY <1>2 DEF IInv, Tracked
  <1>5. SlotsInv'
    <2>1. CASE slot \notin slots_used
      <3>1. /\ slots_used' = slots_used \cup {slot} /\ slot' = slot
            /\ at_pc' = IF req.ack THEN "count" ELSE "request"
        BY <2>1 DEF TakeSlot, AtGoto
      <3>2. HeldByAt = {} /\ HeldByAt' = {slot} /\ HeldByZboss' = HeldByZboss
        BY <1>1, <1>2, <3>1 DEF HeldByAt, HeldByZboss
      <3>3. slot \notin wanted /\ slot # zb.slot
        BY <2>1, SizesAssumption DEF IInv, SlotsInv, HeldByZboss, TypeOK, Slots
      <3> QED BY <1>2, <3>1, <3>2, <3>3 DEF IInv, SlotsInv
    <2>2. CASE slot \in slots_used
      <3>1. slots_used' = slots_used /\ at_pc' \in {"slot", "error"}
        BY <2>2 DEF TakeSlot, AtGoto
      <3> QED BY <1>1, <1>2, <3>1 DEF IInv, SlotsInv, HeldByAt, HeldByZboss
    <2> QED BY <2>1, <2>2
  <1>6. CountInv'
    <2>1. at_pc' # "uncount" /\ (at_pc' = "request" => ~req.ack)
      BY <1>1 DEF TakeSlot, AtGoto
    <2> QED BY <1>1, <1>2, <2>1 DEF IInv, CountInv, Counting, OnTheirWay
  <1> QED BY <1>3, <1>4, <1>5, <1>6 DEF IInv

LEMMA CountUnicastInv == ASSUME IInv, CountUnicast PROVE IInv'
  <1>1. /\ at_pc = "count" /\ in_flight_count' = in_flight_count + 1
        /\ at_pc' = IF in_flight_count >= UCAST_IN_FLIGHT THEN "uncount" ELSE "request"
    BY DEF CountUnicast, AtGoto, TooMany
  <1>2. UNCHANGED <<slots, slots_used, in_flight, zb, wanted, carried, told,
                    req, slot, next_seq, broadcasts>>
    BY DEF CountUnicast, stack
  <1>3. req.ack /\ in_flight_count \in Nat /\ in_flight_count <= UCAST_IN_FLIGHT
    <2>1. in_flight_count \in 0..UCAST_IN_FLIGHT + 1
      BY DEF IInv, TypeOK
    <2> QED BY <1>1, <2>1, SizesAssumption DEF IInv, SlotsInv, CountInv
  <1>4. TypeOK'
    BY <1>1, <1>2, <1>3, SizesAssumption DEF IInv, TypeOK
  <1>5. Tracked'
    BY <1>2 DEF IInv, Tracked
  <1>6. SlotsInv'
    BY <1>1, <1>2, <1>3 DEF IInv, SlotsInv, HeldByAt, HeldByZboss
  <1>7. CountInv'
    <2>1. Counting = 0 /\ Counting' = 1 /\ OnTheirWay' = OnTheirWay
      BY <1>1, <1>2, <1>3 DEF Counting, OnTheirWay
    <2> QED BY <1>1, <1>2, <1>3, <2>1, CountType, SizesAssumption DEF IInv, CountInv
  <1> QED BY <1>4, <1>5, <1>6, <1>7 DEF IInv

LEMMA RequestInv == ASSUME IInv, Request PROVE IInv'
  <1>1. /\ at_pc = "request" /\ slots' = [slots EXCEPT ![slot] = req]
        /\ slot \in Slots /\ slot \notin wanted /\ slots'[slot] = req
        /\ \A i \in wanted : slots'[i] = slots[i]
    BY DEF IInv, TypeOK, SlotsInv, HeldByAt, Request, AtGoto
  <1>2. UNCHANGED <<slots_used, in_flight_count, in_flight, zb, carried, told,
                    req, slot, next_seq, broadcasts>>
    BY DEF Request, count
  <1>3. \/ wanted' = wanted \cup {slot} /\ at_pc' \in {"seq", "ok"}
        \/ wanted' = wanted /\ at_pc' = IF req.ack THEN "uncount" ELSE "drop"
    BY DEF Request, AtGoto
  <1>4. TypeOK'
    BY <1>1, <1>2, <1>3 DEF IInv, TypeOK
  <1>5. Tracked'
    BY <1>2 DEF IInv, Tracked
  <1>6. SlotsInv'
    BY <1>1, <1>2, <1>3 DEF IInv, SlotsInv, HeldByAt, HeldByZboss
  <1>7. CountInv'
    <2>1. CASE wanted' = wanted \cup {slot} /\ at_pc' \in {"seq", "ok"}
      <3>1. OnTheirWay' = IF req.ack THEN OnTheirWay \cup {slot} ELSE OnTheirWay
        BY <1>1, <2>1 DEF OnTheirWay
      <3>2. slot \notin OnTheirWay
        BY <1>1 DEF OnTheirWay
      <3>3. Cardinality(OnTheirWay') = Cardinality(OnTheirWay) + Counting
        <4>1. /\ Cardinality(OnTheirWay) \in Nat
              /\ Cardinality(OnTheirWay \cup {slot}) = Cardinality(OnTheirWay) + 1
          BY <3>2, OnTheirWayType, FS_AddElement DEF IInv
        <4>2. Counting = IF req.ack THEN 1 ELSE 0
          BY <1>1 DEF Counting
        <4> HIDE DEF Counting
        <4>3. CASE req.ack
          BY <3>1, <4>1, <4>2, <4>3
        <4>4. CASE ~req.ack
          BY <3>1, <4>1, <4>2, <4>4
        <4> QED BY <4>3, <4>4
      <3>4. Counting' = 0
        BY <2>1 DEF Counting
      <3> QED BY <1>1, <1>2, <2>1, <3>3, <3>4, CountType DEF IInv, CountInv
    <2>2. CASE wanted' = wanted /\ at_pc' = IF req.ack THEN "uncount" ELSE "drop"
      <3>1. OnTheirWay' = OnTheirWay
        BY <1>1, <2>2 DEF OnTheirWay
      <3>2. Counting' = Counting
        BY <1>1, <1>2, <2>2 DEF Counting
      <3>3. in_flight_count \in Nat /\ in_flight_count <= UCAST_IN_FLIGHT
        <4>1. in_flight_count \in 0..UCAST_IN_FLIGHT + 1
          BY DEF IInv, TypeOK
        <4> QED BY <1>1, <4>1, SizesAssumption DEF IInv, CountInv
      <3> QED BY <1>2, <3>1, <3>2, <3>3, CountType DEF IInv, CountInv
    <2> QED BY <1>3, <2>1, <2>2
  <1> QED BY <1>4, <1>5, <1>6, <1>7 DEF IInv

LEMMA UncountInv == ASSUME IInv, Uncount PROVE IInv'
  <1>1. at_pc = "uncount" /\ at_pc' = "drop" /\ in_flight_count' = in_flight_count - 1
    BY DEF Uncount, AtGoto
  <1>2. UNCHANGED <<slots, slots_used, in_flight, zb, wanted, carried, told,
                    req, slot, next_seq, broadcasts>>
    BY DEF Uncount, stack
  <1>3. Counting = 1 /\ Counting' = 0 /\ OnTheirWay' = OnTheirWay
    BY <1>1, <1>2 DEF Counting, OnTheirWay
  <1>4. in_flight_count' \in 0..UCAST_IN_FLIGHT
    BY <1>1, <1>3, CountType DEF IInv, TypeOK, CountInv
  <1>5. TypeOK'
    BY <1>1, <1>2, <1>4, SizesAssumption DEF IInv, TypeOK
  <1>6. Tracked'
    BY <1>2 DEF IInv, Tracked
  <1>7. SlotsInv'
    BY <1>1, <1>2 DEF IInv, SlotsInv, HeldByAt, HeldByZboss
  <1>8. CountInv'
    BY <1>1, <1>2, <1>3, <1>4, CountType DEF IInv, TypeOK, CountInv
  <1> QED BY <1>5, <1>6, <1>7, <1>8 DEF IInv

LEMMA DropSlotInv == ASSUME IInv, DropSlot PROVE IInv'
  <1>1. at_pc = "drop" /\ at_pc' = "error" /\ slots_used' = slots_used \ {slot}
    BY DEF DropSlot, AtGoto
  <1>2. UNCHANGED <<slots, in_flight_count, in_flight, zb, wanted, carried, told,
                    req, slot, next_seq, broadcasts>>
    BY DEF DropSlot, count, stack
  <1>3. TypeOK'
    BY <1>1, <1>2 DEF IInv, TypeOK
  <1>4. Tracked'
    BY <1>2 DEF IInv, Tracked
  <1>5. SlotsInv'
    BY <1>1, <1>2 DEF IInv, SlotsInv, HeldByAt, HeldByZboss
  <1>6. CountInv'
    BY <1>1, <1>2 DEF IInv, CountInv, Counting, OnTheirWay
  <1> QED BY <1>3, <1>4, <1>5, <1>6 DEF IInv

LEMMA PrintAnswerInv == ASSUME IInv, PrintAnswer PROVE IInv'
  <1>1. at_pc \in {"seq", "ok", "error"} /\ at_pc' \in {"idle", "ok"}
    BY DEF PrintAnswer, AtGoto
  <1>2. UNCHANGED <<slots, slots_used, in_flight_count, in_flight, zb, wanted, carried,
                    req, slot, next_seq, broadcasts>>
    BY DEF PrintAnswer, count, stack
  <1>3. told' \in [Seqs -> Seq({"SEQ", "OK", "ERROR", "ACK", "NACK"})]
    <2>1. ASSUME NEW what \in {"SEQ", "OK", "ERROR"}, Tell(what)
          PROVE  told' \in [Seqs -> Seq({"SEQ", "OK", "ERROR", "ACK", "NACK"})]
      <3>1. told \in [Seqs -> Seq({"SEQ", "OK", "ERROR", "ACK", "NACK"})]
        BY DEF IInv, TypeOK
      <3>2. CASE ~req.ack
        BY <2>1, <3>1, <3>2 DEF Tell
      <3>3. CASE req.ack
        <4>1. req.seq \in Seqs
          BY <3>3 DEF IInv, TypeOK
        <4>2. Append(told[req.seq], what) \in Seq({"SEQ", "OK", "ERROR", "ACK", "NACK"})
          BY <3>1, <4>1
        <4> QED BY <2>1, <3>1, <3>3, <4>2 DEF Tell
      <3> QED BY <3>2, <3>3
    <2> QED BY <2>1 DEF PrintAnswer
  <1>4. TypeOK'
    BY <1>1, <1>2, <1>3 DEF IInv, TypeOK
  <1>5. Tracked'
    BY <1>2 DEF IInv, Tracked
  <1>6. SlotsInv'
    BY <1>1, <1>2 DEF IInv, SlotsInv, HeldByAt, HeldByZboss
  <1>7. CountInv'
    BY <1>1, <1>2 DEF IInv, CountInv, Counting, OnTheirWay
  <1> QED BY <1>4, <1>5, <1>6, <1>7 DEF IInv

-----------------------------------------------------------------------------
(* The ZBOSS thread.                                                       *)

\* What a step of tx_send or tx_done that begins a report leaves in zb.
ZbType == [pc : {"idle", "report", "finish"}, seq : 0..255, quiet : BOOLEAN,
           acked : BOOLEAN, buf : Bufs \cup {"none"}, slot : Slots \cup {-1}]

LEMMA ReportOfType ==
  ASSUME NEW m, m.seq \in 0..255, m.quiet \in BOOLEAN, NEW acked \in BOOLEAN, NEW b \in Bufs,
         NEW i \in Slots \cup {-1}
  PROVE  /\ ReportOf(m, acked, b, i) \in ZbType
         /\ ReportOf(m, acked, b, i).pc = "report"
         /\ ReportOf(m, acked, b, i).buf = b
         /\ ReportOf(m, acked, b, i).slot = i
  BY DEF ReportOf, ZbType

\* The slot that a buffer is found for was waiting; if its message is acknowledged,
\* in_flight[] has room for it, and the buffer is in no entry.
LEMMA RoomForUnicast ==
  ASSUME IInv, NEW i \in wanted, NEW b \in FreeBufs
  PROVE  /\ slots[i] \in Message /\ i \in Slots /\ b \in Bufs /\ b \notin DOMAIN carried
         /\ \A e \in in_flight : e.buf # b
         /\ slots[i].ack => Cardinality(in_flight) < UCAST_IN_FLIGHT
         /\ IsFiniteSet(OnTheirWay \ {i})
         /\ slots[i].ack => Cardinality(OnTheirWay \ {i}) = Cardinality(OnTheirWay) - 1
         /\ ~slots[i].ack => OnTheirWay \ {i} = OnTheirWay
  <1>1. slots[i] \in Message /\ i \in Slots /\ b \in Bufs /\ b \notin DOMAIN carried
    BY DEF IInv, TypeOK, FreeBufs
  <1>2. \A e \in in_flight : e.buf # b
    BY <1>1 DEF IInv, Tracked
  <1>3. IsFiniteSet(OnTheirWay)
    BY OnTheirWayType DEF IInv
  <1>4. IsFiniteSet(OnTheirWay \ {i}) /\ Cardinality(OnTheirWay \ {i}) \in Nat
    BY <1>3, FS_RemoveElement, FS_CardinalityType
  <1>5. slots[i].ack => Cardinality(OnTheirWay \ {i}) = Cardinality(OnTheirWay) - 1
    BY <1>3, FS_RemoveElement DEF OnTheirWay
  <1>6. slots[i].ack => Cardinality(in_flight) < UCAST_IN_FLIGHT
    BY <1>4, <1>5, CountType DEF IInv
  <1>7. ~slots[i].ack => OnTheirWay \ {i} = OnTheirWay
    BY DEF OnTheirWay
  <1> QED BY <1>1, <1>2, <1>4, <1>5, <1>6, <1>7

LEMMA QueuedInv ==
  ASSUME IInv, NEW i \in wanted, NEW b \in FreeBufs, wanted' = wanted \ {i},
         zb.pc = "idle", UNCHANGED <<at, slots, told>>, Queued(i, b)
  PROVE  IInv'
  <1> DEFINE m == slots[i]
             e == [buf |-> b, seq |-> m.seq, quiet |-> m.quiet]
  <1>1. /\ m \in Message /\ i \in Slots /\ b \in Bufs /\ b \notin DOMAIN carried
        /\ \A f \in in_flight : f.buf # b
        /\ m.ack => Cardinality(in_flight) < UCAST_IN_FLIGHT
    BY RoomForUnicast
  <1>2. /\ carried' = [c \in DOMAIN carried \cup {b} |-> IF c = b THEN m ELSE carried[c]]
        /\ slots_used' = slots_used \ {i} /\ in_flight_count' = in_flight_count /\ zb' = zb
        /\ UNCHANGED <<at_pc, req, slot, next_seq, broadcasts, slots, told>>
        /\ in_flight' = IF m.ack THEN in_flight \cup {e} ELSE in_flight
    BY <1>1 DEF Queued, InFlightAdd, at
  <1>3. zb = ZbIdle
    BY DEF IInv, SlotsInv
  <1>4. e \in Entry /\ e \notin in_flight /\ m.ack \in BOOLEAN
    BY <1>1 DEF Entry, Message
  <1>5. TypeOK'
    <2>1. DOMAIN carried' \subseteq Bufs /\ carried' \in [DOMAIN carried' -> Message]
      BY <1>1, <1>2 DEF IInv, TypeOK
    <2>2. in_flight' \subseteq Entry
      BY <1>2, <1>4 DEF IInv, TypeOK
    <2>3. slots_used' \subseteq Slots /\ wanted' \subseteq Slots
      BY <1>2 DEF IInv, TypeOK
    <2> QED BY <1>2, <2>1, <2>2, <2>3 DEF IInv, TypeOK
  <1>6. Tracked'
    <2>1. ASSUME NEW c \in DOMAIN carried', carried'[c].ack
          PROVE [buf |-> c, seq |-> carried'[c].seq, quiet |-> carried'[c].quiet] \in in_flight'
      BY <1>2, <2>1 DEF IInv, Tracked
    <2>2. ASSUME NEW f \in in_flight'
          PROVE /\ f.buf \in DOMAIN carried'
                /\ carried'[f.buf] = [ack |-> TRUE, seq |-> f.seq, quiet |-> f.quiet]
      <3>1. CASE f \in in_flight
        BY <1>1, <1>2, <3>1 DEF IInv, Tracked
      <3>2. CASE f \notin in_flight
        <4>1. f = e /\ m.ack
          BY <1>2, <2>2, <3>2
        <4>2. m = [ack |-> TRUE, seq |-> m.seq, quiet |-> m.quiet]
          BY <1>1, <1>4, <4>1 DEF Message
        <4> QED BY <1>2, <4>1, <4>2
      <3> QED BY <3>1, <3>2
    <2> QED BY <2>1, <2>2 DEF Tracked
  <1>7. SlotsInv'
    <2>1. HeldByAt' = HeldByAt /\ HeldByZboss' = HeldByZboss /\ HeldByZboss = {}
      BY <1>2, <1>3 DEF HeldByAt, HeldByZboss, ZbIdle
    <2>2. zb.buf \notin DOMAIN carried'
      BY <1>1, <1>2, <1>3, BufsAssumption DEF IInv, SlotsInv, ZbIdle
    <2> QED BY <1>2, <2>1, <2>2 DEF IInv, SlotsInv
  <1>8. CountInv'
    <2>1. OnTheirWay' = OnTheirWay \ {i} /\ Counting' = Counting
      BY <1>2 DEF OnTheirWay, Counting
    <2>2. CASE m.ack
      <3>1. IsFiniteSet(in_flight') /\ Cardinality(in_flight') = Cardinality(in_flight) + 1
        BY <1>2, <1>4, <2>2, FS_AddElement DEF IInv, CountInv
      <3>2. Cardinality(OnTheirWay') = Cardinality(OnTheirWay) - 1
        BY <2>1, <2>2, RoomForUnicast
      <3> QED BY <1>2, <2>1, <3>1, <3>2, CountType DEF IInv, CountInv
    <2>3. CASE ~m.ack
      <3>1. OnTheirWay' = OnTheirWay
        BY <2>1, <2>3, RoomForUnicast
      <3> QED BY <1>2, <2>1, <2>3, <3>1 DEF IInv, CountInv
    <2> QED BY <2>2, <2>3
  <1> QED BY <1>5, <1>6, <1>7, <1>8 DEF IInv

LEMMA NotQueuedInv ==
  ASSUME IInv, NEW i \in wanted, NEW b \in FreeBufs, wanted' = wanted \ {i},
         zb.pc = "idle", UNCHANGED <<at, slots, told>>, NotQueued(i, b)
  PROVE  IInv'
  <1> DEFINE m == slots[i]
  <1>1. /\ m \in Message /\ i \in Slots /\ b \in Bufs /\ b \notin DOMAIN carried
        /\ \A f \in in_flight : f.buf # b
    BY RoomForUnicast
  <1>2. in_flight' = in_flight
    <2>1. in_flight' = Without(b, InFlightAdd(b, m))
      BY DEF NotQueued
    <2> QED BY <1>1, <2>1 DEF Without, InFlightAdd
  <1>3. UNCHANGED <<at_pc, req, slot, next_seq, broadcasts, slots, told, carried>>
    BY DEF NotQueued, at
  <1>4. zb = ZbIdle /\ slots_used = wanted \cup HeldByAt
    BY DEF IInv, SlotsInv, HeldByZboss, ZbIdle
  <1>5. Tracked'
    BY <1>2, <1>3 DEF IInv, Tracked
  <1>6. OnTheirWay' = OnTheirWay \ {i} /\ Counting' = Counting /\ HeldByAt' = HeldByAt
    BY <1>3 DEF OnTheirWay, Counting, HeldByAt
  <1>7. CASE m.ack
    <2>1. /\ in_flight_count' = in_flight_count - 1 /\ slots_used' = slots_used
          /\ zb' \in ZbType /\ zb'.pc = "report" /\ zb'.buf = b /\ zb'.slot = i
      <3> DEFINE acked == FALSE
      <3>1. /\ in_flight_count' = in_flight_count - 1 /\ slots_used' = slots_used
            /\ zb' = ReportOf(m, acked, b, i) /\ acked \in BOOLEAN
        BY <1>7 DEF NotQueued
      <3>2. m.seq \in 0..255 /\ m.quiet \in BOOLEAN /\ i \in Slots \cup {-1}
        BY <1>1 DEF Message
      <3> HIDE DEF acked, m
      <3> QED BY <1>1, <3>1, <3>2, ReportOfType
    <2>2. Cardinality(OnTheirWay') = Cardinality(OnTheirWay) - 1
      BY <1>6, <1>7, RoomForUnicast
    <2>3. Cardinality(OnTheirWay') \in Nat
      BY <1>6, RoomForUnicast, FS_CardinalityType
    <2>4. in_flight_count' \in 0..UCAST_IN_FLIGHT + 1
      BY <2>1, <2>2, <2>3, CountType DEF IInv, TypeOK, CountInv
    <2>5. TypeOK'
      BY <1>2, <1>3, <2>1, <2>4 DEF IInv, TypeOK, ZbType
    <2>6. SlotsInv'
      <3>1. HeldByZboss' = {i}
        BY <1>1, <2>1, SizesAssumption DEF HeldByZboss, Slots
      <3> QED BY <1>1, <1>3, <1>4, <1>6, <2>1, <3>1 DEF IInv, SlotsInv
    <2>7. CountInv'
      BY <1>2, <1>3, <1>6, <2>1, <2>2, CountType DEF IInv, TypeOK, CountInv
    <2> QED BY <1>5, <2>5, <2>6, <2>7 DEF IInv
  <1>8. CASE ~m.ack
    <2>1. in_flight_count' = in_flight_count /\ zb' = zb /\ slots_used' = slots_used \ {i}
      BY <1>8 DEF NotQueued
    <2>2. TypeOK'
      BY <1>2, <1>3, <2>1 DEF IInv, TypeOK
    <2>3. SlotsInv'
      <3>1. HeldByZboss = {} /\ HeldByZboss' = {}
        BY <1>4, <2>1 DEF HeldByZboss, ZbIdle
      <3> QED BY <1>3, <1>4, <1>6, <2>1, <3>1 DEF IInv, SlotsInv
    <2>4. CountInv'
      <3>1. OnTheirWay' = OnTheirWay
        BY <1>6, <1>8, RoomForUnicast
      <3> QED BY <1>2, <1>3, <1>6, <2>1, <3>1 DEF IInv, CountInv
    <2> QED BY <1>5, <2>2, <2>3, <2>4 DEF IInv
  <1> QED BY <1>7, <1>8

LEMMA TxSendInv == ASSUME IInv, NEW i \in Slots, TxSend(i) PROVE IInv'
  <1>1. PICK b \in FreeBufs : Queued(i, b) \/ NotQueued(i, b)
    BY DEF TxSend
  <1>2. /\ i \in wanted /\ wanted' = wanted \ {i} /\ zb.pc = "idle"
        /\ UNCHANGED <<at, slots, told>>
    BY DEF TxSend
  <1>3. CASE Queued(i, b)
    BY <1>2, <1>3, QueuedInv
  <1>4. CASE NotQueued(i, b)
    BY <1>2, <1>4, NotQueuedInv
  <1> QED BY <1>1, <1>3, <1>4

LEMMA TxDoneInv ==
  ASSUME IInv, NEW b \in Bufs, NEW acked \in BOOLEAN, TxDone(b, acked) PROVE IInv'
  <1>1. /\ zb = ZbIdle /\ b \in DOMAIN carried
        /\ carried' = [c \in DOMAIN carried \ {b} |-> carried[c]]
        /\ UNCHANGED <<at_pc, req, slot, next_seq, broadcasts, slots, slots_used, wanted, told>>
    BY DEF TxDone, IInv, SlotsInv, at
  <1>2. HeldByAt' = HeldByAt /\ Counting' = Counting /\ OnTheirWay' = OnTheirWay
    BY <1>1 DEF HeldByAt, Counting, OnTheirWay
  <1>3. HeldByZboss = {}
    BY <1>1 DEF HeldByZboss, ZbIdle
  <1>4. DOMAIN carried' \subseteq Bufs /\ carried' \in [DOMAIN carried' -> Message]
    BY <1>1 DEF IInv, TypeOK
  <1>5. CASE \E e \in in_flight : e.buf = b
    <2>1. PICK e \in in_flight :
            /\ e.buf = b /\ in_flight' = in_flight \ {e}
            /\ in_flight_count' = in_flight_count - 1 /\ zb' = ReportOf(e, acked, b, -1)
      BY <1>5 DEF TxDone, FindAndReport
    <2>2. e \in Entry /\ e.seq \in 0..255 /\ e.quiet \in BOOLEAN
      BY DEF IInv, TypeOK, Entry
    <2>3. zb' \in ZbType /\ zb'.pc = "report" /\ zb'.buf = b /\ zb'.slot = -1
      BY <2>1, <2>2, ReportOfType
    <2>4. \A f \in in_flight' : f.buf # b
      <3> SUFFICES ASSUME NEW f \in in_flight', f.buf = b PROVE FALSE
        OBVIOUS
      <3>1. f \in in_flight /\ f # e /\ f \in Entry
        BY <2>1 DEF IInv, TypeOK
      <3>2. /\ carried[b] = [ack |-> TRUE, seq |-> e.seq, quiet |-> e.quiet]
            /\ carried[b] = [ack |-> TRUE, seq |-> f.seq, quiet |-> f.quiet]
        BY <2>1, <3>1 DEF IInv, Tracked
      <3>3. e.seq = f.seq /\ e.quiet = f.quiet
        BY <3>2
      <3> QED BY <2>1, <2>2, <3>1, <3>3 DEF Entry
    <2>5. /\ IsFiniteSet(in_flight') /\ Cardinality(in_flight') = Cardinality(in_flight) - 1
          /\ Cardinality(in_flight') \in Nat
      BY <2>1, FS_RemoveElement, FS_CardinalityType DEF IInv, CountInv
    <2>6. in_flight_count' \in 0..UCAST_IN_FLIGHT + 1
      BY <2>1, <2>5, CountType DEF IInv, TypeOK, CountInv
    <2>7. TypeOK'
      BY <1>1, <1>4, <2>1, <2>3, <2>6 DEF IInv, TypeOK, ZbType
    <2>8. Tracked'
      BY <1>1, <2>1, <2>4 DEF IInv, Tracked
    <2>9. SlotsInv'
      <3>1. HeldByZboss' = {}
        BY <2>3 DEF HeldByZboss
      <3>2. zb'.slot \notin wanted \cup HeldByAt
        BY <2>3, SizesAssumption DEF IInv, TypeOK, HeldByAt, Slots
      <3> QED BY <1>1, <1>2, <1>3, <2>3, <3>1, <3>2 DEF IInv, SlotsInv
    <2>10. CountInv'
      <3>1. /\ in_flight_count = Cardinality(in_flight) + Cardinality(OnTheirWay) + Counting
            /\ in_flight_count <= UCAST_IN_FLIGHT + (IF at_pc = "uncount" THEN 1 ELSE 0)
        BY DEF IInv, CountInv
      <3>2. in_flight_count' = Cardinality(in_flight') + Cardinality(OnTheirWay') + Counting'
        BY <1>2, <2>1, <2>5, <3>1, CountType DEF IInv
      <3>3. in_flight_count' <= UCAST_IN_FLIGHT + (IF at_pc' = "uncount" THEN 1 ELSE 0)
        BY <1>1, <2>1, <3>1, CountType DEF IInv
      <3> QED BY <2>5, <3>2, <3>3 DEF CountInv
    <2> QED BY <2>7, <2>8, <2>9, <2>10 DEF IInv
  <1>6. CASE ~ \E e \in in_flight : e.buf = b
    <2>1. in_flight' = in_flight /\ in_flight_count' = in_flight_count /\ zb' = zb
      BY <1>6 DEF TxDone, FindAndReport, count
    <2>2. TypeOK'
      BY <1>1, <1>4, <2>1 DEF IInv, TypeOK
    <2>3. Tracked'
      BY <1>1, <1>6, <2>1 DEF IInv, Tracked
    <2>4. SlotsInv'
      BY <1>1, <1>2, <1>3, <2>1 DEF IInv, SlotsInv, HeldByZboss
    <2>5. CountInv'
      BY <1>1, <1>2, <2>1 DEF IInv, CountInv
    <2> QED BY <2>2, <2>3, <2>4, <2>5 DEF IInv
  <1> QED BY <1>5, <1>6

LEMMA ReportInv == ASSUME IInv, Report PROVE IInv'
  <1>1. zb.pc = "report" /\ zb' = [zb EXCEPT !.pc = "finish"] /\ zb \in ZbType
    BY DEF Report, IInv, TypeOK, ZbType
  <1>2. zb' \in ZbType /\ zb'.pc = "finish" /\ zb'.buf = zb.buf /\ zb'.slot = zb.slot
    BY <1>1 DEF ZbType
  <1>3. UNCHANGED <<at_pc, req, slot, next_seq, broadcasts, slots, slots_used,
                    in_flight_count, in_flight, wanted, carried>>
    BY DEF Report, at, count, stack
  <1>4. told' \in [Seqs -> Seq({"SEQ", "OK", "ERROR", "ACK", "NACK"})]
    <2>1. told \in [Seqs -> Seq({"SEQ", "OK", "ERROR", "ACK", "NACK"})]
      BY DEF IInv, TypeOK
    <2>2. Prompt(zb.acked) \in {"ACK", "NACK"}
      BY DEF Prompt
    <2>3. told' = told \/ told' = [told EXCEPT ![zb.seq] = Append(@, Prompt(zb.acked))]
      BY DEF Report
    <2> DEFINE prompt == Prompt(zb.acked)
               seq == zb.seq
    <2> HIDE DEF prompt, seq
    <2>4. [told EXCEPT ![seq] = Append(@, prompt)]
            \in [Seqs -> Seq({"SEQ", "OK", "ERROR", "ACK", "NACK"})]
      <3>1. prompt \in {"SEQ", "OK", "ERROR", "ACK", "NACK"}
        BY <2>2 DEF prompt
      <3>2. ASSUME NEW n \in Seqs
            PROVE Append(told[n], prompt) \in Seq({"SEQ", "OK", "ERROR", "ACK", "NACK"})
        BY <2>1, <3>1
      <3> QED BY <2>1, <3>2
    <2> QED BY <2>1, <2>3, <2>4 DEF prompt, seq
  <1>5. TypeOK'
    BY <1>2, <1>3, <1>4 DEF IInv, TypeOK, ZbType
  <1>6. Tracked'
    BY <1>3 DEF IInv, Tracked
  <1>7. SlotsInv'
    BY <1>2, <1>3 DEF IInv, SlotsInv, HeldByAt, HeldByZboss
  <1>8. CountInv'
    BY <1>3 DEF IInv, CountInv, Counting, OnTheirWay
  <1> QED BY <1>5, <1>6, <1>7, <1>8 DEF IInv

LEMMA FinishInv == ASSUME IInv, Finish PROVE IInv'
  <1>1. zb.pc = "finish" /\ zb' = ZbIdle /\ slots_used' = slots_used \ {zb.slot}
    BY DEF Finish
  <1>2. UNCHANGED <<at_pc, req, slot, next_seq, broadcasts, slots, in_flight_count,
                    in_flight, wanted, carried, told>>
    BY DEF Finish, at, count, stack
  <1>3. ZbIdle \in ZbType
    BY DEF ZbIdle, ZbType
  <1>4. TypeOK'
    BY <1>1, <1>2, <1>3 DEF IInv, TypeOK, ZbType
  <1>5. Tracked'
    BY <1>2 DEF IInv, Tracked
  <1>6. SlotsInv'
    <2>1. HeldByAt' = HeldByAt /\ HeldByZboss' = {}
      BY <1>1, <1>2 DEF HeldByAt, HeldByZboss, ZbIdle
    <2>2. zb'.slot = -1 /\ zb'.buf = "none" /\ -1 \notin wanted \cup HeldByAt
      BY <1>1, SizesAssumption DEF IInv, TypeOK, HeldByAt, Slots, ZbIdle
    <2>3. "none" \notin DOMAIN carried
      BY BufsAssumption DEF IInv, TypeOK
    <2>4. slots_used' = wanted \cup HeldByAt
      BY <1>1 DEF IInv, SlotsInv, HeldByZboss
    <2> QED BY <1>1, <1>2, <2>1, <2>2, <2>3, <2>4 DEF IInv, SlotsInv
  <1>7. CountInv'
    BY <1>2 DEF IInv, CountInv, Counting, OnTheirWay
  <1> QED BY <1>4, <1>5, <1>6, <1>7 DEF IInv

-----------------------------------------------------------------------------
LEMMA NextInv == IInv /\ [Next]_vars => IInv'
  <1> SUFFICES ASSUME IInv, [Next]_vars PROVE IInv'
    OBVIOUS
  <1>1. CASE SendBroadcast \/ \E quiet \in Quiets : SendUnicast(quiet)
    BY <1>1, SubmitInv
  <1>2. CASE AtStep
    BY <1>2, TakeSlotInv, CountUnicastInv, RequestInv, UncountInv, DropSlotInv, PrintAnswerInv
    DEF AtStep
  <1>3. ASSUME NEW i \in Slots, TxSend(i) PROVE IInv'
    BY <1>3, TxSendInv
  <1>4. ASSUME NEW b \in Bufs, NEW acked \in BOOLEAN, TxDone(b, acked) PROVE IInv'
    BY <1>4, TxDoneInv
  <1>5. CASE Report
    BY <1>5, ReportInv
  <1>6. CASE Finish
    BY <1>6, FinishInv
  <1>7. CASE UNCHANGED vars
    <2>1. UNCHANGED <<at_pc, req, slot, next_seq, broadcasts, slots, slots_used,
                      in_flight_count, in_flight, zb, wanted, carried, told>>
      BY <1>7 DEF vars, at, count, stack
    <2>2. TypeOK'
      BY <2>1 DEF IInv, TypeOK
    <2>3. Tracked'
      BY <2>1 DEF IInv, Tracked
    <2>4. SlotsInv'
      BY <2>1 DEF IInv, SlotsInv, HeldByAt, HeldByZboss
    <2>5. CountInv'
      BY <2>1 DEF IInv, CountInv, Counting, OnTheirWay
    <2> QED BY <2>2, <2>3, <2>4, <2>5 DEF IInv
  <1> QED BY <1>1, <1>2, <1>3, <1>4, <1>5, <1>6, <1>7 DEF Next

LEMMA Invariant == Spec => []IInv
  BY InitInv, NextInv, PTL DEF Spec

\* Every variable keeps its type: above all, in_flight_count never goes below 0 or more
\* than one above its limit.
THEOREM TypeCorrect == Spec => []TypeOK
  <1>1. IInv => TypeOK
    BY DEF IInv
  <1> QED BY <1>1, Invariant, PTL

\* in_flight[] and the stack always agree: in_flight_add finds room for every unicast
\* and tx_done finds the unicast its buffer carried, and no other.
THEOREM TrackedHolds == Spec => []Tracked
  <1>1. IInv => Tracked
    BY DEF IInv
  <1> QED BY <1>1, Invariant, PTL

\* No slot, entry or count is lost, whatever failed before.
THEOREM NothingLeaksHolds == Spec => []NothingLeaks
  <1>1. ASSUME IInv, AllDone
        PROVE  slots_used = {} /\ in_flight_count = 0 /\ in_flight = {}
    <2>1. in_flight = {}
      BY <1>1 DEF AllDone, IInv, Tracked
    <2>2. slots_used = {}
      BY <1>1 DEF AllDone, IInv, SlotsInv, HeldByAt, HeldByZboss, ZbIdle
    <2>3. OnTheirWay = {} /\ Counting = 0
      BY <1>1 DEF AllDone, OnTheirWay, Counting
    <2> QED BY <1>1, <2>1, <2>2, <2>3, FS_EmptySet DEF IInv, CountInv
  <1>2. IInv => NothingLeaks
    BY <1>1 DEF NothingLeaks
  <1> QED BY <1>2, Invariant, PTL

\* A unicast is refused for their number only when that many really are on their way.
THEOREM TooManyIsTrueHolds == Spec => TooManyIsTrue
  <1>1. ASSUME IInv, [Next]_vars, at_pc = "count", at_pc' = "uncount"
        PROVE  Cardinality(in_flight) + Cardinality(OnTheirWay) >= UCAST_IN_FLIGHT
    <2>1. CountUnicast
      BY <1>1 DEF Next, AtStep, SendUnicast, SendBroadcast, Submit, TakeSlot, CountUnicast,
                  Request, Uncount, DropSlot, PrintAnswer, AtGoto, TxSend, TxDone, Report,
                  Finish, vars, at
    <2>2. in_flight_count >= UCAST_IN_FLIGHT
      BY <1>1, <2>1 DEF CountUnicast, AtGoto, TooMany
    <2>3. Counting = 0
      BY <1>1 DEF Counting
    <2> QED BY <1>1, <2>2, <2>3, CountType DEF IInv, CountInv
  <1>2. IInv /\ [Next]_vars =>
          [at_pc = "count" /\ at_pc' = "uncount" =>
             Cardinality(in_flight) + Cardinality(OnTheirWay) >= UCAST_IN_FLIGHT]_vars
    BY <1>1
  <1> QED BY <1>2, Invariant, PTL DEF Spec, TooManyIsTrue
-----------------------------------------------------------------------------
(* The commands keep what Delivery promises.  Every unicast is in one      *)
(* place at most, and what the host has read about it fits the place.      *)

Settled(n) == Got(n, "OK") \/ Got(n, "ERROR")
InHand(n)  == req.ack /\ req.seq = n

NumbersInv ==
    /\ req.ack => req.seq + 1 = next_seq /\ req.quiet \in Quiets
    /\ \A e \in in_flight : e.seq < next_seq /\ e.quiet \in Quiets
    /\ \A i \in OnTheirWay : slots[i].seq < next_seq /\ slots[i].quiet \in Quiets
    /\ zb.pc = "report" => zb.seq < next_seq /\ zb.quiet \in Quiets

PlaceInv ==
    /\ \A e, f \in in_flight : e.seq = f.seq => e = f
    /\ \A i, j \in OnTheirWay : slots[i].seq = slots[j].seq => i = j
    /\ \A n \in Seqs :
           /\ Flying(n) => ~Waiting(n)
           /\ Flying(n) \/ Waiting(n) => ~Ending(n)
           /\ Flying(n) \/ Waiting(n) \/ Ending(n) =>
                  ~Asked(n) /\ ~Refused(n) /\ ~Got(n, "ERROR")

ToldInv ==
    \A n \in Seqs :
        /\ n >= next_seq \/ Asked(n) \/ Refused(n) => ~Got(n, "SEQ") /\ ~Settled(n)
        /\ n < next_seq => Settled(n) \/ (InHand(n) /\ at_pc # "idle")
        /\ InHand(n) /\ at_pc = "seq" => ~Got(n, "SEQ")
        /\ InHand(n) /\ at_pc = "ok"  => Got(n, "SEQ") \/ Suppressing
        /\ InHand(n) /\ at_pc # "idle" => ~Settled(n)

DInv == NumbersInv /\ PlaceInv /\ ToldInv

Words == {"SEQ", "OK", "ERROR", "ACK", "NACK"}

LEMMA NumberTypes ==
  ASSUME TypeOK
  PROVE  /\ Seqs \subseteq Nat /\ next_seq \in Nat /\ next_seq <= MaxUnicasts
         /\ \A n \in Nat : n < next_seq => n \in Seqs
         /\ \A e \in in_flight : e.seq \in Nat
         /\ \A i \in OnTheirWay : i \in Slots /\ slots[i].seq \in Nat /\ slots[i].ack
         /\ zb.seq \in Nat
         /\ req.seq \in Nat /\ req.ack \in BOOLEAN
         /\ (req.ack => req.seq \in Seqs)
         /\ told \in [Seqs -> Seq(Words)]
  <1>1. /\ next_seq \in 0..MaxUnicasts /\ MaxUnicasts \in 0..256
        /\ in_flight \subseteq Entry /\ slots \in [Slots -> Message] /\ wanted \subseteq Slots
        /\ zb \in ZbType /\ req \in Message /\ (req.ack => req.seq \in Seqs)
        /\ told \in [Seqs -> Seq(Words)]
    BY SizesAssumption DEF TypeOK, ZbType, Words
  <1>2. MaxUnicasts \in Nat /\ 0..255 \subseteq Nat
    BY <1>1
  <1>3. Seqs \subseteq Nat /\ \A n \in Nat : n < next_seq => n \in Seqs
    BY <1>1, <1>2 DEF Seqs
  <1>4. \A e \in in_flight : e.seq \in Nat
    BY <1>1, <1>2 DEF Entry
  <1>5. \A i \in OnTheirWay : i \in Slots /\ slots[i].seq \in Nat /\ slots[i].ack
    <2>1. \A i \in OnTheirWay : i \in Slots /\ slots[i] \in Message /\ slots[i].ack
      BY <1>1 DEF OnTheirWay
    <2>2. \A m \in Message : m.seq \in Nat
      BY <1>2 DEF Message
    <2> QED BY <2>1, <2>2
  <1>6. zb.seq \in Nat
    BY <1>1, <1>2 DEF ZbType
  <1>7. req.seq \in Nat /\ req.ack \in BOOLEAN
    BY <1>1, <1>2 DEF Message
  <1> QED BY <1>1, <1>2, <1>3, <1>4, <1>5, <1>6, <1>7

\* What the host has read about n once it reads one more line.
LEMMA Heard ==
  ASSUME TypeOK, NEW n \in Seqs, NEW what \in Words,
         told' = [told EXCEPT ![n] = Append(@, what)]
  PROVE  \A m \in Seqs, x \in Words : Got(m, x)' <=> Got(m, x) \/ (m = n /\ x = what)
  <1> SUFFICES ASSUME NEW m \in Seqs, NEW x \in Words
               PROVE  Got(m, x)' <=> Got(m, x) \/ (m = n /\ x = what)
    OBVIOUS
  <1>1. told \in [Seqs -> Seq(Words)]
    BY NumberTypes
  <1>2. CASE m = n
    <2> DEFINE s == told[n]
    <2>1. s \in Seq(Words) /\ told'[m] = Append(s, what)
      BY <1>1, <1>2
    <2>2. (\E k \in 1..Len(Append(s, what)) : Append(s, what)[k] = x)
             <=> (\E k \in 1..Len(s) : s[k] = x) \/ x = what
      <3> HIDE DEF s
      <3>1. /\ Len(Append(s, what)) = Len(s) + 1 /\ Len(s) \in Nat
            /\ \A k \in 1..Len(s) : Append(s, what)[k] = s[k]
            /\ Append(s, what)[Len(s) + 1] = what
        BY <2>1
      <3> QED BY <3>1
    <2> QED BY <1>2, <2>1, <2>2 DEF Got
  <1>3. CASE m # n
    <2>1. told'[m] = told[m]
      BY <1>1, <1>3
    <2> QED BY <1>3, <2>1 DEF Got
  <1> QED BY <1>2, <1>3

LEMMA SameHeard ==
  ASSUME UNCHANGED told PROVE \A m \in Seqs, x \in Words : Got(m, x)' <=> Got(m, x)
  BY DEF Got

\* The fate of a unicast is where it is.
FateIsPlace ==
  \A n \in Seqs :
    /\ n >= next_seq <=> Fate(n) = "new"
    /\ Asked(n) <=> Fate(n) = "asked"
    /\ Refused(n) \/ Got(n, "ERROR") <=> Fate(n) = "refused"
    /\ Flying(n) \/ Waiting(n) <=> Fate(n) = "on its way"
    /\ Ending(n) <=> Fate(n) = "ended"
    /\ Fate(n) \in {"new", "asked", "refused", "on its way", "ended", "reported"}

LEMMA FateOf == TypeOK /\ DInv => FateIsPlace
  <1> SUFFICES ASSUME TypeOK, DInv, NEW n \in Seqs
               PROVE /\ n >= next_seq <=> Fate(n) = "new"
                     /\ Asked(n) <=> Fate(n) = "asked"
                     /\ Refused(n) \/ Got(n, "ERROR") <=> Fate(n) = "refused"
                     /\ Flying(n) \/ Waiting(n) <=> Fate(n) = "on its way"
                     /\ Ending(n) <=> Fate(n) = "ended"
                     /\ Fate(n) \in {"new", "asked", "refused", "on its way", "ended", "reported"}
    BY DEF FateIsPlace
  <1>1. n \in Nat /\ next_seq \in Nat
    BY NumberTypes
  <1>2. Asked(n) \/ Refused(n) => n < next_seq
    BY <1>1, NumberTypes DEF DInv, NumbersInv, Asked, Refused
  <1>3. Flying(n) \/ Waiting(n) \/ Ending(n) =>
           n < next_seq /\ ~Asked(n) /\ ~Refused(n) /\ ~Got(n, "ERROR")
    BY <1>1 DEF DInv, NumbersInv, PlaceInv, Flying, Waiting, Ending
  <1>4. Asked(n) => ~Refused(n) /\ ~Got(n, "ERROR")
    BY DEF DInv, ToldInv, Settled, Asked, Refused
  <1>5. Ending(n) => ~Flying(n) /\ ~Waiting(n)
    BY DEF DInv, PlaceInv
  <1>6. n >= next_seq => ~Got(n, "ERROR")
    BY DEF DInv, ToldInv, Settled
  <1>7. n >= next_seq <=> ~(n < next_seq)
    BY <1>1
  <1> DEFINE new == n >= next_seq
             asked == Asked(n)
             refused == Refused(n) \/ Got(n, "ERROR")
             away == Flying(n) \/ Waiting(n)
             ended == Ending(n)
  <1>8. /\ asked \/ refused \/ away \/ ended => ~new
        /\ asked => ~refused /\ ~away /\ ~ended
        /\ refused => ~away /\ ~ended
        /\ away => ~ended
    BY <1>2, <1>3, <1>4, <1>5, <1>6, <1>7
  <1>9. Fate(n) = CASE new -> "new" [] asked -> "asked" [] refused -> "refused"
                    [] away -> "on its way" [] ended -> "ended" [] OTHER -> "reported"
    BY DEF Fate
  <1> HIDE DEF new, asked, refused, away, ended
  <1>10. /\ new <=> Fate(n) = "new"
         /\ asked <=> Fate(n) = "asked"
         /\ refused <=> Fate(n) = "refused"
         /\ away <=> Fate(n) = "on its way"
         /\ ended <=> Fate(n) = "ended"
         /\ Fate(n) \in {"new", "asked", "refused", "on its way", "ended", "reported"}
    BY <1>8, <1>9
  <1> QED BY <1>10 DEF new, asked, refused, away, ended

SamePlace(n) ==
  /\ n >= next_seq' <=> n >= next_seq
  /\ Asked(n)' <=> Asked(n)
  /\ Refused(n)' \/ Got(n, "ERROR")' <=> Refused(n) \/ Got(n, "ERROR")
  /\ Flying(n)' \/ Waiting(n)' <=> Flying(n) \/ Waiting(n)
  /\ Ending(n)' <=> Ending(n)

LEMMA SameFate ==
  ASSUME FateIsPlace, FateIsPlace', NEW n \in Seqs, SamePlace(n) PROVE Fate(n)' = Fate(n)
  <1>1. CASE Fate(n) = "reported" /\ Fate(n)' = "reported"
    BY <1>1
  <1>2. CASE Fate(n) # "reported" \/ Fate(n)' # "reported"
    BY <1>2, Zenon DEF SamePlace, FateIsPlace
  <1> QED BY <1>1, <1>2

\* A step is one of Delivery when it moves one unicast.
LEMMA OneFate ==
  ASSUME NEW n \in Seqs, NEW from, NEW to, Fate(n) = from, Fate(n)' = to,
         \A m \in Seqs : m # n => Fate(m)' = Fate(m)
  PROVE  Promised!Becomes(n, from, to)
  BY DEF Promised!Becomes, Fates

LEMMA NoFate == ASSUME \A m \in Seqs : Fate(m)' = Fate(m) PROVE UNCHANGED Fates
  BY DEF Fates

LEMMA HeardIs ==
  ASSUME TypeOK, NEW n \in Seqs
  PROVE  /\ \A x \in Words : x \in Promised!Heard(n) <=> Got(n, x)
         /\ Promised!Answered(n) <=> Settled(n)
  BY NumberTypes DEF Promised!Heard, Promised!Answered, Got, Settled, Words

-----------------------------------------------------------------------------
(* Steps that leave the table, the slots that wait and the report alone.   *)

Aside ==
  /\ UNCHANGED <<in_flight, OnTheirWay>> /\ \A i \in OnTheirWay : slots'[i] = slots[i]
  /\ zb' = zb \/ (zb.pc # "report" /\ zb'.pc # "report")

LEMMA AsidePlaces ==
  ASSUME Aside
  PROVE  \A n \in Seqs : /\ Flying(n)' <=> Flying(n)
                         /\ Waiting(n)' <=> Waiting(n)
                         /\ Ending(n)' <=> Ending(n)
  BY DEF Aside, Flying, Waiting, Ending

\* The next number is taken: it is in no other place.
LEMMA SendUnicastInv ==
  ASSUME IInv, DInv, NEW quiet \in Quiets, SendUnicast(quiet)
  PROVE  /\ DInv' /\ UNCHANGED told /\ next_seq \in Seqs
         /\ \A n \in Seqs : IF n = next_seq THEN Asked(n)' ELSE SamePlace(n)
  <1>1. /\ at_pc = "idle" /\ at_pc' = "slot" /\ next_seq' = next_seq + 1
        /\ req' = [ack |-> TRUE, seq |-> next_seq, quiet |-> quiet]
        /\ Aside /\ UNCHANGED <<told, zb>>
    BY DEF SendUnicast, Submit, AtGoto, Aside, OnTheirWay, count, stack
  <1>2. /\ next_seq \in Seqs /\ Seqs \subseteq Nat
        /\ \A e \in in_flight : e.seq \in Nat
        /\ \A i \in OnTheirWay : slots[i].seq \in Nat
        /\ zb.seq \in Nat
    <2>1. next_seq \in Nat /\ next_seq < MaxUnicasts /\ MaxUnicasts \in Nat
      BY NumberTypes, SizesAssumption DEF SendUnicast, IInv
    <2> QED BY <2>1, NumberTypes DEF IInv, Seqs
  <1>3. /\ req'.ack /\ req'.seq = next_seq /\ req'.quiet = quiet
        /\ \A n \in Seqs : ~Asked(n) /\ ~Refused(n) /\ (Asked(n)' <=> n = next_seq) /\ ~Refused(n)'
        /\ \A n \in Seqs : InHand(n)' <=> n = next_seq
    BY <1>1 DEF Asked, Refused, InHand
  <1>4. \A n \in Seqs : (n >= next_seq' <=> n > next_seq) /\ (n < next_seq' <=> n < next_seq \/ n = next_seq)
    BY <1>1, <1>2
  <1>5. NumbersInv'
    BY <1>1, <1>2, <1>3 DEF DInv, NumbersInv, Aside
  <1>6. /\ ~Flying(next_seq) /\ ~Waiting(next_seq) /\ ~Ending(next_seq)
        /\ ~Got(next_seq, "SEQ") /\ ~Settled(next_seq)
    BY <1>2 DEF DInv, NumbersInv, ToldInv, Flying, Waiting, Ending
  <1>7. \A n \in Seqs, x \in Words : Got(n, x)' <=> Got(n, x)
    BY <1>1, SameHeard
  <1>8. PlaceInv'
    BY <1>1, <1>3, <1>6, <1>7, AsidePlaces DEF DInv, PlaceInv, Aside, Words
  <1>9. ToldInv'
    BY <1>1, <1>2, <1>3, <1>4, <1>6, <1>7 DEF DInv, ToldInv, Settled, Words
  <1>10. \A n \in Seqs : n # next_seq => SamePlace(n)
    BY <1>1, <1>2, <1>3, <1>4, <1>7, AsidePlaces DEF SamePlace, Words
  <1>11. DInv'
    BY <1>5, <1>8, <1>9 DEF DInv
  <1> QED BY <1>1, <1>2, <1>3, <1>10, <1>11

\* The AT thread goes on with what it has in hand, or a handler with what has no number.
Asking   == {"slot", "count", "request"}
Refusing == {"uncount", "drop", "error"}
GoesOn ==
  /\ Aside /\ UNCHANGED <<told, next_seq, req>>
  /\ \/ ~req.ack
     \/ at_pc' = at_pc
     \/ at_pc \in Asking /\ at_pc' \in Asking \cup Refusing
     \/ at_pc \in Refusing /\ at_pc' \in Refusing

LEMMA GoesOnInv ==
  ASSUME DInv, GoesOn
  PROVE  DInv'
  <1>1. UNCHANGED <<told, next_seq, req>> /\ Aside
    BY DEF GoesOn
  <1>2. \A n \in Seqs : InHand(n)' <=> InHand(n)
    BY <1>1 DEF InHand
  <1>3. \A n \in Seqs : /\ Asked(n) \/ Refused(n) <=> InHand(n) /\ at_pc \in Asking \cup Refusing
                        /\ Asked(n)' \/ Refused(n)' <=> InHand(n)' /\ at_pc' \in Asking \cup Refusing
    BY DEF Asked, Refused, InHand, Asking, Refusing
  <1>4. \A n \in Seqs : InHand(n) => req.ack
    BY DEF InHand
  <1>5. \A n \in Seqs : Asked(n)' \/ Refused(n)' <=> Asked(n) \/ Refused(n)
    <2> SUFFICES ASSUME NEW n \in Seqs PROVE Asked(n)' \/ Refused(n)' <=> Asked(n) \/ Refused(n)
      OBVIOUS
    <2>1. InHand(n) => (at_pc' \in Asking \cup Refusing <=> at_pc \in Asking \cup Refusing)
      BY <1>4 DEF GoesOn
    <2> QED BY <1>2, <1>3, <2>1
  <1>6. \A n \in Seqs, x \in Words : Got(n, x)' <=> Got(n, x)
    BY <1>1, SameHeard
  <1>7. NumbersInv'
    BY <1>1 DEF DInv, NumbersInv, Aside
  <1>8. PlaceInv'
    <2>1. \A e, f \in in_flight' : e.seq = f.seq => e = f
      BY <1>1 DEF DInv, PlaceInv, Aside
    <2>2. \A i, j \in OnTheirWay' : slots'[i].seq = slots'[j].seq => i = j
      BY <1>1 DEF DInv, PlaceInv, Aside
    <2>3. ASSUME NEW n \in Seqs
          PROVE  /\ Flying(n)' => ~Waiting(n)'
                 /\ Flying(n)' \/ Waiting(n)' => ~Ending(n)'
                 /\ Flying(n)' \/ Waiting(n)' \/ Ending(n)' =>
                        ~Asked(n)' /\ ~Refused(n)' /\ ~Got(n, "ERROR")'
      <3>1. /\ Flying(n) => ~Waiting(n)
            /\ Flying(n) \/ Waiting(n) => ~Ending(n)
            /\ Flying(n) \/ Waiting(n) \/ Ending(n) => ~Asked(n) /\ ~Refused(n) /\ ~Got(n, "ERROR")
        BY DEF DInv, PlaceInv
      <3>2. (Flying(n)' <=> Flying(n)) /\ (Waiting(n)' <=> Waiting(n)) /\ (Ending(n)' <=> Ending(n))
        BY <1>1, AsidePlaces
      <3>3. Got(n, "ERROR")' <=> Got(n, "ERROR")
        BY <1>6 DEF Words
      <3> QED BY <1>5, <3>1, <3>2, <3>3
    <2> QED BY <2>1, <2>2, <2>3 DEF PlaceInv
  <1>9. ToldInv'
    <2> SUFFICES ASSUME NEW n \in Seqs
                 PROVE /\ n >= next_seq \/ Asked(n)' \/ Refused(n)' => ~Got(n, "SEQ")' /\ ~Settled(n)'
                       /\ n < next_seq => Settled(n)' \/ (InHand(n)' /\ at_pc' # "idle")
                       /\ InHand(n)' /\ at_pc' = "seq" => ~Got(n, "SEQ")'
                       /\ InHand(n)' /\ at_pc' = "ok"  => Got(n, "SEQ")' \/ Suppressing
                       /\ InHand(n)' /\ at_pc' # "idle" => ~Settled(n)'
      BY <1>1 DEF ToldInv, Suppressing
    <2>1. (Got(n, "SEQ")' <=> Got(n, "SEQ")) /\ (Settled(n)' <=> Settled(n))
      BY <1>6 DEF Settled, Words
    <2>2. /\ n >= next_seq \/ Asked(n) \/ Refused(n) => ~Got(n, "SEQ") /\ ~Settled(n)
          /\ n < next_seq => Settled(n) \/ (InHand(n) /\ at_pc # "idle")
          /\ InHand(n) /\ at_pc = "seq" => ~Got(n, "SEQ")
          /\ InHand(n) /\ at_pc = "ok"  => Got(n, "SEQ") \/ Suppressing
          /\ InHand(n) /\ at_pc # "idle" => ~Settled(n)
      BY DEF DInv, ToldInv
    <2>3. InHand(n) => /\ at_pc' = "seq" => at_pc = "seq"
                       /\ at_pc' = "ok" => at_pc = "ok"
                       /\ at_pc' # "idle" <=> at_pc # "idle"
      BY <1>4 DEF GoesOn, Asking, Refusing
    <2> QED BY <1>2, <1>5, <2>1, <2>2, <2>3
  <1> QED BY <1>7, <1>8, <1>9 DEF DInv

LEMMA GoesOnRefines ==
  ASSUME TypeOK, FateIsPlace, FateIsPlace', GoesOn
  PROVE  UNCHANGED <<Fates, told>> \/ \E n \in Seqs : Promised!Refuse(n)
  <1>1. UNCHANGED <<told, next_seq, req>> /\ Aside
    BY DEF GoesOn
  <1>2. \A n \in Seqs : /\ n >= next_seq' <=> n >= next_seq
                        /\ Flying(n)' \/ Waiting(n)' <=> Flying(n) \/ Waiting(n)
                        /\ Ending(n)' <=> Ending(n)
                        /\ Got(n, "ERROR")' <=> Got(n, "ERROR")
    <2>1. \A n \in Seqs : Got(n, "ERROR")' <=> Got(n, "ERROR")
      BY <1>1, SameHeard DEF Words
    <2>2. \A n \in Seqs : /\ Flying(n)' <=> Flying(n)
                          /\ Waiting(n)' <=> Waiting(n)
                          /\ Ending(n)' <=> Ending(n)
      BY <1>1, AsidePlaces
    <2>3. next_seq' = next_seq
      BY <1>1
    <2> QED BY <2>1, <2>2, <2>3
  <1>3. CASE req.ack /\ at_pc \in Asking /\ at_pc' \in Refusing
    <2>0. PICK k \in Seqs : k = req.seq
      BY <1>3, NumberTypes
    <2>1. /\ Asked(k) /\ Refused(k)'
          /\ \A n \in Seqs : n # k => ~Asked(n) /\ ~Asked(n)' /\ ~Refused(n) /\ ~Refused(n)'
      BY <1>1, <1>3, <2>0 DEF Asked, Refused, Asking, Refusing
    <2>2. ASSUME NEW n \in Seqs, n # k PROVE Fate(n)' = Fate(n)
      <3>1. SamePlace(n)
        BY <1>2, <2>1, <2>2 DEF SamePlace
      <3> QED BY <3>1, SameFate
    <2>3. Fate(k) = "asked" /\ Fate(k)' = "refused"
      BY <2>1, Zenon DEF FateIsPlace
    <2>4. Promised!Becomes(k, "asked", "refused")
      BY <2>2, <2>3, OneFate
    <2> QED BY <1>1, <2>4 DEF Promised!Refuse
  <1>4. CASE ~(req.ack /\ at_pc \in Asking /\ at_pc' \in Refusing)
    <2>1. \A n \in Seqs : (Asked(n)' <=> Asked(n)) /\ (Refused(n)' <=> Refused(n))
      BY <1>1, <1>4 DEF GoesOn, Asked, Refused, Asking, Refusing
    <2>2. ASSUME NEW n \in Seqs PROVE Fate(n)' = Fate(n)
      <3>1. SamePlace(n)
        BY <1>2, <2>1 DEF SamePlace
      <3> QED BY <3>1, SameFate
    <2> QED BY <1>1, <2>2, NoFate
  <1> QED BY <1>3, <1>4

LEMMA StepsGoOn ==
  ASSUME IInv, TakeSlot \/ CountUnicast \/ Uncount \/ DropSlot \/ Finish \/ UNCHANGED vars
  PROVE  GoesOn
  <1>1. UNCHANGED <<in_flight, wanted, slots, told, next_seq, req>>
    BY DEF TakeSlot, CountUnicast, Uncount, DropSlot, Finish, vars, at, count, stack
  <1>2. zb' = zb \/ (zb.pc # "report" /\ zb'.pc # "report")
    BY DEF TakeSlot, CountUnicast, Uncount, DropSlot, Finish, ZbIdle, vars
  <1>3. Aside
    BY <1>1, <1>2 DEF Aside, OnTheirWay
  <1>4. \/ ~req.ack
        \/ at_pc' = at_pc
        \/ at_pc \in Asking /\ at_pc' \in Asking \cup Refusing
        \/ at_pc \in Refusing /\ at_pc' \in Refusing
    BY DEF TakeSlot, CountUnicast, Uncount, DropSlot, Finish, AtGoto, Asking, Refusing, vars, at
  <1> QED BY <1>1, <1>3, <1>4 DEF GoesOn

\* A message without a number is nobody's business.
LEMMA BroadcastsGoOn ==
  ASSUME IInv, ~req.ack, Request \/ PrintAnswer
  PROVE  GoesOn
  <1>1. UNCHANGED <<in_flight, told, next_seq, req, zb>>
    BY DEF Request, PrintAnswer, Tell, count, stack
  <1>2. UNCHANGED OnTheirWay /\ \A i \in OnTheirWay : slots'[i] = slots[i]
    <2>1. CASE Request
      <3>1. /\ slots' = [slots EXCEPT ![slot] = req] /\ slot \in Slots /\ slot \notin wanted
            /\ slots \in [Slots -> Message] /\ wanted \subseteq Slots
            /\ wanted' \in {wanted, wanted \cup {slot}}
        BY <2>1 DEF Request, AtGoto, IInv, TypeOK, SlotsInv, HeldByAt
      <3>2. slots'[slot] = req /\ \A i \in wanted : slots'[i] = slots[i]
        BY <3>1
      <3> QED BY <3>1, <3>2 DEF OnTheirWay
    <2>2. CASE PrintAnswer
      BY <2>2 DEF PrintAnswer, stack, OnTheirWay
    <2> QED BY <2>1, <2>2
  <1> QED BY <1>1, <1>2 DEF GoesOn, Aside

LEMMA UncountedGoesOn ==
  ASSUME IInv, Request, slot \notin wanted'
  PROVE  GoesOn
  <1>1. UNCHANGED <<in_flight, told, next_seq, req, zb>>
    BY DEF Request, count, stack
  <1>2. /\ at_pc = "request" /\ at_pc' \in {"uncount", "drop"} /\ wanted' = wanted
        /\ slots' = [slots EXCEPT ![slot] = req] /\ slot \in Slots /\ slot \notin wanted
        /\ slots \in [Slots -> Message] /\ wanted \subseteq Slots
    BY DEF Request, AtGoto, IInv, TypeOK, SlotsInv, HeldByAt
  <1>3. \A i \in wanted : slots'[i] = slots[i]
    BY <1>2
  <1>4. UNCHANGED OnTheirWay /\ \A i \in OnTheirWay : slots'[i] = slots[i]
    BY <1>2, <1>3 DEF OnTheirWay
  <1> QED BY <1>1, <1>2, <1>4 DEF GoesOn, Aside, Asking, Refusing

LEMMA SendBroadcastInv ==
  ASSUME IInv, DInv, SendBroadcast
  PROVE  DInv' /\ UNCHANGED told /\ \A n \in Seqs : SamePlace(n)
  <1>1. /\ at_pc = "idle" /\ at_pc' = "slot" /\ ~req'.ack /\ Aside
        /\ UNCHANGED <<told, zb, next_seq>>
    BY DEF SendBroadcast, Submit, AtGoto, NoMessage, Aside, OnTheirWay, count, stack
  <1>2. \A n \in Seqs : ~Asked(n) /\ ~Refused(n) /\ ~Asked(n)' /\ ~Refused(n)' /\ ~InHand(n)'
    BY <1>1 DEF Asked, Refused, InHand
  <1>3. \A n \in Seqs, x \in Words : Got(n, x)' <=> Got(n, x)
    BY <1>1, SameHeard
  <1>4. NumbersInv'
    BY <1>1 DEF DInv, NumbersInv, Aside
  <1>5. PlaceInv'
    BY <1>1, <1>2, <1>3, AsidePlaces DEF DInv, PlaceInv, Aside, Words
  <1>6. ToldInv'
    BY <1>1, <1>2, <1>3 DEF DInv, ToldInv, Settled, Words
  <1>7. \A n \in Seqs : SamePlace(n)
    BY <1>1, <1>2, <1>3, AsidePlaces DEF SamePlace, Words
  <1>8. DInv'
    BY <1>4, <1>5, <1>6 DEF DInv
  <1> QED BY <1>1, <1>7, <1>8

-----------------------------------------------------------------------------
(* Steps that move one unicast.                                            *)

\* No more unicasts are on their way than entries and slots that wait.
LEMMA RoomToAdmit ==
  ASSUME IInv, FateIsPlace, at_pc = "request", req.ack
  PROVE  Cardinality({m \in Seqs : Fates[m] = "on its way"}) < UCAST_IN_FLIGHT
  <1> DEFINE A == {n \in Seqs : Flying(n)}
             W == {n \in Seqs : Waiting(n)}
             fly == [n \in A |-> CHOOSE e \in in_flight : e.seq = n]
             wait == [n \in W |-> CHOOSE i \in OnTheirWay : slots[i].seq = n]
  <1>1. {m \in Seqs : Fates[m] = "on its way"} = A \cup W
    BY DEF FateIsPlace, Fates
  <1>2. IsFiniteSet(in_flight) /\ IsFiniteSet(OnTheirWay)
    BY OnTheirWayType DEF IInv, CountInv
  <1>3. IsFiniteSet(A) /\ Cardinality(A) <= Cardinality(in_flight)
    <2>1. fly \in Injection(A, in_flight)
      <3>1. \A n \in A : fly[n] \in in_flight /\ fly[n].seq = n
        BY DEF Flying
      <3> HIDE DEF fly
      <3>2. fly \in [A -> in_flight]
        BY <3>1 DEF fly
      <3> HIDE DEF A
      <3> QED BY <3>1, <3>2 DEF Injection, IsInjective
    <2> HIDE DEF fly, A
    <2> QED BY <1>2, <2>1, FS_Injection
  <1>4. IsFiniteSet(W) /\ Cardinality(W) <= Cardinality(OnTheirWay)
    <2>1. wait \in Injection(W, OnTheirWay)
      <3>1. \A n \in W : wait[n] \in OnTheirWay /\ slots[wait[n]].seq = n
        BY DEF Waiting
      <3> HIDE DEF wait
      <3>2. wait \in [W -> OnTheirWay]
        BY <3>1 DEF wait
      <3> HIDE DEF W
      <3> QED BY <3>1, <3>2 DEF Injection, IsInjective
    <2> HIDE DEF wait, W
    <2> QED BY <1>2, <2>1, FS_Injection
  <1>5. Cardinality(in_flight) + Cardinality(OnTheirWay) + 1 <= UCAST_IN_FLIGHT
    BY CountType DEF IInv, TypeOK, CountInv, Counting
  <1> HIDE DEF A, W
  <1>6. Cardinality(A \cup W) <= Cardinality(A) + Cardinality(W)
    <2>1. Cardinality(A \cup W) = Cardinality(A) + Cardinality(W) - Cardinality(A \cap W)
      BY <1>3, <1>4, FS_Union
    <2>2. Cardinality(A \cap W) \in Nat /\ Cardinality(A) \in Nat /\ Cardinality(W) \in Nat
      BY <1>3, <1>4, FS_Subset, FS_CardinalityType, FS_Intersection
    <2> QED BY <2>1, <2>2
  <1>7. /\ Cardinality(A) \in Nat /\ Cardinality(W) \in Nat
        /\ Cardinality(A \cup W) \in Nat
        /\ Cardinality(in_flight) \in Nat /\ Cardinality(OnTheirWay) \in Nat
    BY <1>2, <1>3, <1>4, FS_CardinalityType, FS_Union
  <1>8. Cardinality(A \cup W) < UCAST_IN_FLIGHT
    BY <1>3, <1>4, <1>5, <1>6, <1>7, SizesAssumption
  <1> QED BY <1>1, <1>8

\* What the AT thread and the host know about a unicast when another thread moves it.
LEMMA HostStays ==
  ASSUME DInv, UNCHANGED <<at_pc, req, next_seq>>,
         \A n \in Seqs, x \in {"SEQ", "OK", "ERROR"} : Got(n, x)' <=> Got(n, x)
  PROVE  /\ ToldInv'
         /\ \A n \in Seqs : /\ n >= next_seq' <=> n >= next_seq
                            /\ Asked(n)' <=> Asked(n)
                            /\ Refused(n)' <=> Refused(n)
                            /\ Got(n, "ERROR")' <=> Got(n, "ERROR")
  <1>1. \A n \in Seqs : /\ Asked(n)' <=> Asked(n)
                        /\ Refused(n)' <=> Refused(n)
                        /\ InHand(n)' <=> InHand(n)
    BY DEF Asked, Refused, InHand
  <1>2. \A n \in Seqs : (Got(n, "SEQ")' <=> Got(n, "SEQ")) /\ (Settled(n)' <=> Settled(n))
    BY DEF Settled
  <1>3. ToldInv'
    BY <1>1, <1>2 DEF DInv, ToldInv, Suppressing
  <1> QED BY <1>1, <1>3

\* The message in hand goes to its slot, and waits for a buffer.
LEMMA Admitted ==
  ASSUME IInv, DInv, Request, slot \in wanted', req.ack, NEW k \in Seqs, k = req.seq
  PROVE  /\ DInv' /\ UNCHANGED told /\ Asked(k) /\ Waiting(k)'
         /\ \A n \in Seqs : n # k => SamePlace(n)
  <1>1. /\ at_pc = "request" /\ slot \in Slots /\ slot \notin wanted
        /\ slots' = [slots EXCEPT ![slot] = req]
        /\ slots \in [Slots -> Message] /\ wanted \subseteq Slots
        /\ req \in Message
    BY DEF Request, AtGoto, IInv, TypeOK, SlotsInv, HeldByAt
  <1>2. /\ wanted' = wanted \cup {slot}
        /\ at_pc' = IF ~req.quiet /\ "SEQ" \in Shown THEN "seq" ELSE "ok"
        /\ UNCHANGED <<in_flight, told, next_seq, req, zb>>
    BY <1>1 DEF Request, AtGoto, count, stack
  <1>3. slots'[slot] = req /\ \A i \in wanted : slots'[i] = slots[i] /\ i # slot
    BY <1>1
  <1>4. OnTheirWay' = OnTheirWay \cup {slot} /\ slot \notin OnTheirWay
    BY <1>1, <1>2, <1>3 DEF OnTheirWay
  <1>5. \A i \in OnTheirWay : slots'[i] = slots[i]
    BY <1>3 DEF OnTheirWay
  <1>6. /\ Asked(k) /\ ~Asked(k)' /\ ~Refused(k)'
        /\ \A n \in Seqs : n # k => ~Asked(n) /\ ~Asked(n)' /\ ~Refused(n) /\ ~Refused(n)'
        /\ \A n \in Seqs : (InHand(n) <=> n = k) /\ (InHand(n)' <=> n = k)
        /\ \A n \in Seqs : ~Asked(n)' /\ ~Refused(n)'
    BY <1>1, <1>2 DEF Asked, Refused, InHand
  <1>7. \A n \in Seqs, x \in Words : Got(n, x)' <=> Got(n, x)
    BY <1>2, SameHeard
  <1>8. \A n \in Seqs : /\ Flying(n)' <=> Flying(n)
                        /\ Ending(n)' <=> Ending(n)
                        /\ Waiting(n)' <=> Waiting(n) \/ n = k
    <2>1. \A n \in Seqs : (Flying(n)' <=> Flying(n)) /\ (Ending(n)' <=> Ending(n))
      BY <1>2 DEF Flying, Ending
    <2>2. ASSUME NEW n \in Seqs PROVE Waiting(n)' <=> Waiting(n) \/ n = k
      BY <1>3, <1>4, <1>5 DEF Waiting
    <2> QED BY <2>1, <2>2
  <1>9. /\ ~Flying(k) /\ ~Waiting(k) /\ ~Ending(k)
        /\ ~Got(k, "SEQ") /\ ~Settled(k) /\ ~Got(k, "ERROR")
    BY <1>6 DEF DInv, PlaceInv, ToldInv, Settled
  <1>10. NumbersInv'
    <2>1. k + 1 = next_seq /\ req.quiet \in Quiets /\ k < next_seq
      BY NumberTypes DEF DInv, NumbersInv, IInv
    <2>2. \A i \in OnTheirWay' : slots'[i].seq < next_seq /\ slots'[i].quiet \in Quiets
      BY <1>3, <1>4, <1>5, <2>1 DEF DInv, NumbersInv
    <2> QED BY <1>2, <2>2 DEF DInv, NumbersInv
  <1>11. PlaceInv'
    <2>1. \A e, f \in in_flight' : e.seq = f.seq => e = f
      BY <1>2 DEF DInv, PlaceInv
    <2>2. \A i, j \in OnTheirWay' : slots'[i].seq = slots'[j].seq => i = j
      <3>1. \A i \in OnTheirWay : slots'[i].seq # k
        BY <1>5, <1>9 DEF Waiting
      <3> QED BY <1>3, <1>4, <1>5, <3>1 DEF DInv, PlaceInv
    <2>3. ASSUME NEW n \in Seqs
          PROVE  /\ Flying(n)' => ~Waiting(n)'
                 /\ Flying(n)' \/ Waiting(n)' => ~Ending(n)'
                 /\ Flying(n)' \/ Waiting(n)' \/ Ending(n)' =>
                        ~Asked(n)' /\ ~Refused(n)' /\ ~Got(n, "ERROR")'
      <3>1. /\ Flying(n) => ~Waiting(n)
            /\ Flying(n) \/ Waiting(n) => ~Ending(n)
            /\ Flying(n) \/ Waiting(n) \/ Ending(n) => ~Got(n, "ERROR")
        BY DEF DInv, PlaceInv
      <3>2. Got(n, "ERROR")' <=> Got(n, "ERROR")
        BY <1>7 DEF Words
      <3>3. CASE n = k
        BY <1>6, <1>8, <1>9, <3>2, <3>3
      <3>4. CASE n # k
        BY <1>6, <1>8, <3>1, <3>2, <3>4
      <3> QED BY <3>3, <3>4
    <2> QED BY <2>1, <2>2, <2>3 DEF PlaceInv
  <1>12. ToldInv'
    <2> SUFFICES ASSUME NEW n \in Seqs
                 PROVE /\ n >= next_seq \/ Asked(n)' \/ Refused(n)' => ~Got(n, "SEQ")' /\ ~Settled(n)'
                       /\ n < next_seq => Settled(n)' \/ (InHand(n)' /\ at_pc' # "idle")
                       /\ InHand(n)' /\ at_pc' = "seq" => ~Got(n, "SEQ")'
                       /\ InHand(n)' /\ at_pc' = "ok"  => Got(n, "SEQ")' \/ Suppressing
                       /\ InHand(n)' /\ at_pc' # "idle" => ~Settled(n)'
      BY <1>2 DEF ToldInv, Suppressing
    <2>1. (Got(n, "SEQ")' <=> Got(n, "SEQ")) /\ (Settled(n)' <=> Settled(n))
      BY <1>7 DEF Settled, Words
    <2>2. /\ n >= next_seq => ~Got(n, "SEQ") /\ ~Settled(n)
          /\ n < next_seq => Settled(n) \/ InHand(n)
      BY DEF DInv, ToldInv
    <2>3. at_pc' \in {"seq", "ok"} /\ (at_pc' = "ok" => Suppressing)
      <3>1. req.quiet \in Quiets
        BY DEF DInv, NumbersInv
      <3> QED BY <1>2, <3>1 DEF Suppressing
    <2> QED BY <1>6, <1>9, <2>1, <2>2, <2>3
  <1>13. ASSUME NEW n \in Seqs, n # k PROVE SamePlace(n)
    BY <1>2, <1>6, <1>7, <1>8, <1>13 DEF SamePlace, Words
  <1>14. DInv'
    BY <1>10, <1>11, <1>12 DEF DInv
  <1> QED BY <1>2, <1>6, <1>8, <1>13, <1>14

LEMMA SameCardinality == \A S : Promised!Cardinality(S) = Cardinality(S)
  BY DEF Promised!Cardinality, Cardinality

LEMMA AdmittedRefines ==
  ASSUME IInv, DInv, FateIsPlace, FateIsPlace', Request, slot \in wanted', req.ack
  PROVE  \E n \in Seqs : Promised!Admit(n)
  <1>1. PICK k \in Seqs : k = req.seq
    BY NumberTypes DEF IInv
  <1>2. /\ UNCHANGED told /\ Asked(k) /\ Waiting(k)'
        /\ \A n \in Seqs : n # k => SamePlace(n)
    BY <1>1, Admitted
  <1>3. ASSUME NEW n \in Seqs, n # k PROVE Fate(n)' = Fate(n)
    BY <1>2, <1>3, SameFate
  <1>4. Fate(k) = "asked" /\ Fate(k)' = "on its way"
    BY <1>2, Zenon DEF FateIsPlace
  <1>5. Promised!Becomes(k, "asked", "on its way")
    BY <1>3, <1>4, OneFate
  <1>6. at_pc = "request"
    BY DEF Request, AtGoto
  <1>7. Cardinality({m \in Seqs : Fates[m] = "on its way"}) < UCAST_IN_FLIGHT
    BY <1>6, RoomToAdmit
  <1>8. Promised!Admit(k)
    BY <1>2, <1>5, <1>7, SameCardinality DEF Promised!Admit
  <1> QED BY <1>8

\* The host reads a line of the answer.
LEMMA Answers ==
  ASSUME IInv, DInv, PrintAnswer, req.ack, NEW k \in Seqs, k = req.seq
  PROVE  /\ DInv'
         /\ \A n \in Seqs : SamePlace(n)
         /\ \/ at_pc = "seq"   /\ Promised!Hear(k, "SEQ")
            \/ at_pc = "ok"    /\ Promised!Hear(k, "OK")
            \/ at_pc = "error" /\ Promised!Hear(k, "ERROR")
  <1>1. /\ Aside /\ UNCHANGED <<in_flight, next_seq, req, zb>>
        /\ at_pc' = IF at_pc = "seq" THEN "ok" ELSE "idle"
    BY DEF PrintAnswer, AtGoto, Aside, OnTheirWay, count, stack
  <1>2. PICK what \in {"SEQ", "OK", "ERROR"} :
             /\ told' = [told EXCEPT ![k] = Append(@, what)]
             /\ \/ at_pc = "seq"   /\ what = "SEQ"
                \/ at_pc = "ok"    /\ what = "OK"
                \/ at_pc = "error" /\ what = "ERROR"
    BY DEF PrintAnswer, AtGoto, Tell
  <1>3. \A n \in Seqs, x \in Words : Got(n, x)' <=> Got(n, x) \/ (n = k /\ x = what)
    <2>1. TypeOK /\ what \in Words /\ told' = [told EXCEPT ![k] = Append(@, what)]
      BY <1>2 DEF IInv, Words
    <2> QED BY <2>1, Heard
  <1>4. \A n \in Seqs : /\ Got(n, "SEQ")' <=> Got(n, "SEQ") \/ (n = k /\ what = "SEQ")
                        /\ Got(n, "ERROR")' <=> Got(n, "ERROR") \/ (n = k /\ what = "ERROR")
                        /\ Settled(n)' <=> Settled(n) \/ (n = k /\ what # "SEQ")
    BY <1>2, <1>3 DEF Settled, Words
  <1>5. /\ Refused(k) <=> at_pc = "error"
        /\ ~Asked(k) /\ ~Asked(k)' /\ ~Refused(k)'
        /\ \A n \in Seqs : n # k => ~Asked(n) /\ ~Asked(n)' /\ ~Refused(n) /\ ~Refused(n)'
        /\ \A n \in Seqs : (InHand(n) <=> n = k) /\ (InHand(n)' <=> n = k)
    BY <1>1, <1>2 DEF Asked, Refused, InHand
  <1>6. /\ ~Settled(k) /\ ~Got(k, "ERROR") /\ k < next_seq
        /\ at_pc = "seq" => ~Got(k, "SEQ")
    <2>1. k + 1 = next_seq
      BY DEF DInv, NumbersInv
    <2>2. k < next_seq
      BY <2>1, NumberTypes DEF IInv
    <2> QED BY <1>2, <1>5, <2>2 DEF DInv, ToldInv, Settled
  <1>7. NumbersInv'
    BY <1>1 DEF DInv, NumbersInv, Aside
  <1>8. PlaceInv'
    <2>1. \A e, f \in in_flight' : e.seq = f.seq => e = f
      BY <1>1 DEF DInv, PlaceInv
    <2>2. \A i, j \in OnTheirWay' : slots'[i].seq = slots'[j].seq => i = j
      BY <1>1 DEF DInv, PlaceInv, Aside
    <2>3. ASSUME NEW n \in Seqs
          PROVE  /\ Flying(n)' => ~Waiting(n)'
                 /\ Flying(n)' \/ Waiting(n)' => ~Ending(n)'
                 /\ Flying(n)' \/ Waiting(n)' \/ Ending(n)' =>
                        ~Asked(n)' /\ ~Refused(n)' /\ ~Got(n, "ERROR")'
      <3>1. /\ Flying(n) => ~Waiting(n)
            /\ Flying(n) \/ Waiting(n) => ~Ending(n)
            /\ Flying(n) \/ Waiting(n) \/ Ending(n) => ~Refused(n) /\ ~Got(n, "ERROR")
        BY DEF DInv, PlaceInv
      <3>2. (Flying(n)' <=> Flying(n)) /\ (Waiting(n)' <=> Waiting(n)) /\ (Ending(n)' <=> Ending(n))
        BY <1>1, AsidePlaces
      <3>3. CASE n = k
        <4>1. Got(k, "ERROR")' => Refused(k)
          BY <1>2, <1>4, <1>5, <1>6
        <4> QED BY <1>5, <3>1, <3>2, <3>3, <4>1
      <3>4. CASE n # k
        BY <1>4, <1>5, <3>1, <3>2, <3>4
      <3> QED BY <3>3, <3>4
    <2> QED BY <2>1, <2>2, <2>3 DEF PlaceInv
  <1>9. ToldInv'
    <2> SUFFICES ASSUME NEW n \in Seqs
                 PROVE /\ n >= next_seq \/ Asked(n)' \/ Refused(n)' => ~Got(n, "SEQ")' /\ ~Settled(n)'
                       /\ n < next_seq => Settled(n)' \/ (InHand(n)' /\ at_pc' # "idle")
                       /\ InHand(n)' /\ at_pc' = "seq" => ~Got(n, "SEQ")'
                       /\ InHand(n)' /\ at_pc' = "ok"  => Got(n, "SEQ")' \/ Suppressing
                       /\ InHand(n)' /\ at_pc' # "idle" => ~Settled(n)'
      BY <1>1 DEF ToldInv, Suppressing
    <2>1. /\ n >= next_seq => ~Got(n, "SEQ") /\ ~Settled(n)
          /\ n < next_seq => Settled(n) \/ InHand(n)
      BY DEF DInv, ToldInv
    <2>2. n >= next_seq => n # k
      BY <1>6, NumberTypes DEF IInv
    <2>3. CASE n = k
      BY <1>1, <1>2, <1>4, <1>5, <1>6, <2>2, <2>3
    <2>4. CASE n # k
      BY <1>4, <1>5, <2>1, <2>4
    <2> QED BY <2>3, <2>4
  <1>10. DInv'
    BY <1>7, <1>8, <1>9 DEF DInv
  <1>11. ASSUME NEW n \in Seqs PROVE SamePlace(n)
    <2>1. /\ n >= next_seq' <=> n >= next_seq
          /\ (Flying(n)' <=> Flying(n)) /\ (Waiting(n)' <=> Waiting(n)) /\ (Ending(n)' <=> Ending(n))
      BY <1>1, AsidePlaces
    <2>2. CASE n = k
      BY <1>2, <1>4, <1>5, <1>6, <2>1, <2>2 DEF SamePlace
    <2>3. CASE n # k
      BY <1>4, <1>5, <2>1, <2>3 DEF SamePlace
    <2> QED BY <2>2, <2>3
  <1> QED BY <1>2, <1>10, <1>11 DEF Promised!Hear

LEMMA AnswersRefines ==
  ASSUME IInv, DInv, FateIsPlace, FateIsPlace', PrintAnswer, req.ack
  PROVE  \E n \in Seqs : Promised!AnswerSeq(n) \/ Promised!AnswerOk(n) \/ Promised!AnswerError(n)
  <1>1. PICK k \in Seqs : k = req.seq
    BY NumberTypes DEF IInv
  <1>2. /\ \A n \in Seqs : SamePlace(n)
        /\ \/ at_pc = "seq"   /\ Promised!Hear(k, "SEQ")
           \/ at_pc = "ok"    /\ Promised!Hear(k, "OK")
           \/ at_pc = "error" /\ Promised!Hear(k, "ERROR")
    BY <1>1, Answers
  <1>3. UNCHANGED Fates
    <2>1. \A n \in Seqs : Fate(n)' = Fate(n)
      BY <1>2, SameFate
    <2> QED BY <2>1, NoFate
  <1>4. /\ \A x \in Words : x \in Promised!Heard(k) <=> Got(k, x)
        /\ Promised!Answered(k) <=> Settled(k)
    BY HeardIs DEF IInv
  <1>5. InHand(k) /\ k < next_seq
    <2>1. k + 1 = next_seq
      BY <1>1 DEF DInv, NumbersInv
    <2> QED BY <1>1, <2>1, NumberTypes DEF IInv, InHand
  <1>6. ~Settled(k) /\ ~Promised!Answered(k)
    BY <1>2, <1>4, <1>5 DEF DInv, ToldInv
  <1>7. CASE at_pc = "error"
    <2>1. Refused(k)
      BY <1>5, <1>7 DEF Refused, InHand
    <2>2. Fate(k) = "refused"
      BY <2>1, Zenon DEF FateIsPlace
    <2> QED BY <1>2, <1>3, <1>6, <1>7, <2>2 DEF Promised!AnswerError, Fates
  <1>8. CASE at_pc \in {"seq", "ok"}
    <2>1. ~Asked(k) /\ ~Refused(k) /\ ~Got(k, "ERROR") /\ ~(k >= next_seq)
      BY <1>5, <1>6, <1>8, NumberTypes DEF Asked, Refused, Settled, IInv
    <2>2. Fate(k) \in {"on its way", "ended", "reported"}
      BY <2>1 DEF FateIsPlace
    <2>3. at_pc = "seq" => "SEQ" \notin Promised!Heard(k)
      BY <1>4, <1>5 DEF DInv, ToldInv, Words
    <2>4. at_pc = "ok" => "SEQ" \in Promised!Heard(k) \/ Suppressing
      BY <1>4, <1>5 DEF DInv, ToldInv, Words
    <2> QED BY <1>2, <1>3, <1>6, <1>8, <2>2, <2>3, <2>4
            DEF Promised!AnswerSeq, Promised!AnswerOk, Fates
  <1> QED BY <1>2, <1>7, <1>8

\* The stack takes the message, or fails to: its slot waits no more.
LEMMA Sent ==
  ASSUME IInv, DInv, NEW i \in Slots, TxSend(i), slots[i].ack, NEW k \in Seqs, k = slots[i].seq
  PROVE  /\ DInv' /\ UNCHANGED told /\ Waiting(k)
         /\ \A n \in Seqs : n # k => SamePlace(n)
         /\ Flying(k)' \/ Ending(k)'
         /\ Flying(k)' => SamePlace(k)
  <1>1. PICK b \in FreeBufs : Queued(i, b) \/ NotQueued(i, b)
    BY DEF TxSend
  <1>2. /\ i \in wanted /\ wanted' = wanted \ {i} /\ zb.pc = "idle"
        /\ UNCHANGED <<at_pc, req, next_seq, slots, told>>
    BY DEF TxSend, at
  <1> DEFINE m == slots[i]
             e == [buf |-> b, seq |-> m.seq, quiet |-> m.quiet]
  <1>3. /\ m \in Message /\ \A f \in in_flight : f.buf # b
        /\ Cardinality(in_flight) < UCAST_IN_FLIGHT
    BY <1>1, <1>2, RoomForUnicast
  <1>4. i \in OnTheirWay /\ OnTheirWay' = OnTheirWay \ {i}
    BY <1>2 DEF OnTheirWay
  <1>5. \/ in_flight' = in_flight \cup {e} /\ zb' = zb
        \/ in_flight' = in_flight /\ zb'.pc = "report" /\ zb'.seq = k /\ zb'.quiet = m.quiet
    <2>1. CASE Queued(i, b)
      BY <1>3, <2>1 DEF Queued, InFlightAdd
    <2>2. CASE NotQueued(i, b)
      <3>1. /\ in_flight' = Without(b, InFlightAdd(b, m))
            /\ zb' = ReportOf(m, FALSE, b, i)
        BY <2>2 DEF NotQueued
      <3>2. in_flight' = in_flight
        BY <1>3, <3>1 DEF Without, InFlightAdd
      <3> QED BY <3>1, <3>2 DEF ReportOf
    <2> QED BY <1>1, <2>1, <2>2
  <1>6. \A n \in Seqs, x \in Words : Got(n, x)' <=> Got(n, x)
    BY <1>2, SameHeard
  <1>7. /\ ToldInv'
        /\ \A n \in Seqs : /\ n >= next_seq' <=> n >= next_seq
                           /\ Asked(n)' <=> Asked(n)
                           /\ Refused(n)' <=> Refused(n)
                           /\ Got(n, "ERROR")' <=> Got(n, "ERROR")
    BY <1>2, <1>6, HostStays DEF Words
  <1>8. Waiting(k) /\ ~Flying(k) /\ ~Ending(k)
    BY <1>2, <1>4 DEF DInv, PlaceInv, Waiting, Ending
  <1>9. \A n \in Seqs : Waiting(n)' <=> Waiting(n) /\ n # k
    BY <1>2, <1>4 DEF DInv, PlaceInv, Waiting
  <1>10. \A n \in Seqs : ~Ending(n)
    BY <1>2 DEF Ending
  <1>11. \/ \A n \in Seqs : (Flying(n)' <=> Flying(n) \/ n = k) /\ ~Ending(n)'
         \/ \A n \in Seqs : (Flying(n)' <=> Flying(n)) /\ (Ending(n)' <=> n = k)
    <2>1. CASE in_flight' = in_flight \cup {e} /\ zb' = zb
      <3>1. e.seq = k
        OBVIOUS
      <3>2. ASSUME NEW n \in Seqs PROVE Flying(n)' <=> Flying(n) \/ n = k
        <4> HIDE DEF e
        <4> QED BY <2>1, <3>1 DEF Flying
      <3>3. \A n \in Seqs : ~Ending(n)'
        BY <1>2, <2>1 DEF Ending
      <3> QED BY <3>2, <3>3
    <2>2. CASE in_flight' = in_flight /\ zb'.pc = "report" /\ zb'.seq = k
      BY <2>2 DEF Flying, Ending
    <2> QED BY <1>5, <2>1, <2>2
  <1>12. NumbersInv'
    <2>1. m.seq < next_seq /\ m.quiet \in Quiets
      BY <1>4 DEF DInv, NumbersInv
    <2>2. \A f \in in_flight' : f.seq < next_seq /\ f.quiet \in Quiets
      BY <1>5, <2>1 DEF DInv, NumbersInv
    <2>3. zb'.pc = "report" => zb'.seq < next_seq /\ zb'.quiet \in Quiets
      BY <1>2, <1>5, <2>1
    <2>4. \A j \in OnTheirWay' : slots'[j].seq < next_seq /\ slots'[j].quiet \in Quiets
      BY <1>2, <1>4 DEF DInv, NumbersInv
    <2>5. req.ack => req.seq + 1 = next_seq /\ req.quiet \in Quiets
      BY DEF DInv, NumbersInv
    <2> QED BY <1>2, <2>2, <2>3, <2>4, <2>5 DEF NumbersInv
  <1>13. PlaceInv'
    <2>1. \A f, g \in in_flight' : f.seq = g.seq => f = g
      <3>1. \A f \in in_flight : f.seq # k
        BY <1>8 DEF Flying
      <3>2. e.seq = k
        OBVIOUS
      <3>3. \A f, g \in in_flight : f.seq = g.seq => f = g
        BY DEF DInv, PlaceInv
      <3> HIDE DEF e
      <3> QED BY <1>5, <3>1, <3>2, <3>3
    <2>2. \A j, l \in OnTheirWay' : slots'[j].seq = slots'[l].seq => j = l
      BY <1>2, <1>4 DEF DInv, PlaceInv
    <2>3. ASSUME NEW n \in Seqs
          PROVE  /\ Flying(n)' => ~Waiting(n)'
                 /\ Flying(n)' \/ Waiting(n)' => ~Ending(n)'
                 /\ Flying(n)' \/ Waiting(n)' \/ Ending(n)' =>
                        ~Asked(n)' /\ ~Refused(n)' /\ ~Got(n, "ERROR")'
      <3>1. /\ Flying(n) => ~Waiting(n)
            /\ Flying(n) \/ Waiting(n) => ~Asked(n) /\ ~Refused(n) /\ ~Got(n, "ERROR")
        BY DEF DInv, PlaceInv
      <3> QED BY <1>7, <1>8, <1>9, <1>10, <1>11, <3>1
    <2> QED BY <2>1, <2>2, <2>3 DEF PlaceInv
  <1>14. DInv'
    BY <1>7, <1>12, <1>13 DEF DInv
  <1>15. ASSUME NEW n \in Seqs, n # k PROVE SamePlace(n)
    BY <1>7, <1>9, <1>10, <1>11, <1>15 DEF SamePlace
  <1>16. Flying(k)' => SamePlace(k)
    BY <1>7, <1>8, <1>9, <1>10, <1>11 DEF SamePlace
  <1>17. Flying(k)' \/ Ending(k)'
    BY <1>11
  <1> QED BY <1>2, <1>8, <1>14, <1>15, <1>16, <1>17

LEMMA SentRefines ==
  ASSUME IInv, DInv, FateIsPlace, FateIsPlace', NEW i \in Slots, TxSend(i), slots[i].ack
  PROVE  UNCHANGED <<Fates, told>> \/ \E n \in Seqs : Promised!End(n)
  <1>0. i \in OnTheirWay
    BY DEF TxSend, OnTheirWay
  <1>1. PICK k \in Seqs : k = slots[i].seq
    <2>1. /\ slots[i].seq \in Nat /\ slots[i].seq < next_seq
      BY <1>0, NumberTypes DEF IInv, DInv, NumbersInv
    <2> QED BY <2>1, NumberTypes DEF IInv
  <1>2. /\ UNCHANGED told /\ Waiting(k)
        /\ \A n \in Seqs : n # k => SamePlace(n)
        /\ Flying(k)' \/ Ending(k)'
        /\ Flying(k)' => SamePlace(k)
    BY <1>1, Sent
  <1>3. ASSUME NEW n \in Seqs, n # k PROVE Fate(n)' = Fate(n)
    BY <1>2, <1>3, SameFate
  <1>4. CASE Flying(k)'
    <2>1. Fate(k)' = Fate(k)
      BY <1>2, <1>4, SameFate
    <2>2. \A n \in Seqs : Fate(n)' = Fate(n)
      BY <1>3, <2>1
    <2> QED BY <1>2, <2>2, NoFate
  <1>5. CASE Ending(k)'
    <2>1. Fate(k) = "on its way" /\ Fate(k)' = "ended"
      BY <1>2, <1>5, Zenon DEF FateIsPlace
    <2>2. Promised!Becomes(k, "on its way", "ended")
      BY <1>3, <2>1, OneFate
    <2>3. Promised!End(k)
      BY <1>2, <2>2 DEF Promised!End
    <2> QED BY <2>3
  <1> QED BY <1>2, <1>4, <1>5

LEMMA BroadcastSentGoesOn ==
  ASSUME IInv, NEW i \in Slots, TxSend(i), ~slots[i].ack
  PROVE  GoesOn
  <1>1. PICK b \in FreeBufs : Queued(i, b) \/ NotQueued(i, b)
    BY DEF TxSend
  <1>2. /\ i \in wanted /\ wanted' = wanted \ {i}
        /\ UNCHANGED <<at_pc, req, next_seq, slots, told>>
    BY DEF TxSend, at
  <1>3. \A f \in in_flight : f.buf # b
    BY <1>1, <1>2, RoomForUnicast
  <1>4. in_flight' = in_flight /\ zb' = zb
    BY <1>1, <1>3 DEF Queued, NotQueued, InFlightAdd, Without
  <1>5. UNCHANGED OnTheirWay
    BY <1>2 DEF OnTheirWay
  <1> QED BY <1>2, <1>4, <1>5 DEF GoesOn, Aside

\* The stack is done with a unicast.
LEMMA Done ==
  ASSUME IInv, DInv, NEW b \in Bufs, NEW acked \in BOOLEAN, TxDone(b, acked),
         NEW e \in in_flight, e.buf = b, NEW k \in Seqs, k = e.seq
  PROVE  /\ DInv' /\ UNCHANGED told /\ Flying(k) /\ Ending(k)'
         /\ \A n \in Seqs : n # k => SamePlace(n)
  <1>1. /\ zb.pc = "idle"
        /\ UNCHANGED <<at_pc, req, next_seq, slots, wanted, told, OnTheirWay>>
    BY DEF TxDone, at, OnTheirWay
  <1>2. in_flight' = in_flight \ {e} /\ zb'.pc = "report" /\ zb'.seq = k /\ zb'.quiet = e.quiet
    <2>1. PICK f \in in_flight :
             f.buf = b /\ in_flight' = in_flight \ {f} /\ zb' = ReportOf(f, acked, b, -1)
      BY DEF TxDone, FindAndReport
    <2>2. f = e
      <3>1. e \in Entry /\ f \in Entry
        BY <2>1 DEF IInv, TypeOK
      <3>2. /\ carried[b] = [ack |-> TRUE, seq |-> e.seq, quiet |-> e.quiet]
            /\ carried[b] = [ack |-> TRUE, seq |-> f.seq, quiet |-> f.quiet]
        BY <2>1 DEF IInv, Tracked
      <3>3. e.seq = f.seq /\ e.quiet = f.quiet
        BY <3>2
      <3> QED BY <2>1, <3>1, <3>3 DEF Entry
    <2> QED BY <2>1, <2>2 DEF ReportOf
  <1>3. \A n \in Seqs, x \in Words : Got(n, x)' <=> Got(n, x)
    BY <1>1, SameHeard
  <1>4. /\ ToldInv'
        /\ \A n \in Seqs : /\ n >= next_seq' <=> n >= next_seq
                           /\ Asked(n)' <=> Asked(n)
                           /\ Refused(n)' <=> Refused(n)
                           /\ Got(n, "ERROR")' <=> Got(n, "ERROR")
    BY <1>1, <1>3, HostStays DEF Words
  <1>5. Flying(k) /\ ~Waiting(k)
    BY DEF DInv, PlaceInv, Flying
  <1>6. \A n \in Seqs : /\ Flying(n)' <=> Flying(n) /\ n # k
                        /\ Waiting(n)' <=> Waiting(n)
                        /\ ~Ending(n)
                        /\ Ending(n)' <=> n = k
    <2>1. \A n \in Seqs : Flying(n)' <=> Flying(n) /\ n # k
      BY <1>2 DEF DInv, PlaceInv, Flying
    <2>2. \A n \in Seqs : Waiting(n)' <=> Waiting(n)
      BY <1>1 DEF Waiting
    <2>3. \A n \in Seqs : ~Ending(n) /\ (Ending(n)' <=> n = k)
      BY <1>1, <1>2 DEF Ending
    <2> QED BY <2>1, <2>2, <2>3
  <1>7. NumbersInv'
    BY <1>1, <1>2 DEF DInv, NumbersInv
  <1>8. PlaceInv'
    <2>1. \A f, g \in in_flight' : f.seq = g.seq => f = g
      BY <1>2 DEF DInv, PlaceInv
    <2>2. \A i, j \in OnTheirWay' : slots'[i].seq = slots'[j].seq => i = j
      BY <1>1 DEF DInv, PlaceInv
    <2>3. ASSUME NEW n \in Seqs
          PROVE  /\ Flying(n)' => ~Waiting(n)'
                 /\ Flying(n)' \/ Waiting(n)' => ~Ending(n)'
                 /\ Flying(n)' \/ Waiting(n)' \/ Ending(n)' =>
                        ~Asked(n)' /\ ~Refused(n)' /\ ~Got(n, "ERROR")'
      <3>1. /\ Flying(n) => ~Waiting(n)
            /\ Flying(n) \/ Waiting(n) => ~Asked(n) /\ ~Refused(n) /\ ~Got(n, "ERROR")
        BY DEF DInv, PlaceInv
      <3> QED BY <1>4, <1>5, <1>6, <3>1
    <2> QED BY <2>1, <2>2, <2>3 DEF PlaceInv
  <1>9. DInv'
    BY <1>4, <1>7, <1>8 DEF DInv
  <1>10. ASSUME NEW n \in Seqs, n # k PROVE SamePlace(n)
    BY <1>4, <1>6, <1>10 DEF SamePlace
  <1> QED BY <1>1, <1>5, <1>6, <1>9, <1>10

LEMMA NumberOfEntry ==
  ASSUME IInv, DInv, NEW e \in in_flight PROVE \E k \in Seqs : k = e.seq
  <1>1. e.seq \in Nat /\ e.seq < next_seq
    BY NumberTypes DEF IInv, DInv, NumbersInv
  <1> QED BY <1>1, NumberTypes DEF IInv

LEMMA DoneRefines ==
  ASSUME IInv, DInv, FateIsPlace, FateIsPlace', NEW b \in Bufs, NEW acked \in BOOLEAN,
         TxDone(b, acked), NEW e \in in_flight, e.buf = b
  PROVE  \E n \in Seqs : Promised!End(n)
  <1>1. PICK k \in Seqs : k = e.seq
    BY NumberOfEntry
  <1>2. /\ UNCHANGED told /\ Flying(k) /\ Ending(k)'
        /\ \A n \in Seqs : n # k => SamePlace(n)
    BY <1>1, Done
  <1>3. ASSUME NEW n \in Seqs, n # k PROVE Fate(n)' = Fate(n)
    BY <1>2, <1>3, SameFate
  <1>4. Fate(k) = "on its way" /\ Fate(k)' = "ended"
    BY <1>2, Zenon DEF FateIsPlace
  <1>5. Promised!Becomes(k, "on its way", "ended")
    BY <1>3, <1>4, OneFate
  <1>6. Promised!End(k)
    BY <1>2, <1>5 DEF Promised!End
  <1> QED BY <1>6

LEMMA BroadcastDoneGoesOn ==
  ASSUME IInv, NEW b \in Bufs, NEW acked \in BOOLEAN, TxDone(b, acked),
         ~ \E e \in in_flight : e.buf = b
  PROVE  GoesOn
  BY DEF TxDone, FindAndReport, at, count, OnTheirWay, GoesOn, Aside

\* The host reads about the end of a unicast.
LEMMA Reports ==
  ASSUME IInv, DInv, Report, NEW k \in Seqs, k = zb.seq
  PROVE  /\ DInv' /\ Ending(k)
         /\ \A n \in Seqs : n # k => SamePlace(n)
         /\ ~(k >= next_seq') /\ ~Asked(k)' /\ ~Refused(k)' /\ ~Got(k, "ERROR")'
         /\ ~Flying(k)' /\ ~Waiting(k)' /\ ~Ending(k)'
         /\ \/ Promised!Hear(k, "ACK") \/ Promised!Hear(k, "NACK")
            \/ Suppressing /\ UNCHANGED told
  <1>1. /\ zb.pc = "report" /\ zb'.pc = "finish"
        /\ UNCHANGED <<at_pc, req, next_seq, slots, wanted, in_flight, OnTheirWay>>
    BY DEF Report, IInv, TypeOK, at, count, stack, OnTheirWay
  <1> DEFINE prompt == Prompt(zb.acked)
  <1>2. prompt \in {"ACK", "NACK"}
    BY DEF Prompt
  <1>3. /\ told' = IF Reported THEN [told EXCEPT ![k] = Append(@, prompt)] ELSE told
        /\ ~Reported => Suppressing
    <2>1. zb.quiet \in Quiets
      BY <1>1 DEF DInv, NumbersInv
    <2> QED BY <1>2, <2>1 DEF Report, Reported, Suppressing
  <1> HIDE DEF prompt
  <1>4. \A n \in Seqs, x \in {"SEQ", "OK", "ERROR"} : Got(n, x)' <=> Got(n, x)
    <2>1. CASE Reported
      <3>1. TypeOK /\ prompt \in Words /\ told' = [told EXCEPT ![k] = Append(@, prompt)]
        BY <1>2, <1>3, <2>1 DEF IInv, Words
      <3>2. \A n \in Seqs, x \in Words : Got(n, x)' <=> Got(n, x) \/ (n = k /\ x = prompt)
        BY <3>1, Heard
      <3> QED BY <1>2, <3>2 DEF Words
    <2>2. CASE ~Reported
      BY <1>3, <2>2, SameHeard DEF Words
    <2> QED BY <2>1, <2>2
  <1>5. /\ ToldInv'
        /\ \A n \in Seqs : /\ n >= next_seq' <=> n >= next_seq
                           /\ Asked(n)' <=> Asked(n)
                           /\ Refused(n)' <=> Refused(n)
                           /\ Got(n, "ERROR")' <=> Got(n, "ERROR")
    BY <1>1, <1>4, HostStays
  <1>6. \A n \in Seqs : /\ Flying(n)' <=> Flying(n)
                        /\ Waiting(n)' <=> Waiting(n)
                        /\ Ending(n) <=> n = k
                        /\ ~Ending(n)'
    BY <1>1 DEF Flying, Waiting, Ending
  <1>7. NumbersInv'
    BY <1>1 DEF DInv, NumbersInv
  <1>8. PlaceInv'
    <2>1. \A f, g \in in_flight' : f.seq = g.seq => f = g
      BY <1>1 DEF DInv, PlaceInv
    <2>2. \A i, j \in OnTheirWay' : slots'[i].seq = slots'[j].seq => i = j
      BY <1>1 DEF DInv, PlaceInv
    <2>3. ASSUME NEW n \in Seqs
          PROVE  /\ Flying(n)' => ~Waiting(n)'
                 /\ Flying(n)' \/ Waiting(n)' => ~Ending(n)'
                 /\ Flying(n)' \/ Waiting(n)' \/ Ending(n)' =>
                        ~Asked(n)' /\ ~Refused(n)' /\ ~Got(n, "ERROR")'
      <3>1. /\ Flying(n) => ~Waiting(n)
            /\ Flying(n) \/ Waiting(n) => ~Asked(n) /\ ~Refused(n) /\ ~Got(n, "ERROR")
        BY DEF DInv, PlaceInv
      <3> QED BY <1>5, <1>6, <3>1
    <2> QED BY <2>1, <2>2, <2>3 DEF PlaceInv
  <1>9. DInv'
    BY <1>5, <1>7, <1>8 DEF DInv
  <1>10. ASSUME NEW n \in Seqs, n # k PROVE SamePlace(n)
    BY <1>5, <1>6, <1>10 DEF SamePlace
  <1>11. /\ ~(k >= next_seq') /\ ~Asked(k)' /\ ~Refused(k)' /\ ~Got(k, "ERROR")'
         /\ ~Flying(k)' /\ ~Waiting(k)' /\ ~Ending(k)'
    <2>1. k < next_seq
      BY <1>1 DEF DInv, NumbersInv
    <2>2. ~(k >= next_seq)
      BY <2>1, NumberTypes DEF IInv
    <2>3. ~Asked(k) /\ ~Refused(k) /\ ~Got(k, "ERROR") /\ ~Flying(k) /\ ~Waiting(k)
      BY <1>6 DEF DInv, PlaceInv
    <2> QED BY <1>5, <1>6, <2>2, <2>3
  <1>12. \/ Promised!Hear(k, "ACK") \/ Promised!Hear(k, "NACK")
         \/ Suppressing /\ UNCHANGED told
    BY <1>2, <1>3 DEF Promised!Hear
  <1> QED BY <1>6, <1>9, <1>10, <1>11, <1>12

LEMMA ReportsRefines ==
  ASSUME IInv, DInv, FateIsPlace, FateIsPlace', Report
  PROVE  \E n \in Seqs : Promised!Report(n)
  <1>1. PICK k \in Seqs : k = zb.seq
    <2>1. zb.seq \in Nat /\ zb.seq < next_seq
      BY NumberTypes DEF Report, IInv, DInv, NumbersInv
    <2> QED BY <2>1, NumberTypes DEF IInv
  <1>2. /\ Ending(k)
        /\ \A n \in Seqs : n # k => SamePlace(n)
        /\ ~(k >= next_seq') /\ ~Asked(k)' /\ ~Refused(k)' /\ ~Got(k, "ERROR")'
        /\ ~Flying(k)' /\ ~Waiting(k)' /\ ~Ending(k)'
        /\ \/ Promised!Hear(k, "ACK") \/ Promised!Hear(k, "NACK")
           \/ Suppressing /\ UNCHANGED told
    BY <1>1, Reports
  <1>3. ASSUME NEW n \in Seqs, n # k PROVE Fate(n)' = Fate(n)
    BY <1>2, <1>3, SameFate
  <1>4. Fate(k) = "ended" /\ Fate(k)' = "reported"
    <2>1. Fate(k) = "ended"
      BY <1>2, Zenon DEF FateIsPlace
    <2>2. /\ Fate(k)' # "new" /\ Fate(k)' # "asked" /\ Fate(k)' # "refused"
          /\ Fate(k)' # "on its way" /\ Fate(k)' # "ended"
      BY <1>2, Zenon DEF FateIsPlace
    <2>3. Fate(k)' \in {"new", "asked", "refused", "on its way", "ended", "reported"}
      BY DEF FateIsPlace
    <2> QED BY <2>1, <2>2, <2>3
  <1>5. Promised!Becomes(k, "ended", "reported")
    BY <1>3, <1>4, OneFate
  <1>6. Promised!Report(k)
    BY <1>2, <1>5 DEF Promised!Report
  <1> QED BY <1>6

LEMMA AskRefines ==
  ASSUME IInv, DInv, FateIsPlace, FateIsPlace', NEW quiet \in Quiets, SendUnicast(quiet)
  PROVE  \E n \in Seqs : Promised!Ask(n)
  <1>1. PICK k \in Seqs : k = next_seq
    BY SendUnicastInv
  <1>2. UNCHANGED told /\ \A n \in Seqs : IF n = k THEN Asked(n)' ELSE SamePlace(n)
    BY <1>1, SendUnicastInv
  <1>3. ASSUME NEW n \in Seqs, n # k PROVE Fate(n)' = Fate(n)
    BY <1>2, <1>3, SameFate
  <1>4. Fate(k) = "new" /\ Fate(k)' = "asked"
    <2>1. k >= next_seq
      BY <1>1, NumberTypes DEF IInv
    <2>2. Fate(k) = "new"
      BY <2>1 DEF FateIsPlace
    <2>3. Fate(k)' = "asked"
      BY <1>2, Zenon DEF FateIsPlace
    <2> QED BY <2>2, <2>3
  <1>5. Promised!Becomes(k, "new", "asked")
    BY <1>3, <1>4, OneFate
  <1>6. ASSUME NEW n \in Seqs, n < k PROVE Promised!Answered(n)
    <2>1. Settled(n)
      BY <1>1, <1>6 DEF SendUnicast, Submit, AtGoto, DInv, ToldInv
    <2> QED BY <2>1, HeardIs DEF IInv
  <1>7. Promised!Ask(k)
    BY <1>2, <1>5, <1>6 DEF Promised!Ask
  <1> QED BY <1>7

LEMMA InitDInv == Init => DInv
  <1> SUFFICES ASSUME Init PROVE DInv
    OBVIOUS
  <1>1. /\ at_pc = "idle" /\ ~req.ack /\ next_seq = 0
        /\ in_flight = {} /\ OnTheirWay = {} /\ zb.pc = "idle"
    BY DEF Init, NoMessage, OnTheirWay, ZbIdle
  <1>2. \A n \in Seqs, x \in Words : ~Got(n, x)
    BY DEF Init, Got
  <1>3. \A n \in Seqs : ~(n < next_seq)
    BY <1>1, SizesAssumption DEF Seqs
  <1>4. NumbersInv
    BY <1>1 DEF NumbersInv
  <1>5. PlaceInv
    BY <1>1 DEF PlaceInv, Flying, Waiting, Ending
  <1>6. ToldInv
    BY <1>1, <1>2, <1>3 DEF ToldInv, Settled, Words, InHand
  <1> QED BY <1>4, <1>5, <1>6 DEF DInv

\* The steps that leave every unicast where it is, or have one refused.
Going ==
  \/ UNCHANGED vars
  \/ TakeSlot \/ CountUnicast \/ Uncount \/ DropSlot \/ Finish
  \/ ~req.ack /\ (Request \/ PrintAnswer)
  \/ Request /\ slot \notin wanted'
  \/ \E i \in Slots : TxSend(i) /\ ~slots[i].ack
  \/ \E b \in Bufs, acked \in BOOLEAN : TxDone(b, acked) /\ ~ \E e \in in_flight : e.buf = b

LEMMA Goings == ASSUME IInv, Going PROVE GoesOn
  BY StepsGoOn, BroadcastsGoOn, UncountedGoesOn, BroadcastSentGoesOn, BroadcastDoneGoesOn DEF Going

\* What a step does to the unicasts.
LEMMA Steps ==
  ASSUME [Next]_vars
  PROVE  \/ Going
         \/ \E quiet \in Quiets : SendUnicast(quiet)
         \/ SendBroadcast
         \/ Request /\ slot \in wanted' /\ req.ack
         \/ PrintAnswer /\ req.ack
         \/ \E i \in Slots : TxSend(i) /\ slots[i].ack
         \/ \E b \in Bufs, acked \in BOOLEAN, e \in in_flight : TxDone(b, acked) /\ e.buf = b
         \/ Report
  <1>1. CASE AtStep
    BY <1>1 DEF AtStep, Going
  <1>2. ASSUME NEW i \in Slots, TxSend(i)
        PROVE  Going \/ \E j \in Slots : TxSend(j) /\ slots[j].ack
    BY <1>2 DEF Going
  <1>3. ASSUME NEW b \in Bufs, NEW acked \in BOOLEAN, TxDone(b, acked)
        PROVE  Going \/ \E c \in Bufs, a \in BOOLEAN, e \in in_flight : TxDone(c, a) /\ e.buf = c
    BY <1>3 DEF Going
  <1>4. CASE Finish \/ UNCHANGED vars
    BY <1>4 DEF Going
  <1> QED BY <1>1, <1>2, <1>3, <1>4 DEF Next

LEMMA NextDInv == IInv /\ DInv /\ [Next]_vars => DInv'
  <1> SUFFICES ASSUME IInv, DInv, [Next]_vars PROVE DInv'
    OBVIOUS
  <1>1. CASE Going
    BY <1>1, Goings, GoesOnInv
  <1>2. ASSUME NEW quiet \in Quiets, SendUnicast(quiet) PROVE DInv'
    BY <1>2, SendUnicastInv
  <1>3. CASE SendBroadcast
    BY <1>3, SendBroadcastInv
  <1>4. CASE Request /\ slot \in wanted' /\ req.ack
    <2>1. PICK k \in Seqs : k = req.seq
      BY <1>4, NumberTypes DEF IInv
    <2> QED BY <1>4, <2>1, Admitted
  <1>5. CASE PrintAnswer /\ req.ack
    <2>1. PICK k \in Seqs : k = req.seq
      BY <1>5, NumberTypes DEF IInv
    <2> QED BY <1>5, <2>1, Answers
  <1>6. ASSUME NEW i \in Slots, TxSend(i), slots[i].ack PROVE DInv'
    <2>1. i \in OnTheirWay
      BY <1>6 DEF TxSend, OnTheirWay
    <2>2. slots[i].seq \in Nat /\ slots[i].seq < next_seq
      BY <2>1, NumberTypes DEF IInv, DInv, NumbersInv
    <2>3. PICK k \in Seqs : k = slots[i].seq
      BY <2>2, NumberTypes DEF IInv
    <2> QED BY <1>6, <2>3, Sent
  <1>7. ASSUME NEW b \in Bufs, NEW acked \in BOOLEAN, NEW e \in in_flight,
               TxDone(b, acked), e.buf = b
        PROVE  DInv'
    <2>1. PICK k \in Seqs : k = e.seq
      BY NumberOfEntry
    <2> QED BY <1>7, <2>1, Done
  <1>8. CASE Report
    <2>1. zb.seq \in Nat /\ zb.seq < next_seq
      BY <1>8, NumberTypes DEF Report, IInv, DInv, NumbersInv
    <2>2. PICK k \in Seqs : k = zb.seq
      BY <2>1, NumberTypes DEF IInv
    <2> QED BY <1>8, <2>2, Reports
  <1> QED BY <1>1, <1>2, <1>3, <1>4, <1>5, <1>6, <1>7, <1>8, Steps

LEMMA NextRefines ==
  ASSUME IInv, DInv, FateIsPlace, FateIsPlace', [Next]_vars
  PROVE  [Promised!Next]_Promised!vars
  <1>1. CASE Going
    <2>1. UNCHANGED <<Fates, told>> \/ \E n \in Seqs : Promised!Refuse(n)
      BY <1>1, Goings, GoesOnRefines DEF IInv
    <2> QED BY <2>1 DEF Promised!Next, Promised!vars
  <1>2. ASSUME NEW quiet \in Quiets, SendUnicast(quiet) PROVE Promised!Next
    BY <1>2, AskRefines DEF Promised!Next
  <1>3. CASE SendBroadcast
    <2>1. UNCHANGED told /\ \A n \in Seqs : SamePlace(n)
      BY <1>3, SendBroadcastInv
    <2>2. \A n \in Seqs : Fate(n)' = Fate(n)
      BY <2>1, SameFate
    <2> QED BY <2>1, <2>2, NoFate DEF Promised!vars
  <1>4. CASE Request /\ slot \in wanted' /\ req.ack
    BY <1>4, AdmittedRefines DEF Promised!Next
  <1>5. CASE PrintAnswer /\ req.ack
    BY <1>5, AnswersRefines DEF Promised!Next
  <1>6. ASSUME NEW i \in Slots, TxSend(i), slots[i].ack PROVE [Promised!Next]_Promised!vars
    BY <1>6, SentRefines DEF Promised!Next, Promised!vars
  <1>7. ASSUME NEW b \in Bufs, NEW acked \in BOOLEAN, NEW e \in in_flight,
               TxDone(b, acked), e.buf = b
        PROVE  Promised!Next
    BY <1>7, DoneRefines DEF Promised!Next
  <1>8. CASE Report
    BY <1>8, ReportsRefines DEF Promised!Next
  <1> QED BY <1>1, <1>2, <1>3, <1>4, <1>5, <1>6, <1>7, <1>8, Steps

\* Whatever the two threads and the stack do in between, and whatever S0E and S10 hide,
\* a unicast is refused with ERROR alone, or is one of at most UCAST_IN_FLIGHT on their
\* way, answered with its number and OK, and reported once: the commands implement
\* Delivery (submit, send_unicast, tx_send, tx_done, report).
THEOREM DeliveryImplementedHolds == Spec => DeliveryImplemented
  <1>1. Init => Promised!Init
    <2> SUFFICES ASSUME Init PROVE Promised!Init
      OBVIOUS
    <2>1. TypeOK /\ DInv
      BY InitInv, InitDInv DEF IInv
    <2>2. ASSUME NEW n \in Seqs PROVE Fate(n) = "new"
      <3>1. n >= next_seq
        BY SizesAssumption DEF Init, Seqs
      <3> QED BY <2>1, <3>1, FateOf DEF FateIsPlace
    <2>3. Fates = [n \in Seqs |-> "new"]
      BY <2>2 DEF Fates
    <2> QED BY <2>3 DEF Init, Promised!Init
  <1>2. Init => DInv
    BY InitDInv
  <1>3. IInv /\ DInv /\ [Next]_vars => DInv'
    BY NextDInv
  <1>4. IInv /\ DInv => FateIsPlace
    BY FateOf DEF IInv
  <1>5. IInv /\ DInv /\ FateIsPlace /\ FateIsPlace' /\ [Next]_vars => [Promised!Next]_Promised!vars
    BY NextRefines
  <1> QED BY <1>1, <1>2, <1>3, <1>4, <1>5, Invariant, PTL
          DEF Spec, DeliveryImplemented, Promised!Spec
=============================================================================
