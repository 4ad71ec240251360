------------------------------- MODULE MsgTx -------------------------------
(***************************************************************************)
(* The transmit side of src/app/src/zb_msg.c: UCAST, SENDUCAST and BCAST   *)
(* from the AT command to ACK, NACK or ERROR.                              *)
(*                                                                         *)
(* The AT thread copies a message into a slot and asks the ZBOSS thread    *)
(* for a buffer; the ZBOSS thread hands the message to the stack and, when *)
(* the stack is done with the buffer, reports the unicast it carried.  The *)
(* two share slots_used and in_flight_count, by atomic operations; each of *)
(* them is a step here.  The ZBOSS thread has the higher priority, so its  *)
(* handlers are single steps up to the point where at_print may wait.      *)
(***************************************************************************)
EXTENDS Integers, Sequences, FiniteSets

CONSTANTS
    TX_SLOTS,
    UCAST_IN_FLIGHT,
    Bufs,           \* the stack's buffers
    Shown,          \* the prompts S0E lets through: of "SEQ", "ACK", "NACK"
    Quiets,         \* what S10 bit B makes of a unicast: quiet or not
    MaxUnicasts,    \* bound: unicasts sent
    MaxBroadcasts   \* bound: broadcasts sent

\* Sequence numbers are 8 bits: the bound keeps them from wrapping.
ASSUME SizesAssumption ==
    /\ TX_SLOTS \in Nat \ {0} /\ UCAST_IN_FLIGHT \in Nat \ {0}
    /\ MaxUnicasts \in 0..256 /\ MaxBroadcasts \in Nat
ASSUME QuietsAssumption == Quiets \subseteq BOOLEAN
ASSUME BufsAssumption == "none" \notin Bufs /\ IsFiniteSet(Bufs)

VARIABLES
    at_pc, req, slot,   \* the AT thread: where it is in submit and send_unicast
    next_seq,
    broadcasts,         \* broadcasts sent
    slots, slots_used,
    in_flight_count,
    in_flight,          \* the used entries of in_flight[]
    zb,                 \* the ZBOSS thread, in a handler that waits for the UART
    wanted,             \* slots for which a buffer is asked
    carried,            \* the messages the stack is sending, by buffer
    told                \* what the host reads about each unicast

at    == <<at_pc, req, slot, next_seq, broadcasts>>
count == <<in_flight_count, in_flight>>
stack == <<wanted, carried>>
vars  == <<at, slots, slots_used, count, zb, stack, told>>

Slots   == 0..TX_SLOTS - 1
Seqs    == 0..MaxUnicasts - 1
Message == [ack : BOOLEAN, seq : 0..255, quiet : BOOLEAN]
Entry   == [buf : Bufs, seq : 0..255, quiet : BOOLEAN]

NoMessage == [ack |-> FALSE, seq |-> 0, quiet |-> FALSE]
ZbIdle    == [pc |-> "idle", seq |-> 0, quiet |-> FALSE, acked |-> FALSE, buf |-> "none", slot |-> -1]

Init ==
    /\ at_pc = "idle" /\ req = NoMessage /\ slot = 0 /\ next_seq = 0 /\ broadcasts = 0
    /\ slots = [i \in Slots |-> NoMessage] /\ slots_used = {}
    /\ in_flight_count = 0 /\ in_flight = {} /\ zb = ZbIdle
    /\ wanted = {} /\ carried = [b \in {} |-> NoMessage]
    /\ told = [n \in Seqs |-> <<>>]

-----------------------------------------------------------------------------
(* The AT thread.                                                          *)

AtGoto(from, to) == at_pc = from /\ at_pc' = to

\* The host reads `what` about the unicast in hand; broadcasts have no number.
Tell(what) == told' = IF req.ack THEN [told EXCEPT ![req.seq] = Append(@, what)] ELSE told

Submit(r) ==
    /\ AtGoto("idle", "slot")
    /\ req' = r /\ slot' = 0
    /\ UNCHANGED <<slots, slots_used, count, zb, stack, told>>

SendUnicast(quiet) ==
    /\ next_seq < MaxUnicasts
    /\ next_seq' = next_seq + 1
    /\ Submit([ack |-> TRUE, seq |-> next_seq, quiet |-> quiet])
    /\ UNCHANGED broadcasts

SendBroadcast ==
    /\ broadcasts < MaxBroadcasts
    /\ broadcasts' = broadcasts + 1
    /\ Submit(NoMessage)
    /\ UNCHANGED next_seq

\* One turn of the loop of submit over the slots.
TakeSlot ==
    /\ \/ /\ slot \notin slots_used
          /\ slots_used' = slots_used \cup {slot}
          /\ AtGoto("slot", IF req.ack THEN "count" ELSE "request")
          /\ UNCHANGED slot
       \/ /\ slot \in slots_used
          /\ slot' = (slot + 1) % TX_SLOTS
          /\ AtGoto("slot", IF slot + 1 < TX_SLOTS THEN "slot" ELSE "error")
          /\ UNCHANGED slots_used
    /\ UNCHANGED <<req, next_seq, broadcasts, slots, count, zb, stack, told>>

MutTooManyEarly(n) == n >= UCAST_IN_FLIGHT - 1
TooMany(n) == n >= UCAST_IN_FLIGHT

CountUnicast ==
    /\ AtGoto("count", IF TooMany(in_flight_count) THEN "uncount" ELSE "request")
    /\ in_flight_count' = in_flight_count + 1
    /\ UNCHANGED <<req, slot, next_seq, broadcasts, slots, slots_used, in_flight, zb, stack, told>>

\* slots[slot] = *r and zb_buf_get_out_delayed_ext, which may fail.
Request ==
    /\ slots' = [slots EXCEPT ![slot] = req]
    /\ \/ /\ wanted' = wanted \cup {slot}
          /\ AtGoto("request", IF req.ack /\ ~req.quiet /\ "SEQ" \in Shown THEN "seq" ELSE "ok")
       \/ /\ AtGoto("request", IF req.ack THEN "uncount" ELSE "drop")
          /\ UNCHANGED wanted
    /\ UNCHANGED <<req, slot, next_seq, broadcasts, slots_used, count, zb, carried, told>>

Uncount ==
    /\ AtGoto("uncount", "drop")
    /\ in_flight_count' = in_flight_count - 1
    /\ UNCHANGED <<req, slot, next_seq, broadcasts, slots, slots_used, in_flight, zb, stack, told>>

DropSlot ==
    /\ AtGoto("drop", "error")
    /\ slots_used' = slots_used \ {slot}
    /\ UNCHANGED <<req, slot, next_seq, broadcasts, slots, count, zb, stack, told>>

PrintAnswer ==
    /\ \/ AtGoto("seq", "ok") /\ Tell("SEQ")
       \/ AtGoto("ok", "idle") /\ Tell("OK")
       \/ AtGoto("error", "idle") /\ Tell("ERROR")
    /\ UNCHANGED <<req, slot, next_seq, broadcasts, slots, slots_used, count, zb, stack>>

AtStep == TakeSlot \/ CountUnicast \/ Request \/ Uncount \/ DropSlot \/ PrintAnswer

-----------------------------------------------------------------------------
(* The ZBOSS thread.                                                       *)

FreeBufs == Bufs \ (DOMAIN carried \cup {zb.buf})

InFlightAdd(b, m) ==
    IF m.ack /\ Cardinality(in_flight) < UCAST_IN_FLIGHT
    THEN in_flight \cup {[buf |-> b, seq |-> m.seq, quiet |-> m.quiet]}
    ELSE in_flight

MutEntryStays(b, entries) == entries
Without(b, entries) == {e \in entries : e.buf # b}

ReportOf(m, acked, b, i) ==
    [pc |-> "report", seq |-> m.seq, quiet |-> m.quiet, acked |-> acked, buf |-> b, slot |-> i]

\* tx_send: the stack takes the message.
Queued(i, b) ==
    /\ in_flight' = InFlightAdd(b, slots[i])
    /\ carried' = [c \in DOMAIN carried \cup {b} |-> IF c = b THEN slots[i] ELSE carried[c]]
    /\ slots_used' = slots_used \ {i}
    /\ UNCHANGED <<in_flight_count, zb>>

\* tx_send: zb_aps_send_user_payload fails.
MutNackKeepsCount(i, b) ==
    /\ in_flight' = Without(b, InFlightAdd(b, slots[i]))
    /\ IF slots[i].ack
       THEN zb' = ReportOf(slots[i], FALSE, b, i) /\ UNCHANGED <<in_flight_count, slots_used>>
       ELSE slots_used' = slots_used \ {i} /\ UNCHANGED <<in_flight_count, zb>>
    /\ UNCHANGED carried
NotQueued(i, b) ==
    /\ in_flight' = Without(b, InFlightAdd(b, slots[i]))
    /\ IF slots[i].ack
       THEN /\ in_flight_count' = in_flight_count - 1
            /\ zb' = ReportOf(slots[i], FALSE, b, i)
            /\ UNCHANGED slots_used
       ELSE slots_used' = slots_used \ {i} /\ UNCHANGED <<in_flight_count, zb>>
    /\ UNCHANGED carried

TxSend(i) ==
    /\ zb.pc = "idle"
    /\ i \in wanted /\ wanted' = wanted \ {i}
    /\ \E b \in FreeBufs : Queued(i, b) \/ NotQueued(i, b)
    /\ UNCHANGED <<at, slots, told>>

\* tx_done: the stack is done with buffer b.
MutDoneKeepsEntry(b, acked) ==
    IF \E e \in in_flight : e.buf = b
    THEN \E e \in in_flight :
             /\ e.buf = b
             /\ in_flight_count' = in_flight_count - 1
             /\ zb' = ReportOf(e, acked, b, -1)
             /\ UNCHANGED in_flight
    ELSE UNCHANGED <<count, zb>>
FindAndReport(b, acked) ==
    IF \E e \in in_flight : e.buf = b
    THEN \E e \in in_flight :
             /\ e.buf = b
             /\ in_flight' = in_flight \ {e}
             /\ in_flight_count' = in_flight_count - 1
             /\ zb' = ReportOf(e, acked, b, -1)
    ELSE UNCHANGED <<count, zb>>

TxDone(b, acked) ==
    /\ zb.pc = "idle"
    /\ b \in DOMAIN carried
    /\ carried' = [c \in DOMAIN carried \ {b} |-> carried[c]]
    /\ FindAndReport(b, acked)
    /\ UNCHANGED <<at, slots, slots_used, wanted, told>>

Prompt(acked) == IF acked THEN "ACK" ELSE "NACK"

MutFailureUnreported == zb.acked /\ ~zb.quiet /\ Prompt(zb.acked) \in Shown
Reported == ~zb.quiet /\ Prompt(zb.acked) \in Shown

Report ==
    /\ zb.pc = "report"
    /\ zb' = [zb EXCEPT !.pc = "finish"]
    /\ told' = IF Reported THEN [told EXCEPT ![zb.seq] = Append(@, Prompt(zb.acked))] ELSE told
    /\ UNCHANGED <<at, slots, slots_used, count, stack>>

\* The rest of tx_send or tx_done: free the buffer, and the slot if there is one.
Finish ==
    /\ zb.pc = "finish"
    /\ zb' = ZbIdle
    /\ slots_used' = slots_used \ {zb.slot}
    /\ UNCHANGED <<at, slots, count, stack, told>>

Next ==
    \/ \E quiet \in Quiets : SendUnicast(quiet)
    \/ SendBroadcast
    \/ AtStep
    \/ \E i \in Slots : TxSend(i)
    \/ \E b \in Bufs, acked \in BOOLEAN : TxDone(b, acked)
    \/ Report
    \/ Finish

Spec == Init /\ [][Next]_vars

\* Both threads run, a buffer is found for who waits, and the stack is done with every
\* message at some time (an acknowledgement or its own timeout).
FairSpec ==
    /\ Spec /\ WF_vars(AtStep) /\ WF_vars(Report) /\ WF_vars(Finish)
    /\ \A i \in Slots : WF_vars(TxSend(i))
    /\ \A b \in Bufs : WF_vars(\E acked \in BOOLEAN : TxDone(b, acked))

-----------------------------------------------------------------------------
(* Properties.                                                             *)

TypeOK ==
    /\ at_pc \in {"idle", "slot", "count", "request", "uncount", "drop", "seq", "ok", "error"}
    /\ req \in Message /\ (req.ack => req.seq \in Seqs) /\ slot \in Slots
    /\ next_seq \in 0..MaxUnicasts /\ broadcasts \in 0..MaxBroadcasts
    /\ slots \in [Slots -> Message] /\ slots_used \subseteq Slots /\ wanted \subseteq Slots
    /\ in_flight_count \in 0..UCAST_IN_FLIGHT + 1 /\ in_flight \subseteq Entry
    /\ zb \in [pc : {"idle", "report", "finish"}, seq : 0..255, quiet : BOOLEAN,
               acked : BOOLEAN, buf : Bufs \cup {"none"}, slot : Slots \cup {-1}]
    /\ DOMAIN carried \subseteq Bufs /\ carried \in [DOMAIN carried -> Message]
    /\ told \in [Seqs -> Seq({"SEQ", "OK", "ERROR", "ACK", "NACK"})]

\* in_flight[] and the stack agree: every unicast the stack is sending has its entry,
\* so in_flight_add never finds the table full, and no entry outlives its buffer, so
\* tx_done never takes a buffer for another message (in_flight_add, tx_send, tx_done).
Tracked ==
    /\ \A b \in DOMAIN carried :
           carried[b].ack =>
               [buf |-> b, seq |-> carried[b].seq, quiet |-> carried[b].quiet] \in in_flight
    /\ \A e \in in_flight :
           /\ e.buf \in DOMAIN carried
           /\ carried[e.buf] = [ack |-> TRUE, seq |-> e.seq, quiet |-> e.quiet]

\* Nothing is lost over any history of failures: when both threads and the stack are
\* done, every slot is free and the count is back at 0 (a count that leaks would end
\* with ERROR for every unicast until a reset).
AllDone == at_pc = "idle" /\ zb.pc = "idle" /\ wanted = {} /\ DOMAIN carried = {}
NothingLeaks == AllDone => slots_used = {} /\ in_flight_count = 0 /\ in_flight = {}

Got(n, what) == \E k \in 1..Len(told[n]) : told[n][k] = what
OnTheirWay == {i \in wanted : slots[i].ack}

\* What the commands promise (Delivery): a unicast is refused with ERROR and nothing
\* else, or it is on its way with at most UCAST_IN_FLIGHT others, answered, and reported
\* at most once, whatever the two threads and the stack do in between.
Flying(n)  == \E e \in in_flight : e.seq = n
Waiting(n) == \E i \in OnTheirWay : slots[i].seq = n
Ending(n)  == zb.pc = "report" /\ zb.seq = n
Asked(n)   == req.ack /\ req.seq = n /\ at_pc \in {"slot", "count", "request"}
Refused(n) == req.ack /\ req.seq = n /\ at_pc \in {"uncount", "drop", "error"}
Fate(n) ==
    CASE n >= next_seq -> "new"
      [] Asked(n) -> "asked"
      [] Refused(n) \/ Got(n, "ERROR") -> "refused"
      [] Flying(n) \/ Waiting(n) -> "on its way"
      [] Ending(n) -> "ended"
      [] OTHER -> "reported"
Fates == [n \in Seqs |-> Fate(n)]
Suppressing == Quiets # {FALSE} \/ ~({"SEQ", "ACK", "NACK"} \subseteq Shown)
Promised == INSTANCE Delivery WITH
    Unicasts <- Seqs, Limit <- UCAST_IN_FLIGHT, MaySuppress <- Suppressing, fate <- Fates
DeliveryImplemented == Promised!Spec

\* The AT thread gives up on a unicast for their number only when that many really
\* are on their way: with the stack, or waiting for a buffer (submit, atomic_inc).
TooManyIsTrue ==
    [][at_pc = "count" /\ at_pc' = "uncount" =>
           Cardinality(in_flight) + Cardinality(OnTheirWay) >= UCAST_IN_FLIGHT]_vars

\* Every unicast whose number was printed is reported, with that number, as received
\* or not (send_unicast, report).
EveryUnicastReported ==
    \A n \in Seqs : Got(n, "SEQ") ~> Got(n, "ACK") \/ Got(n, "NACK")
=============================================================================
