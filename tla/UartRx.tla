------------------------------- MODULE UartRx -------------------------------
(***************************************************************************)
(* The receive side of src/app/src/at_uart.c, from the UART to rx_process. *)
(* The driver fills blocks of a slab and reports what came as offsets into *)
(* the block; uart_cb queues each report and counts it as a reference, so  *)
(* that a block is free again when the driver and the RX thread are both   *)
(* done with it.  Without a next block the driver stops; a flag makes the  *)
(* RX thread enable it again.                                              *)
(*                                                                         *)
(* The driver is the kernel's (external), as uart_cb handles its events:   *)
(* it asks for a block when it starts one, reports bytes at a pause or at  *)
(* the end of a block, and releases a block when it leaves it.             *)
(***************************************************************************)
EXTENDS Naturals, Sequences, FiniteSets

CONSTANTS
    RX_BUF_SIZE,
    RX_BUF_COUNT,
    RX_EVENT_COUNT,
    StopInWindow,   \* may RX stop before the thread has cleared rx_disabled?
    MaxBytes,       \* bound: bytes received
    MaxErrors       \* bound: times the line makes RX stop

ASSUME SizesAssumption ==
    /\ RX_BUF_SIZE \in Nat \ {0} /\ RX_BUF_COUNT \in Nat \ {0} /\ RX_EVENT_COUNT \in Nat \ {0}
    /\ MaxBytes \in Nat /\ MaxErrors \in Nat /\ StopInWindow \in BOOLEAN

VARIABLES
    refs,         \* references to each block; 0: the block is in the slab
    data,         \* the bytes in each block, known by their number
    rx_events, rx_disabled,
    pc, ev,       \* the RX thread: where it is in its loop, and its event
    cur, nxt,     \* the driver's block and its next one, 0: none
    fill, ready,  \* bytes in cur, and those of them that were reported
    asks,         \* RX_BUF_REQUEST is due
    bytes, errors \* bytes received, and errors so far

thread == <<pc, ev>>
driver == <<cur, nxt, fill, ready, asks, bytes, errors>>
vars   == <<refs, data, rx_events, rx_disabled, thread, driver>>

Blocks == 1..RX_BUF_COUNT
Events == [blk : Blocks, off : 0..RX_BUF_SIZE - 1, len : 1..RX_BUF_SIZE, first : 1..MaxBytes]

\* at_uart_init has enabled RX.
Init ==
    /\ refs = [b \in Blocks |-> IF b = 1 THEN 1 ELSE 0]
    /\ data = [b \in Blocks |-> [i \in 1..RX_BUF_SIZE |-> 0]]
    /\ rx_events = <<>> /\ rx_disabled = FALSE
    /\ pc = "get" /\ ev = <<>>
    /\ cur = 1 /\ nxt = 0 /\ fill = 0 /\ ready = 0 /\ asks = TRUE
    /\ bytes = 0 /\ errors = 0

-----------------------------------------------------------------------------
(* References.                                                             *)

FreeBlocks == {b \in Blocks : refs[b] = 0}
Alloc(b) == [refs EXCEPT ![b] = 1]
MutNoRef(b) == refs
Ref(b) == [refs EXCEPT ![b] = @ + 1]

\* rx_buf_unref of each block of a set.
Unref(r, bs) == [b \in Blocks |-> IF b \in bs THEN r[b] - 1 ELSE r[b]]

\* A block allocated and given back: the driver did not take it.
MutRefusedKept(b) == Alloc(b)
Refused(b) == Unref(Alloc(b), {b})

-----------------------------------------------------------------------------
(* The driver and uart_cb.                                                 *)

Receive ==
    /\ cur # 0 /\ fill < RX_BUF_SIZE /\ bytes < MaxBytes
    /\ bytes' = bytes + 1 /\ fill' = fill + 1
    /\ data' = [data EXCEPT ![cur][fill + 1] = bytes + 1]
    /\ UNCHANGED <<refs, rx_events, rx_disabled, thread, cur, nxt, ready, asks, errors>>

\* UART_RX_RDY: at a pause or at the end of the block; dropped when the queue is full.
MutDropKeepsRef(e) == rx_events' = rx_events /\ refs' = Ref(e.blk)
QueueFull(e) == UNCHANGED <<rx_events, refs>>

RxRdy ==
    /\ ready < fill /\ ~asks
    /\ ready' = fill
    /\ LET e == [blk |-> cur, off |-> ready, len |-> fill - ready, first |-> bytes - (fill - ready) + 1]
       IN IF Len(rx_events) < RX_EVENT_COUNT
          THEN rx_events' = Append(rx_events, e) /\ refs' = Ref(cur)
          ELSE QueueFull(e)
    /\ UNCHANGED <<data, rx_disabled, thread, cur, nxt, fill, asks, bytes, errors>>

\* UART_RX_BUF_REQUEST; uart_rx_buf_rsp may fail.
BufRequest ==
    /\ asks /\ asks' = FALSE
    /\ IF RX_EVENT_COUNT - Len(rx_events) < 2 \/ FreeBlocks = {}
       THEN UNCHANGED <<nxt, refs>>
       ELSE \E b \in FreeBlocks :
                \/ nxt' = b /\ refs' = Alloc(b)
                \/ UNCHANGED nxt /\ refs' = Refused(b)
    /\ UNCHANGED <<data, rx_events, rx_disabled, thread, cur, fill, ready, bytes, errors>>

\* The block is full: UART_RX_BUF_RELEASED, and on with the next one.
NextBlock ==
    /\ fill = RX_BUF_SIZE /\ ready = fill /\ ~asks /\ nxt # 0
    /\ refs' = Unref(refs, {cur})
    /\ cur' = nxt /\ nxt' = 0 /\ fill' = 0 /\ ready' = 0 /\ asks' = TRUE
    /\ UNCHANGED <<data, rx_events, rx_disabled, thread, bytes, errors>>

\* UART_RX_BUF_RELEASED for the driver's blocks, and UART_RX_DISABLED.
MutFlagIfIdle == rx_disabled' = (rx_events = <<>>)
RxDisabled == rx_disabled' = TRUE
Stop ==
    /\ pc # "clear" \/ StopInWindow
    /\ refs' = Unref(refs, {cur, nxt} \ {0})
    /\ cur' = 0 /\ nxt' = 0 /\ fill' = 0 /\ ready' = 0 /\ asks' = FALSE
    /\ RxDisabled
    /\ UNCHANGED <<data, rx_events, thread, bytes>>

\* No next block, or an error on the line.
NoBlock   == fill = RX_BUF_SIZE /\ ready = fill /\ ~asks /\ nxt = 0 /\ Stop /\ UNCHANGED errors
LineError == cur # 0 /\ ready = fill /\ ~asks /\ errors < MaxErrors /\ errors' = errors + 1 /\ Stop

Driver == RxRdy \/ BufRequest \/ NextBlock \/ NoBlock

-----------------------------------------------------------------------------
(* rx_thread.                                                              *)

Goto(from, to) == pc = from /\ pc' = to

Get ==
    /\ rx_events # <<>>
    /\ Goto("get", "process")
    /\ ev' = <<Head(rx_events)>> /\ rx_events' = Tail(rx_events)
    /\ UNCHANGED <<refs, data, rx_disabled, driver>>

\* k_msgq_get gives up after RX_RETRY_DELAY.
GetTimesOut ==
    /\ rx_events = <<>>
    /\ Goto("get", "check")
    /\ UNCHANGED <<refs, data, rx_events, rx_disabled, ev, driver>>

\* rx_process, which may wait for the UART with the echo, and rx_buf_unref.
Processed ==
    /\ Goto("process", "check")
    /\ refs' = Unref(refs, {ev[1].blk})
    /\ ev' = <<>>
    /\ UNCHANGED <<data, rx_events, rx_disabled, driver>>

Check ==
    /\ Goto("check", IF rx_disabled /\ rx_events = <<>> THEN "enable" ELSE "get")
    /\ UNCHANGED <<refs, data, rx_events, rx_disabled, ev, driver>>

\* rx_enable.  It fails without a free block, and when uart_rx_enable does: always while the
\* driver is on, and at any other time too.
RxStarts ==
    /\ Goto("enable", "clear")
    /\ cur = 0
    /\ \E b \in FreeBlocks : cur' = b /\ refs' = Alloc(b)
    /\ fill' = 0 /\ ready' = 0 /\ asks' = TRUE
    /\ UNCHANGED <<data, rx_events, rx_disabled, ev, nxt, bytes, errors>>

RxStartFails ==
    /\ Goto("enable", "get")
    /\ \/ FreeBlocks = {} /\ UNCHANGED refs
       \/ \E b \in FreeBlocks : refs' = Refused(b)
    /\ UNCHANGED <<data, rx_events, rx_disabled, ev, driver>>

RxEnable == RxStarts \/ RxStartFails

Clear ==
    /\ Goto("clear", "get")
    /\ rx_disabled' = FALSE
    /\ UNCHANGED <<refs, data, rx_events, ev, driver>>

RxThread == Get \/ GetTimesOut \/ Processed \/ Check \/ RxEnable \/ Clear

Next == Receive \/ Driver \/ LineError \/ RxThread

Spec == Init /\ [][Next]_vars

\* The thread runs and interrupts are served; of the attempts to start RX that could succeed,
\* not all fail for ever.
FairSpec == Spec /\ WF_vars(RxThread) /\ WF_vars(Driver) /\ SF_vars(RxStarts)

-----------------------------------------------------------------------------
(* Properties.                                                             *)

TypeOK ==
    /\ refs \in [Blocks -> Nat]
    /\ data \in [Blocks -> [1..RX_BUF_SIZE -> 0..MaxBytes]]
    /\ rx_events \in Seq(Events) /\ Len(rx_events) <= RX_EVENT_COUNT
    /\ rx_disabled \in BOOLEAN /\ asks \in BOOLEAN
    /\ pc \in {"get", "process", "check", "enable", "clear"}
    /\ ev \in {<<>>} \cup {<<e>> : e \in Events} /\ (pc = "process" <=> ev # <<>>)
    /\ cur \in Blocks \cup {0} /\ nxt \in Blocks \cup {0}
    /\ fill \in 0..RX_BUF_SIZE /\ ready \in 0..fill
    /\ bytes \in 0..MaxBytes /\ errors \in 0..MaxErrors

\* What the thread reads is what the driver reported: no block is filled again while a
\* report about it is queued or being processed (rx_buf_ref, rx_buf_unref, rx_thread).
Intact(e) == \A k \in 1..e.len : data[e.blk][e.off + k] = e.first + k - 1
ReportsIntact ==
    \A e \in {rx_events[i] : i \in 1..Len(rx_events)} \cup {ev[i] : i \in 1..Len(ev)} : Intact(e)

\* No block is lost, neither with a report that is dropped nor with a block the driver does
\* not take: when RX is off and nothing is left to process, all are free (uart_cb, rx_enable).
NoBlockLost ==
    cur = 0 /\ rx_events = <<>> /\ pc # "process" => FreeBlocks = Blocks

\* "If RX stops (no free buffer), the thread enables it again" (at_uart.c:6-7).
RxRecovers == (cur = 0) ~> (cur # 0)
=============================================================================
