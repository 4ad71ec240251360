------------------------------- MODULE UartTx -------------------------------
(***************************************************************************)
(* The transmit side of src/app/src/at_uart.c.  Threads copy lines into a  *)
(* ring buffer under tx_lock; the UART driver sends the ring by DMA and    *)
(* calls uart_cb in interrupt context, which goes on with what is left.    *)
(* The semaphore tx_idle is 1 while no DMA transfer runs: thread or        *)
(* interrupt, only who has taken it starts a transfer.                     *)
(*                                                                         *)
(* The ring buffer, the mutex, the semaphore and uart_tx are the kernel's  *)
(* (external), as at_uart.c uses them.  ring_buf_put is two steps: it      *)
(* claims the room it sees and publishes what it copied at its end, and    *)
(* the interrupt can come between the two.                                 *)
(***************************************************************************)
EXTENDS Naturals, Sequences

CONSTANTS
    Writers,    \* the threads that print
    LineLen,    \* the length of a writer's lines
    CallEnd,    \* where the tx_write call that has sent k bytes of a line ends
    MaxLines,   \* bound: lines per writer
    TxBufSize,  \* TX_BUF_SIZE
    TxMayFail   \* may uart_tx fail and a transfer be aborted?

ASSUME WritersAssumption ==
    \A w \in Writers :
        /\ w # "none"
        /\ LineLen[w] \in Nat \ {0}
        /\ \A k \in 0..LineLen[w] - 1 : CallEnd[w][k] \in k + 1..LineLen[w]
ASSUME SizeAssumption == TxBufSize \in Nat \ {0} /\ MaxLines \in Nat
ASSUME FailAssumption == TxMayFail \in BOOLEAN

VARIABLES
    pc,        \* where each writer is in at_print_parts
    tx_lock,   \* the writer that holds tx_lock, or "none"
    line,      \* lines each writer has begun
    done,      \* bytes of that line in the ring
    claimed,   \* bytes ring_buf_put is copying
    tx_ring,   \* the bytes in the ring, those in transfer included
    base,      \* where in the buffer the first of them is
    tx_idle,   \* the semaphore
    dma,       \* length of the running transfer, 0 when there is none
    failed,    \* history: uart_tx has failed
    sent       \* the bytes on the wire

writer == <<pc, tx_lock, line, done, claimed>>
ring   == <<tx_ring, base>>
vars   == <<writer, ring, tx_idle, dma, failed, sent>>

Bytes == Writers \X Nat \X Nat
Pcs   == {"idle", "put", "copy", "wait", "start", "flush", "flush_start", "unlock"}

Lower(m, n) == IF m < n THEN m ELSE n

Line(w, n) == [k \in 1..LineLen[w] |-> <<w, n, k>>]

Init ==
    /\ pc = [w \in Writers |-> "idle"] /\ tx_lock = "none"
    /\ line = [w \in Writers |-> 0] /\ done = [w \in Writers |-> 0]
    /\ claimed = [w \in Writers |-> 0]
    /\ tx_ring = <<>> /\ base = 0 /\ tx_idle = 1 /\ dma = 0
    /\ failed = FALSE /\ sent = <<>>

-----------------------------------------------------------------------------
Goto(w, from, to) == pc[w] = from /\ pc' = [pc EXCEPT ![w] = to]

Give == tx_idle' = 1

Idle == Give /\ dma' = 0

\* tx_start, with tx_idle taken: transfer r, which begins at b, up to the end of the buffer.
StartTransfer(r, b) ==
    \/ Len(r) > 0 /\ dma' = Lower(Len(r), TxBufSize - b) /\ UNCHANGED <<tx_idle, failed>>
    \/ Len(r) = 0 /\ Idle /\ UNCHANGED failed
    \/ Len(r) > 0 /\ TxMayFail /\ Idle /\ failed' = TRUE

-----------------------------------------------------------------------------
(* A writer in at_print_parts (or in rx_process, which echoes).            *)

\* The bytes of the tx_write call in progress that are not in the ring.
Left(w) == CallEnd[w][done[w]] - done[w]

MutLockAnyway(w) == tx_lock' = w
TakeLock(w) == tx_lock = "none" /\ tx_lock' = w

BeginLine(w) ==
    /\ line[w] < MaxLines
    /\ Goto(w, "idle", "put")
    /\ TakeLock(w)
    /\ line' = [line EXCEPT ![w] = @ + 1]
    /\ done' = [done EXCEPT ![w] = 0]
    /\ UNCHANGED <<claimed, ring, tx_idle, dma, failed, sent>>

Room(w) == Lower(Left(w), TxBufSize - Len(tx_ring))

RingBufPut(w) ==
    /\ Goto(w, "put", "copy")
    /\ claimed' = [claimed EXCEPT ![w] = Room(w)]
    /\ UNCHANGED <<tx_lock, line, done, ring, tx_idle, dma, failed, sent>>

\* Publish the copy; the line goes on with a wait when the ring was full.
RingBufPutFinish(w) ==
    /\ pc[w] = "copy"
    /\ LET upto == done[w] + claimed[w] IN
       /\ tx_ring' = tx_ring \o SubSeq(Line(w, line[w]), done[w] + 1, upto)
       /\ done' = [done EXCEPT ![w] = upto]
       /\ pc' = [pc EXCEPT ![w] = IF claimed[w] < Left(w) THEN "wait"
                                  ELSE IF upto < LineLen[w] THEN "put" ELSE "flush"]
    /\ UNCHANGED <<tx_lock, line, claimed, base, tx_idle, dma, failed, sent>>

WaitIdle(w) ==
    /\ tx_idle = 1
    /\ tx_idle' = 0
    /\ Goto(w, "wait", "start")
    /\ UNCHANGED <<tx_lock, line, done, claimed, ring, dma, failed, sent>>

MutFlushBusy(w) ==
    /\ tx_idle' = 0
    /\ Goto(w, "flush", "flush_start")
    /\ UNCHANGED <<tx_lock, line, done, claimed, ring, dma, failed, sent>>
MutNoFlush(w) ==
    /\ Goto(w, "flush", "unlock")
    /\ UNCHANGED <<tx_lock, line, done, claimed, ring, tx_idle, dma, failed, sent>>

\* tx_flush: when a transfer runs, the interrupt at its end sends the rest.
Flush(w) ==
    /\ \/ tx_idle = 1 /\ tx_idle' = 0 /\ Goto(w, "flush", "flush_start")
       \/ tx_idle = 0 /\ UNCHANGED tx_idle /\ Goto(w, "flush", "unlock")
    /\ UNCHANGED <<tx_lock, line, done, claimed, ring, dma, failed, sent>>

TxStart(w) ==
    /\ Goto(w, "start", "put") \/ Goto(w, "flush_start", "unlock")
    /\ StartTransfer(tx_ring, base)
    /\ UNCHANGED <<tx_lock, line, done, claimed, ring, sent>>

EndLine(w) ==
    /\ Goto(w, "unlock", "idle")
    /\ tx_lock' = "none"
    /\ UNCHANGED <<line, done, claimed, ring, tx_idle, dma, failed, sent>>

PrintLine(w) ==
    \/ BeginLine(w) \/ RingBufPut(w) \/ RingBufPutFinish(w) \/ WaitIdle(w)
    \/ Flush(w) \/ TxStart(w) \/ EndLine(w)

-----------------------------------------------------------------------------
(* uart_cb: UART_TX_DONE, or UART_TX_ABORTED with a part of the transfer.  *)

GoOn(rest, b) == IF rest = <<>> THEN Idle /\ UNCHANGED failed ELSE StartTransfer(rest, b)

TxDone(n) ==
    /\ dma > 0
    /\ n = dma \/ TxMayFail
    /\ LET rest == SubSeq(tx_ring, n + 1, Len(tx_ring))
           b    == (base + n) % TxBufSize
       IN /\ sent' = sent \o SubSeq(tx_ring, 1, n)
          /\ tx_ring' = rest /\ base' = b
          /\ GoOn(rest, b)
    /\ UNCHANGED writer

Interrupt == \E n \in 0..dma : TxDone(n)

Next == (\E w \in Writers : PrintLine(w)) \/ Interrupt

Spec == Init /\ [][Next]_vars

\* Threads are scheduled, and a transfer ends with some of it sent.
FairSpec ==
    Spec /\ WF_vars(\E n \in 1..dma : TxDone(n)) /\ \A w \in Writers : WF_vars(PrintLine(w))

-----------------------------------------------------------------------------
(* Properties.                                                             *)

TypeOK ==
    /\ pc \in [Writers -> Pcs] /\ tx_lock \in Writers \cup {"none"}
    /\ line \in [Writers -> 0..MaxLines]
    /\ done \in [Writers -> Nat] /\ claimed \in [Writers -> Nat]
    /\ tx_ring \in Seq(Bytes) /\ Len(tx_ring) <= TxBufSize /\ sent \in Seq(Bytes)
    /\ base \in 0..TxBufSize - 1
    /\ tx_idle \in {0, 1} /\ dma \in 0..Len(tx_ring) /\ failed \in BOOLEAN

\* One transfer at a time: a transfer, the semaphore and a writer about to start a
\* transfer exclude each other, and one of them is there (tx_start, tx_flush, uart_cb).
Starting == {w \in Writers : pc[w] \in {"start", "flush_start"}}
OneTransfer ==
    \/ tx_idle = 1 /\ dma = 0 /\ Starting = {}
    \/ tx_idle = 0 /\ dma > 0 /\ Starting = {}
    \/ tx_idle = 0 /\ dma = 0 /\ \E w \in Writers : Starting = {w}

\* Every line that a thread begins to print leaves the UART to its last byte, also
\* when transfers are aborted, as long as uart_tx does not fail.
LinesGoOut ==
    \A w \in Writers : \A n \in 1..MaxLines :
        line[w] = n ~> failed \/ \E i \in 1..Len(sent) : sent[i] = <<w, n, LineLen[w]>>

\* at_print is atomic and first in, first out: a line is printed when its writer
\* takes tx_lock, and what is not in the ring of it counts as still to be sent.
Rest(w) == SubSeq(Line(w, line[w]), done[w] + 1, LineLen[w])
Todo    == tx_ring \o (IF tx_lock = "none" THEN <<>> ELSE Rest(tx_lock))

LS == INSTANCE LineStream WITH printed <- line, todo <- Todo, out <- sent
PrintIsAtomic == LS!Spec
=============================================================================
