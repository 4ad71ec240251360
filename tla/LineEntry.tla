----------------------------- MODULE LineEntry -----------------------------
(***************************************************************************)
(* What becomes of a received byte: rx_process and at_uart_read_binary of  *)
(* src/app/src/at_uart.c, with the loop of at_cmd.c that takes the lines.  *)
(*                                                                         *)
(* The RX thread gives each byte to a pending binary entry or else to the  *)
(* line being typed.  The AT thread takes lines; AT+SENDUCASTB makes it    *)
(* ask for the bytes that follow, by bin_need, and wait for a semaphore.   *)
(* The RX thread has the higher priority: a byte may be processed between  *)
(* any two steps of the AT thread.  The echo of a byte is left to UartTx.  *)
(***************************************************************************)
EXTENDS Integers, Sequences, SequencesExt

CONSTANTS
    AT_LINE_MAX,
    LINE_Q_DEPTH,
    Keys,         \* printable characters; a line that begins with BinKey is SENDUCASTB
    BinKey,
    Lens,         \* lengths a binary entry may ask for
    MaxBytes      \* bound: bytes received

ASSUME SizesAssumption ==
    /\ AT_LINE_MAX \in Nat \ {0} /\ LINE_Q_DEPTH \in Nat \ {0} /\ MaxBytes \in Nat
    /\ Lens \subseteq Nat \ {0}
ASSUME KeysAssumption == BinKey \in Keys /\ Keys \cap {"CR", "LF", "BS", "overflow"} = {}

VARIABLES
    rx_line, rx_overflow, line_q,
    bin_need, bin_have, bin_done,
    buf,                    \* the caller's buffer: the numbers of the bytes in it
    pc, current_line, len,  \* the AT thread, its line and the length it asks for
    result,
    received,               \* bytes received
    typed,                  \* those of them that belong to the line being typed
    asked                   \* bytes received when the last entry began

typing == <<rx_line, rx_overflow, typed>>
bin    == <<bin_need, bin_have, bin_done, buf>>
caller == <<current_line, len, result, asked>>
vars   == <<typing, line_q, bin, pc, caller, received>>

Overflow == <<"overflow">>

Init ==
    /\ rx_line = <<>> /\ rx_overflow = FALSE /\ typed = <<>> /\ line_q = <<>>
    /\ bin_need = 0 /\ bin_have = 0 /\ bin_done = 0 /\ buf = <<>>
    /\ pc = "get" /\ current_line = <<>> /\ len = 0 /\ result = "none"
    /\ received = 0 /\ asked = 0

-----------------------------------------------------------------------------
(* The RX thread.                                                          *)

BinPending == bin_have < bin_need

\* bin_byte, when the byte is taken.
BinByte ==
    /\ BinPending
    /\ buf' = [k \in 1..bin_have + 1 |-> IF k > bin_have THEN received + 1 ELSE buf[k]]
    /\ bin_have' = bin_have + 1
    /\ IF bin_have + 1 = bin_need
       THEN bin_need' = 0 /\ bin_done' = 1
       ELSE UNCHANGED <<bin_need, bin_done>>
    /\ UNCHANGED <<typing, line_q>>

EndOfLine ==
    /\ line_q' = IF Len(line_q) = LINE_Q_DEPTH \/ (rx_line = <<>> /\ ~rx_overflow) THEN line_q
                 ELSE Append(line_q, IF rx_overflow THEN Overflow ELSE rx_line)
    /\ rx_line' = <<>> /\ rx_overflow' = FALSE /\ typed' = <<>>

Backspace ==
    /\ rx_line' = IF rx_line = <<>> THEN <<>> ELSE Front(rx_line)
    /\ UNCHANGED <<rx_overflow, line_q>>

MutKeyTruncates(c) ==
    /\ rx_line' = IF Len(rx_line) < AT_LINE_MAX - 1 THEN Append(rx_line, c) ELSE rx_line
    /\ UNCHANGED <<rx_overflow, line_q>>
Key(c) ==
    /\ IF Len(rx_line) < AT_LINE_MAX - 1
       THEN rx_line' = Append(rx_line, c) /\ UNCHANGED rx_overflow
       ELSE rx_overflow' = TRUE /\ UNCHANGED rx_line
    /\ UNCHANGED line_q

LineByte(c) ==
    /\ ~BinPending
    /\ \/ c = "CR" /\ EndOfLine
       \/ c = "LF" /\ UNCHANGED <<typing, line_q>>
       \/ c = "BS" /\ Backspace /\ typed' = Append(typed, c)
       \/ c \in Keys /\ Key(c) /\ typed' = Append(typed, c)
    /\ UNCHANGED bin

RxByte(c) ==
    /\ received < MaxBytes
    /\ received' = received + 1
    /\ BinByte \/ LineByte(c)
    /\ UNCHANGED <<pc, caller>>

-----------------------------------------------------------------------------
(* The AT thread.                                                          *)

Goto(from, to) == pc = from /\ pc' = to

GetLine ==
    /\ line_q # <<>>
    /\ Goto("get", "execute")
    /\ current_line' = Head(line_q) /\ line_q' = Tail(line_q)
    /\ UNCHANGED <<typing, bin, len, result, received, asked>>

\* Everything but a binary entry, its address and parameters in order, answers at once.
Execute ==
    /\ \/ /\ Goto("execute", "reset")
          /\ Head(current_line) = BinKey /\ len' \in Lens
          /\ UNCHANGED result
       \/ /\ Goto("execute", "answer")
          /\ result' = IF current_line = Overflow THEN "MSG_TOO_LONG" ELSE "other"
          /\ UNCHANGED len
    /\ UNCHANGED <<typing, line_q, bin, current_line, received, asked>>

\* at_uart_read_binary: k_sem_reset, then the request under bin_lock.
MutNoReset == UNCHANGED bin_done
ResetDone == bin_done' = 0
Reset ==
    /\ Goto("reset", "arm")
    /\ ResetDone
    /\ UNCHANGED <<typing, line_q, bin_need, bin_have, buf, caller, received>>

Arm ==
    /\ Goto("arm", "prompt")
    /\ buf' = <<>> /\ bin_have' = 0 /\ bin_need' = len
    /\ asked' = received
    /\ UNCHANGED <<typing, line_q, bin_done, current_line, len, result, received>>

\* The two steps the other way round.
MutArmThenReset ==
    /\ \/ /\ pc = "reset" /\ pc' = "arm"
          /\ buf' = <<>> /\ bin_have' = 0 /\ bin_need' = len /\ UNCHANGED bin_done
          /\ asked' = received
       \/ /\ pc = "arm" /\ pc' = "prompt" /\ bin_done' = 0
          /\ UNCHANGED <<bin_need, bin_have, buf, asked>>
    /\ UNCHANGED <<typing, line_q, current_line, len, result, received>>
Prepare == Reset \/ Arm

\* The host reads '>'; the thread may wait for the UART before.
PromptHost == Goto("prompt", "wait") /\ UNCHANGED <<typing, line_q, bin, caller, received>>

Take ==
    /\ Goto("wait", "answer") /\ result' = "OK"
    /\ bin_done = 1 /\ bin_done' = 0
    /\ UNCHANGED <<typing, line_q, bin_need, bin_have, buf, current_line, len, received, asked>>

\* k_sem_take gives up after BINARY_TIMEOUT; a byte may still come before the lock is taken.
MutNoTimeout == FALSE
TakeTimesOut ==
    /\ bin_done = 0
    /\ Goto("wait", "disarm")
    /\ UNCHANGED <<typing, line_q, bin, caller, received>>

MutStaysArmed == UNCHANGED <<bin_need, bin_have>>
ClearEntry == bin_need' = 0 /\ bin_have' = 0
Disarm ==
    /\ Goto("disarm", "answer") /\ result' = "XCASTB_TIMEOUT"
    /\ ClearEntry
    /\ UNCHANGED <<typing, line_q, bin_done, buf, current_line, len, received, asked>>

Answer ==
    /\ Goto("answer", "get")
    /\ UNCHANGED <<typing, line_q, bin, caller, received>>

AtThread ==
    GetLine \/ Execute \/ Prepare \/ PromptHost \/ Take \/ TakeTimesOut \/ Disarm \/ Answer

Next == AtThread \/ \E c \in Keys \cup {"CR", "LF", "BS"} : RxByte(c)

Spec == Init /\ [][Next]_vars

\* The AT thread runs and its timer runs out.
FairSpec == Spec /\ WF_vars(AtThread)

-----------------------------------------------------------------------------
(* Properties.                                                             *)

TypeOK ==
    /\ rx_line \in Seq(Keys) /\ Len(rx_line) < AT_LINE_MAX /\ rx_overflow \in BOOLEAN
    /\ line_q \in Seq(Seq(Keys) \cup {Overflow}) /\ Len(line_q) <= LINE_Q_DEPTH
    /\ bin_need \in Lens \cup {0} /\ bin_have \in Nat /\ bin_done \in {0, 1}
    /\ buf \in Seq(1..MaxBytes)
    /\ pc \in {"get", "execute", "reset", "arm", "prompt", "wait", "disarm", "answer"}
    /\ current_line \in Seq(Keys) \cup {Overflow} /\ len \in Lens \cup {0}
    /\ result \in {"none", "OK", "MSG_TOO_LONG", "XCASTB_TIMEOUT", "other"}
    /\ received \in 0..MaxBytes /\ asked \in 0..received /\ typed \in Seq(Keys \cup {"BS"})

\* A binary entry that succeeds has all its bytes, and they are the first that came
\* after it began: no completion of an earlier entry is taken for its own, so a host
\* that waits for '>' has exactly its data sent (bin_byte, at_uart_read_binary).
EntryIntact ==
    pc = "answer" /\ result = "OK" => buf = [k \in 1..len |-> asked + k]

\* The entry gives up only when bytes are missing: a completion is never lost between
\* the reset of the semaphore, the request and the wait (at_uart_read_binary).
TimeoutIsTrue == [][pc = "wait" /\ pc' = "disarm" => received - asked < len]_vars

\* Nothing is written to the caller's buffer, which is on the stack of cmd_senducastb,
\* once at_uart_read_binary has returned (bin_byte against the timeout).
WrittenWhileAsked ==
    [][bin_have' > bin_have => pc \in {"prompt", "wait", "disarm"}]_vars

\* A line that is executed is what was typed with its corrections, whole, without a
\* byte of a binary entry; one that did not fit is refused and never cut (line_byte).
EditKey(line, c) ==
    IF c # "BS" THEN Append(line, c) ELSE IF line = <<>> THEN line ELSE Front(line)
Edits(keys) ==
    LET after[n \in 0..Len(keys)] == IF n = 0 THEN <<>> ELSE EditKey(after[n - 1], keys[n])
    IN  after
Edited(keys) == Edits(keys)[Len(keys)]
TooLong(keys) == \E n \in 1..Len(keys) : Len(Edits(keys)[n]) >= AT_LINE_MAX
LinesAsTyped ==
    [][Len(line_q') > Len(line_q) =>
           Last(line_q') = IF TooLong(typed) THEN Overflow ELSE Edited(typed)]_vars

\* Every line that was accepted is answered, a binary entry without data included.
LinesAnswered == line_q # <<>> \/ pc # "get" ~> line_q = <<>> /\ pc = "get"
=============================================================================
