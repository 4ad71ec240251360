------------------------------ MODULE HostLink ------------------------------
(***************************************************************************)
(* The host's end of the command link, Etrx of src/host/etrx/protocol.py,  *)
(* composed with the module's end of it: the loop of at_cmd.c, binary      *)
(* entry, the echo, and the prompts that other threads print.              *)
(*                                                                         *)
(* Commands are taken one at a time, under _cmd_lock.  A reader thread     *)
(* gives what looks like an answer to the pending command and records the  *)
(* prompts, for wait_for and for the listeners, which the event thread     *)
(* calls and which may send commands too.  The host gives up after a time; *)
(* the module does not know, and answers all the same.                     *)
(***************************************************************************)
EXTENDS Integers, Sequences, FiniteSets, SequencesExt

CONSTANTS
    Callers,       \* the threads that send commands, besides the listeners'
    EventThread,
    Ops,           \* what each thread does: of "read", "bin", "ready", "reset"
    LINE_Q_DEPTH,
    MaxCalls,      \* bound: commands sent
    MaxBins,       \* bound: those of them that send data
    Unasked,       \* the prompts that come unasked: of "JPAN", "other"
    MaxPrompts     \* bound: prompts nobody asked for

ASSUME ThreadsAssumption == EventThread \notin Callers /\ "nobody" \notin Callers \cup {EventThread}
ASSUME BoundsAssumption ==
    /\ LINE_Q_DEPTH \in Nat \ {0} /\ MaxCalls \in Nat /\ MaxBins \in Nat /\ MaxPrompts \in Nat
    /\ Unasked \subseteq {"JPAN", "other"}
    /\ Ops \in [Callers \cup {EventThread} -> SUBSET {"read", "bin", "ready", "reset"}]

VARIABLES
    calls,              \* the operation of each command sent, by its number
    th,                 \* each thread: where it is, and the command it has in hand
    cmd_lock, pending, resp,
    history, events,
    rx,                 \* the reader: the line it has, and the _pending it has read
    seen,               \* the prompts the listeners were called with
    typed, wire,        \* what is on its way to the module, and to the host
    m,                  \* the AT thread: where it is, its command, what it has to print
    line_q, junk,       \* rx_line holds bytes that are not the beginning of a line
    bin_entry, took,    \* binary entry, and whose bytes each command got: 0 none, -1 mixed
    reports,            \* unicasts that ZBOSS will report
    printed,            \* the prompts printed
    prompts

shared == <<cmd_lock, pending, resp>>
record == <<history, events, rx, seen>>
lines  == <<line_q, junk, bin_entry, took>>
module == <<m, lines, reports>>
bounds == <<printed, prompts>>
vars   == <<calls, th, shared, record, typed, wire, module, bounds>>

Threads == Callers \cup {EventThread}
Line(what, of) == [what |-> what, of |-> of]
NoLine   == Line("none", 0)
Timeout  == Line("timeout", 0)
IsPrompt(line)   == line.what \in {"report", "JPAN", "other"}
IsResponse(line) == ~IsPrompt(line) \/ line.what = "JPAN"
RxIdle == [line |-> NoLine, pending |-> 0]
Idle   == [pc |-> "idle", call |-> 0, todo |-> <<>>]
Off    == [pc |-> "off", call |-> 0, todo |-> <<>>]

InHand(pc, call, mark) ==
    [pc |-> pc, call |-> call, mark |-> mark, fresh |-> FALSE, got |-> NoLine, end |-> NoLine]

Init ==
    /\ calls = <<>>
    /\ th = [t \in Threads |-> InHand("idle", 0, 0)]
    /\ cmd_lock = "nobody" /\ pending = 0 /\ resp = <<>>
    /\ history = <<>> /\ events = <<>> /\ rx = RxIdle /\ seen = <<>>
    /\ typed = <<>> /\ wire = <<>> /\ m = Idle /\ line_q = <<>> /\ junk = FALSE
    /\ bin_entry = "none" /\ took = [c \in 1..MaxCalls |-> 0] /\ reports = {}
    /\ printed = <<>> /\ prompts = 0

-----------------------------------------------------------------------------
(* A command: cmd, cmd_binary and what is built on them.                   *)

Op(t) == calls[th[t].call]
At(t, pc) == th[t].pc = pc
Set(t, pc) == th' = [th EXCEPT ![t].pc = pc]
Return(t) == th' = [th EXCEPT ![t] = InHand("idle", 0, 0)]

\* The caller marks the history first, as those that wait for a report do.
Begin(t, op) ==
    /\ Len(calls) < MaxCalls
    /\ calls' = Append(calls, op)
    /\ th' = [th EXCEPT ![t] = InHand("lock", Len(calls) + 1, Len(history))]

Start(t, op) ==
    /\ At(t, "idle") /\ (t = EventThread => seen # <<>>)
    /\ op = "bin" => Cardinality({k \in 1..Len(calls) : calls[k] = "bin"}) < MaxBins
    /\ Begin(t, op)
    /\ UNCHANGED <<shared, record, typed, wire, module, bounds>>

\* Nothing of an earlier command is on its way, or will be.
Quiet ==
    /\ typed = <<>> /\ line_q = <<>> /\ ~junk /\ bin_entry = "none" /\ m = Idle
    /\ rx = RxIdle /\ \A k \in 1..Len(wire) : IsPrompt(wire[k])

MutNoLock == TRUE
LockFree == cmd_lock = "nobody"

MutNoDrain == UNCHANGED resp
Drain == resp' = <<>>

\* A write, or its timeout; nothing has been written then.
WriteOrFail(t, what, now) ==
    \/ /\ typed' = Append(typed, [what |-> what, of |-> th[t].call])
       /\ th' = [now EXCEPT ![t].pc = IF what = "line" /\ Op(t) = "bin" THEN "prompt" ELSE "collect"]
    \/ /\ typed' = typed
       /\ th' = [now EXCEPT ![t].pc = "end", ![t].end = Timeout]

\* cmd and cmd_binary up to the first _next_line.  What the reader puts to resp between
\* the drain and the write it could as well put after it.
Send(t) ==
    /\ At(t, "lock")
    /\ LockFree /\ cmd_lock' = t
    /\ Drain
    /\ pending' = th[t].call
    /\ WriteOrFail(t, "line", [th EXCEPT ![t].fresh = Quiet])
    /\ UNCHANGED <<calls, record, wire, module, bounds>>

\* What is kept of the lines before OK: the last value (sreg_get), the first SEQ (_seq).
Kept(t, line) ==
    CASE Op(t) = "read" /\ ~IsPrompt(line) /\ line.what # "SEQ"        -> line
      [] Op(t) = "bin" /\ line.what = "SEQ" /\ th[t].got = NoLine -> line
      [] OTHER -> th[t].got

\* One turn of _collect, or of the loop that waits for '>'.
NextLine(t) ==
    /\ At(t, "collect") \/ At(t, "prompt")
    /\ resp # <<>> /\ resp' = Tail(resp)
    /\ LET line == Head(resp)
       IN  \/ /\ line.what = "ERROR" \/ (line.what = "OK" /\ At(t, "collect"))
              /\ th' = [th EXCEPT ![t].pc = "end", ![t].end = line]
              /\ UNCHANGED typed
           \/ /\ line.what \notin {"OK", "ERROR"} /\ At(t, "collect")
              /\ th' = [th EXCEPT ![t].got = Kept(t, line)]
              /\ UNCHANGED typed
           \/ line.what = ">" /\ At(t, "prompt") /\ WriteOrFail(t, "bytes", th)
           \/ line.what \notin {">", "ERROR"} /\ At(t, "prompt") /\ UNCHANGED <<typed, th>>
    /\ UNCHANGED <<calls, cmd_lock, pending, record, wire, module, bounds>>

\* _next_line: the deadline passes, whether a line is there or not.
MutNoTimeout(t) == FALSE
TimesOut(t) ==
    /\ At(t, "collect") \/ At(t, "prompt")
    /\ th' = [th EXCEPT ![t].pc = "end", ![t].end = Timeout]
    /\ UNCHANGED <<calls, shared, record, typed, wire, module, bounds>>

\* wait_ready sends AT again after a timeout, until its own has passed; reset calls it.
Again(t) ==
    \/ Op(t) = "ready" /\ th[t].end = Timeout
    \/ Op(t) = "reset" /\ th[t].end.what = "OK"

\* A caller of ucast or senducastb that has its number waits for the report.
Awaits(t) == th[t].got.what = "SEQ" /\ th[t].end.what = "OK"

MutMarkLate(t) == th' = [th EXCEPT ![t].pc = "wait", ![t].mark = Len(history)]
WaitFor(t) == Set(t, "wait")

End(t) ==
    /\ At(t, "end")
    /\ cmd_lock' = "nobody" /\ pending' = 0
    /\ \/ Again(t) /\ Begin(t, "ready")
       \/ Awaits(t) /\ WaitFor(t) /\ UNCHANGED calls
       \/ /\ ~Awaits(t) /\ (Again(t) => Op(t) = "ready" \/ Len(calls) = MaxCalls)
          /\ Return(t) /\ UNCHANGED calls
    /\ UNCHANGED <<resp, record, typed, wire, module, bounds>>

\* _wait_index, from the mark on, under _cond.
InHistory(t) == Line("report", th[t].got.of) \in ToSet(SubSeq(history, th[t].mark + 1, Len(history)))
Found(t) ==
    /\ At(t, "wait") /\ InHistory(t) /\ Return(t)
    /\ UNCHANGED <<calls, shared, record, typed, wire, module, bounds>>
GiveUp(t) ==
    /\ At(t, "wait") /\ ~InHistory(t) /\ Return(t)
    /\ UNCHANGED <<calls, shared, record, typed, wire, module, bounds>>

HostStep(t) ==
    \/ Send(t) \/ NextLine(t) \/ TimesOut(t)
    \/ End(t) \/ Found(t) \/ GiveUp(t)

-----------------------------------------------------------------------------
(* The reader and the event thread.                                        *)

\* _on_line up to `pending = self._pending`.
Read ==
    /\ rx = RxIdle /\ wire # <<>>
    /\ rx' = [line |-> Head(wire), pending |-> pending] /\ wire' = Tail(wire)
    /\ UNCHANGED <<calls, th, shared, history, events, seen, typed, module, bounds>>

\* The echo of the pending command, by its text: the same operation has the same text.
IsEcho == rx.pending # 0 /\ rx.line.what = "echo" /\ calls[rx.line.of] = calls[rx.pending]

MutPendingTakesPrompts ==
    /\ resp' = IF rx.pending # 0 /\ ~IsEcho THEN Append(resp, rx.line) ELSE resp
    /\ IF IsPrompt(rx.line) /\ (rx.pending = 0 \/ ~IsResponse(rx.line))
       THEN history' = Append(history, rx.line) /\ events' = Append(events, rx.line)
       ELSE UNCHANGED <<history, events>>
SortLine ==
    /\ resp' = IF rx.pending # 0 /\ ~IsEcho /\ IsResponse(rx.line) THEN Append(resp, rx.line)
               ELSE resp
    /\ IF IsPrompt(rx.line)
       THEN history' = Append(history, rx.line) /\ events' = Append(events, rx.line)
       ELSE UNCHANGED <<history, events>>

\* The rest of _on_line.
OnLine ==
    /\ rx # RxIdle /\ rx' = RxIdle
    /\ SortLine
    /\ UNCHANGED <<calls, th, cmd_lock, pending, seen, typed, wire, module, bounds>>

\* _event_loop calls the listeners; until the next event they may send commands.
GetEvent ==
    /\ At(EventThread, "idle")
    /\ events # <<>> /\ events' = Tail(events) /\ seen' = Append(seen, Head(events))
    /\ UNCHANGED <<calls, th, shared, history, rx, typed, wire, module, bounds>>

Host == Read \/ OnLine \/ GetEvent

-----------------------------------------------------------------------------
(* The module.                                                             *)

\* A print; the echo of a line ends with the next one.
Emit(line) == wire' = Append(wire, line)
EmitPrompt(line) == Emit(line) /\ printed' = Append(printed, line)

Queued(of, whole) ==
    line_q' = IF Len(line_q) < LINE_Q_DEPTH THEN Append(line_q, [of |-> of, whole |-> whole])
              ELSE line_q

HasEnd(msg) == msg.what \in {"line", "rest"}

\* rx_process and bin_byte.  An open entry takes what comes: its data, or a command line
\* that the host has sent since, of which more may be left than the entry takes.
ToEntry(msg) ==
    LET own == took[m.call] = 0 /\ msg = [what |-> "bytes", of |-> m.call]
    IN  /\ took' = [took EXCEPT ![m.call] = IF own THEN m.call ELSE -1]
        /\ \/ bin_entry' = "full" /\ UNCHANGED <<line_q, junk>>
           \/ /\ ~own /\ bin_entry' = "full"
              /\ IF HasEnd(msg) THEN Queued(msg.of, FALSE) /\ UNCHANGED junk
                 ELSE junk' = TRUE /\ UNCHANGED line_q
           \/ ~own /\ UNCHANGED <<bin_entry, line_q, junk>>
        /\ UNCHANGED wire
ToLine(msg) ==
    /\ IF HasEnd(msg)
       THEN Queued(msg.of, msg.what = "line" /\ ~junk) /\ junk' = FALSE
       ELSE junk' = TRUE /\ UNCHANGED line_q
    /\ wire' = Append(wire, Line(IF msg.what = "line" /\ ~junk THEN "echo" ELSE "piece", msg.of))
    /\ UNCHANGED <<bin_entry, took>>

Receive ==
    /\ typed # <<>> /\ typed' = Tail(typed)
    /\ IF m = Off THEN UNCHANGED <<wire, lines>>
       ELSE IF bin_entry = "open" THEN ToEntry(Head(typed)) ELSE ToLine(Head(typed))
    /\ UNCHANGED <<calls, th, shared, record, m, reports, bounds>>

Answers(what, c) == [k \in 1..Len(what) |-> Line(what[k], c)]
Printing(what, c) == m' = [pc |-> "print", call |-> c, todo |-> Answers(what, c)]

\* A unicast is handed to ZBOSS, or refused.
SendUnicast(c) ==
    \/ Printing(<<"SEQ", "OK">>, c) /\ reports' = reports \cup {c}
    \/ Printing(<<"ERROR">>, c) /\ UNCHANGED reports

\* at_cmd_thread takes a line and executes it.
Take ==
    /\ m = Idle /\ line_q # <<>> /\ line_q' = Tail(line_q)
    /\ LET c == Head(line_q).of
           op == calls[c]
       IN  IF ~Head(line_q).whole THEN Printing(<<"ERROR">>, c) /\ UNCHANGED <<bin_entry, reports>>
           ELSE \/ /\ op = "bin"
                   /\ m' = [pc |-> "arm", call |-> c, todo |-> <<>>] /\ bin_entry' = "open"
                   /\ UNCHANGED reports
                \/ /\ op \in {"read", "bin"} /\ Printing(<<"ERROR">>, c)
                   /\ UNCHANGED <<bin_entry, reports>>
                \/ op = "read" /\ Printing(<<"value", "OK">>, c) /\ UNCHANGED <<bin_entry, reports>>
                \/ /\ op \in {"ready", "reset"} /\ Printing(<<"OK">>, c)
                   /\ UNCHANGED <<bin_entry, reports>>
    /\ UNCHANGED <<calls, th, shared, record, typed, wire, junk, took, bounds>>

\* at_uart_read_binary.
PromptHost ==
    /\ m.pc = "arm" /\ m' = [m EXCEPT !.pc = "entry"]
    /\ Emit(Line(">", m.call))
    /\ UNCHANGED <<calls, th, shared, record, typed, lines, reports, bounds>>
EntryEnds ==
    /\ m.pc = "entry" /\ bin_entry' = "none"
    /\ \/ bin_entry = "full" /\ SendUnicast(m.call)
       \/ bin_entry = "open" /\ Printing(<<"ERROR">>, m.call) /\ UNCHANGED reports
    /\ UNCHANGED <<calls, th, shared, record, typed, wire, line_q, junk, took, bounds>>

TurnOff ==
    /\ m' = Off /\ line_q' = <<>> /\ junk' = FALSE /\ bin_entry' = "none" /\ reports' = {}
    /\ UNCHANGED took

PrintNext ==
    /\ m.pc = "print"
    /\ Emit(Head(m.todo))
    /\ IF Len(m.todo) > 1
       THEN m' = [m EXCEPT !.todo = Tail(@)] /\ UNCHANGED <<lines, reports>>
       ELSE IF calls[m.call] = "reset" /\ Head(m.todo).what = "OK" THEN TurnOff
            ELSE m' = Idle /\ UNCHANGED <<lines, reports>>
    /\ UNCHANGED <<calls, th, shared, record, typed, bounds>>

\* The ZBOSS thread prints when it likes.
Report(c) ==
    /\ c \in reports /\ reports' = reports \ {c}
    /\ EmitPrompt(Line("report", c))
    /\ UNCHANGED <<calls, th, shared, record, typed, m, lines, prompts>>
Prompt(what) ==
    /\ m # Off /\ prompts < MaxPrompts /\ prompts' = prompts + 1
    /\ EmitPrompt(Line(what, 0))
    /\ UNCHANGED <<calls, th, shared, record, typed, module>>

\* A line that is on its way in loses what comes before.
Boot ==
    /\ m = Off /\ m' = Idle
    /\ \/ typed' = typed
       \/ /\ typed # <<>>
          /\ typed' = [typed EXCEPT ![1].what = IF @ = "line" THEN "rest" ELSE "part"]
    /\ UNCHANGED <<calls, th, shared, record, wire, lines, reports, bounds>>

Module ==
    Receive \/ Take \/ PromptHost \/ EntryEnds \/ PrintNext \/ Boot \/ \E c \in reports : Report(c)

Next ==
    \/ \E t \in Threads : HostStep(t) \/ \E op \in Ops[t] : Start(t, op)
    \/ Host \/ Module
    \/ \E what \in Unasked : Prompt(what)

Spec == Init /\ [][Next]_vars

\* The host's threads run and its timers run out; so do the module's.
FairSpec ==
    /\ Spec /\ WF_vars(Module) /\ WF_vars(Read) /\ WF_vars(OnLine)
    /\ WF_vars(GetEvent)
    /\ \A t \in Threads : WF_vars(HostStep(t))

-----------------------------------------------------------------------------
(* Properties.                                                             *)

Numbers   == 0..MaxCalls
AnyOp     == {"read", "bin", "ready", "reset"}
AnyLine   == [what : {"none", "timeout", "echo", "piece", ">", "value", "SEQ", "OK", "ERROR", "report"}
                     \cup Unasked,
              of : Numbers]
AnyInHand == [pc : {"idle", "lock", "collect", "prompt", "end", "wait"}, call : Numbers,
              mark : Nat, fresh : BOOLEAN, got : AnyLine, end : AnyLine]

TypeOK ==
    /\ calls \in Seq(AnyOp) /\ Len(calls) <= MaxCalls
    /\ th \in [Threads -> AnyInHand]
    /\ cmd_lock \in Threads \cup {"nobody"} /\ pending \in Numbers /\ resp \in Seq(AnyLine)
    /\ history \in Seq(AnyLine) /\ events \in Seq(AnyLine) /\ seen \in Seq(AnyLine)
    /\ rx \in [line : AnyLine, pending : Numbers] /\ wire \in Seq(AnyLine)
    /\ typed \in Seq([what : {"line", "bytes", "rest", "part"}, of : Numbers])
    /\ m \in [pc : {"idle", "off", "arm", "entry", "print"}, call : Numbers, todo : Seq(AnyLine)]
    /\ line_q \in Seq([of : Numbers, whole : BOOLEAN]) /\ Len(line_q) <= LINE_Q_DEPTH
    /\ junk \in BOOLEAN /\ bin_entry \in {"none", "open", "full"}
    /\ took \in [1..MaxCalls -> Numbers \cup {-1}] /\ reports \subseteq Numbers
    /\ printed \in Seq(AnyLine) /\ prompts \in 0..MaxPrompts

\* A command that was sent when nothing of an earlier one was left ends with its own
\* OK or ERROR, and with its own value or number, whatever the reader, the listeners,
\* prompts, the echo and resets do meanwhile (_on_line, _drain, _collect).
Own(line, c) == line.what \in {"none", "timeout"} \/ line.of = c
OwnAnswer ==
    \A t \in Threads : At(t, "end") /\ th[t].fresh =>
        /\ Own(th[t].end, th[t].call)
        /\ th[t].end.what = "OK" => Own(th[t].got, th[t].call) /\ th[t].got.what # "piece"

\* A senducastb that was sent when nothing of an earlier command was left, and that
\* ends with OK, has sent its own data (cmd_binary, at_uart_read_binary).
OwnData ==
    \A t \in Threads : At(t, "end") /\ th[t].fresh /\ Op(t) = "bin" /\ th[t].end.what = "OK" =>
        took[th[t].call] = th[t].call

\* Who waits for the report of a unicast gives up only when none has come, not even
\* before SEQ and OK, as it does when the send fails at once (mark, _wait_index).
ReportNotMissed ==
    [][\A t \in Threads : At(t, "wait") /\ th[t].fresh /\ GiveUp(t) =>
           Line("report", th[t].call) \notin ToSet(history)]_vars

\* The listeners get every prompt once and in order, command pending or not: none is
\* lost, or taken for an answer, on the way (_on_line, _event_loop).
Prompts(s) ==
    LET first[n \in 0..Len(s)] ==
            IF n = 0 THEN <<>>
            ELSE IF IsPrompt(s[n]) THEN Append(first[n - 1], s[n]) ELSE first[n - 1]
    IN  first[Len(s)]
EventsDelivered == printed = seen \o events \o Prompts(<<rx.line>> \o wire)

\* Every command returns or raises, those of listeners too, whatever the module does.
AllIdle == \A t \in Threads : At(t, "idle")
CallsEnd == ~AllIdle ~> AllIdle
=============================================================================
