--------------------------- MODULE HostLink_proofs ---------------------------
(***************************************************************************)
(* Safety of HostLink for any threads, commands, number of calls, prompts  *)
(* and depth of the module's queue: types, own answers and own data on a   *)
(* quiet link, no report missed, every prompt to the listeners once.       *)
(***************************************************************************)
EXTENDS HostLink, SequenceTheorems, WellFoundedInduction, TLAPS

-----------------------------------------------------------------------------
(* The inductive invariant.                                                *)

\* The module has a command; what the callers may have typed.
Busy == {"arm", "entry", "print"}
AnyChunk == [what : {"line", "bytes", "rest", "part"}, of : Numbers]

\* The places of the AT thread, what it has to print, and the binary entry.
ModuleInv ==
  /\ m.pc = "idle" => m = Idle
  /\ m.pc = "off" => m = Off
  /\ m.pc = "print" <=> m.todo # <<>>
  /\ bin_entry # "none" <=> m.pc \in {"arm", "entry"}

\* The thread that holds _cmd_lock is the one between its command and its end.
LockInv ==
  \A t \in Threads :
    /\ th[t].pc \in {"collect", "prompt", "end"} <=> cmd_lock = t
    /\ th[t].pc = "lock" => th[t].got = NoLine /\ th[t].end = NoLine

\* The commands that have been sent, or that nobody will send any more.
Sent == {c \in 1..Len(calls) : \A t \in Threads : th[t].pc = "lock" => th[t].call # c}
SentLine == {line \in AnyLine : line.of \in Sent \cup {0}}

\* Every command in hand has its own number.
HandInv ==
  /\ \A t \in Threads : th[t].pc # "idle" => th[t].call \in 1..Len(calls)
  /\ \A t, u \in Threads :
        th[t].pc # "idle" /\ th[u].pc # "idle" /\ th[t].call = th[u].call => t = u

\* Nothing that was typed, taken or printed is about a command that has not been sent.
SentInv ==
  /\ typed \in Seq([what : {"line", "bytes", "rest", "part"}, of : Sent])
  /\ line_q \in Seq([of : Sent, whole : BOOLEAN])
  /\ m.pc \in Busy => m.call \in Sent
  /\ \A c \in 1..MaxCalls : took[c] # 0 => c \in Sent
  /\ reports \subseteq Sent
  /\ m.todo \in Seq(SentLine) /\ wire \in Seq(SentLine) /\ rx.line \in SentLine
  /\ history \in Seq(SentLine)

\* What was recorded before a command began is about commands before it.
MarkInv ==
  \A t \in Threads : th[t].pc # "idle" =>
    /\ th[t].mark <= Len(history)
    /\ \A i \in 1..th[t].mark : history[i].of < th[t].call

\* Lines that are prompts or the command's own; lines without a piece of an echo; without OK.
OwnLine(c) == {line \in AnyLine : IsPrompt(line) \/ Own(line, c)}
NoPiece    == {line \in AnyLine : line.what # "piece"}
NotOK      == {line \in AnyLine : line.what # "OK"}

\* The lines that the module is to print, and those on their way to the caller.
Within(L) == m.todo \in Seq(L) /\ wire \in Seq(L) /\ resp \in Seq(L) /\ rx.line \in L

\* Whatever is on its way belongs to command c.
InFlight(c) ==
  /\ typed \in Seq([what : {"line", "bytes", "rest", "part"}, of : {c}])
  /\ line_q \in Seq([of : {c}, whole : BOOLEAN])
  /\ m.pc \in Busy => m.call = c
  /\ Within(OwnLine(c))

\* The module stays on, and takes a line of c that reads for a line.
ReadInFlight(c) ==
  /\ ~junk /\ m.pc \in {"idle", "print"}
  /\ typed \in Seq([what : {"line"}, of : {c}])
  /\ Within(NoPiece)

\* A line of c that sends data goes in, then its data: OK comes only of an entry that
\* the data filled.
LineOf(c)  == [what |-> "line", of |-> c]
BytesOf(c) == [what |-> "bytes", of |-> c]
BinInFlight(c) ==
  /\ m.pc # "off"
  /\ typed \in {<<>>, <<LineOf(c)>>, <<BytesOf(c)>>, <<LineOf(c), BytesOf(c)>>}
  /\ typed \in {<<LineOf(c)>>, <<LineOf(c), BytesOf(c)>>} => line_q = <<>> /\ m.pc = "idle"
  /\ line_q # <<>> => Len(line_q) = 1 /\ m.pc = "idle"
  /\ typed # <<>> \/ line_q # <<>> \/ bin_entry = "open" => took[c] = 0
  /\ bin_entry = "full" => took[c] = c
  /\ Within(NotOK) \/ took[c] = c
NotYetSent(c) == took[c] = 0 /\ typed \in {<<>>, <<LineOf(c)>>}

\* A command that was sent when nothing of an earlier one was left, until its end.
FreshOf(t, c) ==
  th[t].pc \in {"collect", "prompt", "end"} /\ th[t].fresh /\ th[t].call = c =>
    /\ InFlight(c) /\ Own(th[t].got, c) /\ Own(th[t].end, c)
    /\ calls[c] = "read" =>
         ReadInFlight(c) /\ th[t].got.what # "piece" /\ th[t].pc # "prompt"
    /\ calls[c] # "read" => th[t].got.what \in {"none", "SEQ"}
    /\ calls[c] = "bin" =>
         /\ BinInFlight(c)
         /\ th[t].end.what # "OK" \/ took[c] = c
         /\ th[t].pc = "prompt" => NotYetSent(c)
FreshInv == \A t \in Threads, c \in 1..MaxCalls : FreshOf(t, c)
WaitInv == \A t \in Threads : th[t].pc = "wait" /\ th[t].fresh => th[t].got.of = th[t].call

IInv == TypeOK /\ ModuleInv /\ LockInv /\ HandInv /\ SentInv /\ MarkInv /\ FreshInv /\ WaitInv

-----------------------------------------------------------------------------
(* Types, and the module.                                                  *)

LEMMA Constants ==
  /\ MaxCalls \in Nat /\ LINE_Q_DEPTH \in Nat /\ LINE_Q_DEPTH > 0 /\ MaxPrompts \in Nat
  /\ EventThread \in Threads /\ "nobody" \notin Threads
  /\ \A t \in Threads : Ops[t] \subseteq AnyOp
  BY ThreadsAssumption, BoundsAssumption DEF Threads, AnyOp

LEMMA NoLineType == NoLine \in AnyLine /\ Timeout \in AnyLine
  BY Constants DEF NoLine, Timeout, AnyLine, Line, Numbers

LEMMA TailType ==
  ASSUME NEW S, NEW s \in Seq(S), s # <<>>
  PROVE  Head(s) \in S /\ Tail(s) \in Seq(S) /\ (Len(s) > 1 => Tail(s) # <<>>)
  <1> DEFINE rest == Tail(s)
  <1>1. Head(s) \in S /\ rest \in Seq(S) /\ Len(rest) = Len(s) - 1
    BY HeadTailProperties
  <1>2. Len(s) \in Nat
    OBVIOUS
  <1> HIDE DEF rest
  <1>3. rest = <<>> => Len(rest) = 0
    OBVIOUS
  <1>4. Len(s) > 1 => rest # <<>>
    BY <1>1, <1>2, <1>3
  <1> QED BY <1>1, <1>4 DEF rest

LEMMA FirstType ==
  ASSUME NEW S, NEW s \in Seq(S), s # <<>>, NEW e \in S
  PROVE  [s EXCEPT ![1] = e] \in Seq(S)
  BY ExceptSeq

LEMMA InHandType ==
  ASSUME NEW pc \in {"idle", "lock", "collect", "prompt", "end", "wait"}, NEW call \in Numbers, NEW mark \in Nat
  PROVE  InHand(pc, call, mark) \in AnyInHand
  BY NoLineType DEF InHand, AnyInHand

LEMMA ThType ==
  ASSUME th \in [Threads -> AnyInHand], NEW t \in Threads, NEW h \in AnyInHand
  PROVE  [th EXCEPT ![t] = h] \in [Threads -> AnyInHand]
  OBVIOUS

LEMMA QuietBoolean == Quiet \in BOOLEAN
  BY Zenon DEF Quiet

\* A thread's hand, with another place, last line, value or freshness.
LEMMA PcType ==
  ASSUME NEW h \in AnyInHand, NEW pc \in {"idle", "lock", "collect", "prompt", "end", "wait"}
  PROVE  [h EXCEPT !.pc = pc] \in AnyInHand
  BY DEF AnyInHand

LEMMA EndType ==
  ASSUME NEW h \in AnyInHand, NEW line \in AnyLine
  PROVE  [h EXCEPT !.pc = "end", !.end = line] \in AnyInHand
  BY DEF AnyInHand

LEMMA GotType ==
  ASSUME NEW h \in AnyInHand, NEW line \in AnyLine
  PROVE  [h EXCEPT !.got = line] \in AnyInHand
  BY DEF AnyInHand

LEMMA FreshType ==
  ASSUME NEW h \in AnyInHand, NEW b \in BOOLEAN
  PROVE  [h EXCEPT !.fresh = b] \in AnyInHand
  BY DEF AnyInHand

LEMMA InitType == Init => TypeOK
  <1> SUFFICES ASSUME Init PROVE TypeOK
    OBVIOUS
  <1>1. th \in [Threads -> AnyInHand]
    BY InHandType, Constants DEF Init, Numbers
  <1>2. junk \in BOOLEAN
    BY Zenon DEF Init
  <1>3. rx \in [line : AnyLine, pending : Numbers]
    BY NoLineType, Constants DEF Init, RxIdle, Numbers
  <1> QED BY <1>1, <1>2, <1>3, Constants DEF Init, TypeOK, Idle, Numbers

LEMMA WriteType ==
  ASSUME TypeOK, NEW t \in Threads, NEW what \in {"line", "bytes"}, NEW now \in [Threads -> AnyInHand],
         WriteOrFail(t, what, now)
  PROVE  th' \in [Threads -> AnyInHand] /\ typed' \in Seq(AnyChunk)
  <1> DEFINE to(pc) == [now[t] EXCEPT !.pc = pc]
             failed == [now[t] EXCEPT !.pc = "end", !.end = Timeout]
             chunk == [what |-> what, of |-> th[t].call]
  <1>1. to("prompt") \in AnyInHand /\ to("collect") \in AnyInHand
    BY PcType
  <1>2. failed \in AnyInHand
    BY EndType, NoLineType
  <1>3. chunk \in AnyChunk /\ typed \in Seq(AnyChunk)
    BY DEF TypeOK, AnyInHand, AnyChunk
  <1>4. \/ typed' = Append(typed, chunk) /\ (th' = [now EXCEPT ![t] = to("prompt")] \/ th' = [now EXCEPT ![t] = to("collect")])
        \/ typed' = typed /\ th' = [now EXCEPT ![t] = failed]
    BY DEF WriteOrFail
  <1> HIDE DEF to, failed, chunk
  <1>5. typed' \in Seq(AnyChunk)
    BY <1>3, <1>4
  <1>6. th' \in [Threads -> AnyInHand]
    BY <1>1, <1>2, <1>4
  <1> QED BY <1>5, <1>6

LEMMA BeginType ==
  ASSUME TypeOK, NEW t \in Threads, NEW op \in AnyOp, Begin(t, op)
  PROVE  th' \in [Threads -> AnyInHand] /\ calls' \in Seq(AnyOp) /\ Len(calls') <= MaxCalls
  <1>0. Len(calls) + 1 \in Numbers /\ Len(history) \in Nat
    BY Constants DEF Begin, TypeOK, Numbers
  <1>1. InHand("lock", Len(calls) + 1, Len(history)) \in AnyInHand
    BY <1>0, InHandType
  <1>2. th' \in [Threads -> AnyInHand]
    BY <1>1, ThType DEF Begin, TypeOK
  <1>3. calls \in Seq(AnyOp) /\ Len(calls) < MaxCalls /\ calls' = Append(calls, op)
    BY DEF Begin, TypeOK
  <1>4. calls' \in Seq(AnyOp) /\ Len(calls') = Len(calls) + 1
    BY <1>3, AppendProperties
  <1> QED BY <1>2, <1>3, <1>4, Constants

LEMMA ReturnType ==
  ASSUME TypeOK, NEW t \in Threads, Return(t)
  PROVE  th' \in [Threads -> AnyInHand]
  <1>1. InHand("idle", 0, 0) \in AnyInHand
    BY InHandType, Constants DEF Numbers
  <1> QED BY <1>1, ThType DEF Return, TypeOK

LEMMA HostStepType ==
  ASSUME TypeOK, NEW t \in Threads, HostStep(t)
  PROVE  TypeOK'
  <1> USE DEF record, module, lines, bounds, shared
  <1>0. th \in [Threads -> AnyInHand] /\ th[t] \in AnyInHand /\ th[t].call \in Numbers
        /\ resp \in Seq(AnyLine)
    BY DEF TypeOK, AnyInHand
  <1>1. CASE Send(t)
    <2>1. [th EXCEPT ![t].fresh = Quiet] \in [Threads -> AnyInHand]
      <3>1. [th[t] EXCEPT !.fresh = Quiet] \in AnyInHand
        BY <1>0, FreshType, QuietBoolean
      <3> QED BY <1>0, <3>1
    <2>2. th' \in [Threads -> AnyInHand] /\ typed' \in Seq(AnyChunk)
      BY <1>1, <2>1, WriteType DEF Send
    <2> QED BY <1>0, <1>1, <2>2 DEF Send, Drain, TypeOK, AnyChunk
  <1>2. CASE NextLine(t)
    <2> DEFINE line == Head(resp)
    <2>1. line \in AnyLine /\ resp' \in Seq(AnyLine)
      BY <1>0, <1>2 DEF NextLine
    <2>2. Kept(t, line) \in AnyLine
      BY <1>0, <2>1 DEF Kept, AnyInHand
    <2>3. th' \in [Threads -> AnyInHand] /\ typed' \in Seq(AnyChunk)
      <3>1. CASE th' = [th EXCEPT ![t].pc = "end", ![t].end = line] /\ UNCHANGED typed
        <4>1. [th[t] EXCEPT !.pc = "end", !.end = line] \in AnyInHand
          BY <1>0, <2>1, EndType
        <4> QED BY <1>0, <3>1, <4>1 DEF TypeOK, AnyChunk
      <3>2. CASE th' = [th EXCEPT ![t].got = Kept(t, line)] /\ UNCHANGED typed
        <4>1. [th[t] EXCEPT !.got = Kept(t, line)] \in AnyInHand
          BY <1>0, <2>2, GotType
        <4> QED BY <1>0, <3>2, <4>1 DEF TypeOK, AnyChunk
      <3>3. CASE WriteOrFail(t, "bytes", th)
        BY <1>0, <3>3, WriteType
      <3>4. CASE UNCHANGED <<typed, th>>
        BY <3>4 DEF TypeOK, AnyChunk
      <3> QED BY <1>2, <3>1, <3>2, <3>3, <3>4 DEF NextLine
    <2> QED BY <1>2, <2>1, <2>3 DEF NextLine, TypeOK, AnyChunk
  <1>3. CASE TimesOut(t)
    <2>2. [th[t] EXCEPT !.pc = "end", !.end = Timeout] \in AnyInHand
      BY <1>0, EndType, NoLineType
    <2>3. th' \in [Threads -> AnyInHand]
      BY <1>0, <1>3, <2>2 DEF TimesOut
    <2> QED BY <1>3, <2>3 DEF TimesOut, TypeOK
  <1>4. CASE End(t)
    <2>1. th' \in [Threads -> AnyInHand] /\ calls' \in Seq(AnyOp) /\ Len(calls') <= MaxCalls
      <3>1. CASE Begin(t, "ready")
        BY <3>1, BeginType DEF AnyOp
      <3>2. CASE WaitFor(t) /\ UNCHANGED calls
        <4>1. [th[t] EXCEPT !.pc = "wait"] \in AnyInHand
          BY <1>0, PcType
        <4> QED BY <1>0, <3>2, <4>1 DEF WaitFor, Set, TypeOK
      <3>3. CASE Return(t) /\ UNCHANGED calls
        BY <3>3, ReturnType DEF TypeOK
      <3> QED BY <1>4, <3>1, <3>2, <3>3 DEF End
    <2> QED BY <1>4, <2>1, Constants DEF End, TypeOK, Numbers
  <1>5. CASE Found(t) \/ GiveUp(t)
    BY <1>5, ReturnType DEF Found, GiveUp, TypeOK
  <1> QED BY <1>1, <1>2, <1>3, <1>4, <1>5 DEF HostStep

LEMMA StartType ==
  ASSUME TypeOK, NEW t \in Threads, NEW op \in Ops[t], Start(t, op)
  PROVE  TypeOK'
  <1>1. op \in AnyOp
    BY Constants
  <1> QED BY <1>1, BeginType DEF Start, TypeOK, record, module, lines, bounds, shared

LEMMA ReaderType ==
  ASSUME TypeOK, Host
  PROVE  TypeOK'
  <1> USE DEF record, module, lines, bounds, shared
  <1>0. resp \in Seq(AnyLine) /\ wire \in Seq(AnyLine) /\ history \in Seq(AnyLine) /\ events \in Seq(AnyLine)
        /\ seen \in Seq(AnyLine) /\ rx.line \in AnyLine /\ pending \in Numbers
    BY DEF TypeOK
  <1>1. CASE Read
    <2>1. Head(wire) \in AnyLine /\ wire' \in Seq(AnyLine)
      BY <1>0, <1>1 DEF Read
    <2> QED BY <1>0, <1>1, <2>1 DEF Read, TypeOK
  <1>2. CASE OnLine
    <2>1. resp' \in Seq(AnyLine) /\ history' \in Seq(AnyLine) /\ events' \in Seq(AnyLine)
      <3>1. resp' = resp \/ resp' = Append(resp, rx.line)
        BY <1>2 DEF OnLine, SortLine
      <3>2. \/ UNCHANGED <<history, events>>
            \/ history' = Append(history, rx.line) /\ events' = Append(events, rx.line)
        BY <1>2 DEF OnLine, SortLine
      <3>3. \A s \in Seq(AnyLine) : Append(s, rx.line) \in Seq(AnyLine)
        BY <1>0
      <3> QED BY <1>0, <3>1, <3>2, <3>3
    <2>2. rx' \in [line : AnyLine, pending : Numbers]
      BY <1>2, NoLineType, Constants DEF OnLine, RxIdle, Numbers
    <2> QED BY <1>2, <2>1, <2>2 DEF OnLine, TypeOK
  <1>3. CASE GetEvent
    <2>1. events' \in Seq(AnyLine) /\ seen' \in Seq(AnyLine)
      BY <1>0, <1>3 DEF GetEvent
    <2> QED BY <1>3, <2>1 DEF GetEvent, TypeOK
  <1> QED BY <1>1, <1>2, <1>3 DEF Host

-----------------------------------------------------------------------------
(* What each step of the module, of a caller and of the reader is of type. *)

LEMMA AnswersType ==
  ASSUME NEW what, NEW c \in Numbers,
         what \in {<<"SEQ", "OK">>, <<"ERROR">>, <<"value", "OK">>, <<"OK">>}
  PROVE  Answers(what, c) \in Seq(AnyLine) /\ Answers(what, c) # <<>>
  <1>1. \A k \in 1..Len(what) : Line(what[k], c) \in AnyLine
    BY DEF AnyLine, Line
  <1>2. Len(what) \in Nat /\ Len(what) > 0
    OBVIOUS
  <1> QED BY <1>1, <1>2 DEF Answers

LEMMA PrintingType ==
  ASSUME NEW what, NEW c \in Numbers, Printing(what, c),
         what \in {<<"SEQ", "OK">>, <<"ERROR">>, <<"value", "OK">>, <<"OK">>}
  PROVE  /\ m' \in [pc : {"idle", "off", "arm", "entry", "print"}, call : Numbers, todo : Seq(AnyLine)]
         /\ m'.pc = "print" /\ m'.todo # <<>> /\ m'.call = c
  BY AnswersType DEF Printing

LEMMA QueuedType ==
  ASSUME TypeOK, NEW of \in Numbers, NEW whole \in BOOLEAN, Queued(of, whole)
  PROVE  line_q' \in Seq([of : Numbers, whole : BOOLEAN]) /\ Len(line_q') <= LINE_Q_DEPTH
  <1> DEFINE L == [of : Numbers, whole : BOOLEAN]
             l == [of |-> of, whole |-> whole]
  <1>1. line_q \in Seq(L) /\ Len(line_q) <= LINE_Q_DEPTH
    BY DEF TypeOK
  <1>2. l \in L
    OBVIOUS
  <1>3. line_q' = IF Len(line_q) < LINE_Q_DEPTH THEN Append(line_q, l) ELSE line_q
    BY DEF Queued
  <1> HIDE DEF L, l
  <1>4. line_q' \in Seq(L) /\ Len(line_q') <= LINE_Q_DEPTH
    BY <1>1, <1>2, <1>3, Constants
  <1> QED BY <1>4 DEF L

LEMMA ReceiveType ==
  ASSUME TypeOK, ModuleInv, Receive
  PROVE  TypeOK' /\ ModuleInv'
  <1> DEFINE msg == Head(typed)
  <1>1. typed \in Seq(AnyChunk) /\ typed # <<>>
    BY DEF Receive, TypeOK, AnyChunk
  <1>2. typed' \in Seq(AnyChunk) /\ msg \in AnyChunk
    BY <1>1 DEF Receive
  <1>3. msg.of \in Numbers
    BY <1>2 DEF AnyChunk
  <1> HIDE DEF msg
  <1>4. /\ wire' \in Seq(AnyLine)
        /\ line_q' \in Seq([of : Numbers, whole : BOOLEAN]) /\ Len(line_q') <= LINE_Q_DEPTH
        /\ junk' \in BOOLEAN /\ bin_entry' \in {"none", "open", "full"}
        /\ took' \in [1..MaxCalls -> Numbers \cup {-1}]
        /\ bin_entry' # "none" <=> bin_entry # "none"
    <2>1. CASE UNCHANGED <<wire, lines>>
      BY <2>1 DEF TypeOK, lines
    <2>2. CASE bin_entry = "open" /\ ToEntry(msg)
      <3>1. took' \in [1..MaxCalls -> Numbers \cup {-1}]
        <4>1. took' = [took EXCEPT ![m.call] = m.call] \/ took' = [took EXCEPT ![m.call] = -1]
          BY <2>2 DEF ToEntry
        <4> QED BY <4>1 DEF TypeOK
      <3>2. junk' \in BOOLEAN
        <4>1. junk \in BOOLEAN
          BY DEF TypeOK
        <4> QED BY <2>2, <4>1, Zenon DEF ToEntry
      <3>3. \/ UNCHANGED line_q
            \/ Queued(msg.of, FALSE)
        BY <2>2, Zenon DEF ToEntry
      <3>4. line_q' \in Seq([of : Numbers, whole : BOOLEAN]) /\ Len(line_q') <= LINE_Q_DEPTH
        BY <1>3, <3>3, QueuedType DEF TypeOK
      <3>5. wire' = wire /\ (bin_entry' = "full" \/ bin_entry' = bin_entry)
        BY <2>2, Zenon DEF ToEntry
      <3> QED BY <2>2, <3>1, <3>2, <3>4, <3>5 DEF TypeOK
    <2>3. CASE ToLine(msg)
      <3>1. wire' \in Seq(AnyLine)
        <4>1. wire' = Append(wire, Line("echo", msg.of)) \/ wire' = Append(wire, Line("piece", msg.of))
          BY <2>3, Zenon DEF ToLine
        <4>2. Line("echo", msg.of) \in AnyLine /\ Line("piece", msg.of) \in AnyLine /\ wire \in Seq(AnyLine)
          BY <1>3 DEF Line, AnyLine, TypeOK
        <4> QED BY <4>1, <4>2
      <3>2. junk' \in BOOLEAN
        BY <2>3, Zenon DEF ToLine
      <3>3. line_q' = line_q \/ Queued(msg.of, msg.what = "line" /\ ~junk)
        BY <2>3, Zenon DEF ToLine
      <3>4. (msg.what = "line" /\ ~junk) \in BOOLEAN
        BY Zenon
      <3>5. line_q' \in Seq([of : Numbers, whole : BOOLEAN]) /\ Len(line_q') <= LINE_Q_DEPTH
        BY <1>3, <3>3, <3>4, QueuedType DEF TypeOK
      <3>6. UNCHANGED <<bin_entry, took>>
        BY <2>3, Zenon DEF ToLine
      <3> QED BY <3>1, <3>2, <3>5, <3>6 DEF TypeOK
    <2> QED BY <2>1, <2>2, <2>3 DEF Receive, msg
  <1>5. UNCHANGED <<calls, th, shared, record, m, reports, bounds>>
    BY DEF Receive
  <1> QED BY <1>2, <1>4, <1>5 DEF TypeOK, ModuleInv, shared, record, bounds, AnyChunk

LEMMA TakeType ==
  ASSUME TypeOK, ModuleInv, Take
  PROVE  TypeOK' /\ ModuleInv'
  <1> DEFINE L == [of : Numbers, whole : BOOLEAN]
             c == Head(line_q).of
  <1>1. line_q \in Seq(L) /\ line_q # <<>> /\ Len(line_q) <= LINE_Q_DEPTH
    BY DEF Take, TypeOK
  <1>2. line_q' \in Seq(L) /\ Len(line_q') <= LINE_Q_DEPTH /\ Head(line_q) \in L
    <2> HIDE DEF L
    <2> QED BY <1>1, Constants DEF Take
  <1>3. c \in Numbers
    BY <1>2
  <1>4. bin_entry = "none" /\ m = Idle
    BY DEF Take, ModuleInv, Idle
  <1> DEFINE C == [pc : {"idle", "off", "arm", "entry", "print"}, call : Numbers, todo : Seq(AnyLine)]
  <1>5. /\ m' \in C /\ bin_entry' \in {"none", "open"} /\ reports' = reports
        /\ \/ m'.pc = "print" /\ m'.todo # <<>> /\ bin_entry' = "none"
           \/ m'.pc = "arm" /\ m'.todo = <<>> /\ bin_entry' = "open"
    <2>1. \/ m' = [pc |-> "arm", call |-> c, todo |-> <<>>] /\ bin_entry' = "open" /\ UNCHANGED reports
          \/ /\ Printing(<<"ERROR">>, c) \/ Printing(<<"value", "OK">>, c) \/ Printing(<<"OK">>, c)
             /\ UNCHANGED <<bin_entry, reports>>
      BY Zenon DEF Take
    <2>2. CASE m' = [pc |-> "arm", call |-> c, todo |-> <<>>] /\ bin_entry' = "open" /\ UNCHANGED reports
      BY <2>2, <1>3
    <2>3. CASE /\ Printing(<<"ERROR">>, c) \/ Printing(<<"value", "OK">>, c) \/ Printing(<<"OK">>, c)
               /\ UNCHANGED <<bin_entry, reports>>
      BY <2>3, <1>3, <1>4, PrintingType
    <2> QED BY <2>1, <2>2, <2>3
  <1>6. UNCHANGED <<calls, th, shared, record, typed, wire, junk, took, bounds>>
    BY DEF Take
  <1> HIDE DEF c
  <1>7. TypeOK'
    BY <1>2, <1>5, <1>6 DEF TypeOK, shared, record, bounds
  <1>8. ModuleInv'
    BY <1>5 DEF ModuleInv
  <1> QED BY <1>7, <1>8

LEMMA EmitType ==
  ASSUME TypeOK, NEW line \in AnyLine, Emit(line)
  PROVE  wire' \in Seq(AnyLine)
  BY DEF Emit, TypeOK

LEMMA ModuleType ==
  ASSUME TypeOK, ModuleInv, Module
  PROVE  TypeOK' /\ ModuleInv'
  <1> USE DEF shared, record, bounds, lines
  <1> DEFINE C == [pc : {"idle", "off", "arm", "entry", "print"}, call : Numbers, todo : Seq(AnyLine)]
  <1>0. m \in C
    BY DEF TypeOK
  <1>1. CASE PromptHost
    <2>1. m' \in C /\ m'.pc = "entry" /\ m'.todo = <<>>
      BY <1>0, <1>1 DEF PromptHost, ModuleInv
    <2>2. wire' \in Seq(AnyLine)
      BY <1>0, <1>1, EmitType DEF PromptHost, AnyLine, Line
    <2>3. TypeOK'
      BY <1>1, <2>1, <2>2 DEF PromptHost, TypeOK
    <2> QED BY <1>1, <2>1, <2>3 DEF PromptHost, ModuleInv
  <1>2. CASE EntryEnds
    <2>1. \/ Printing(<<"SEQ", "OK">>, m.call) \/ Printing(<<"ERROR">>, m.call)
      BY <1>2 DEF EntryEnds, SendUnicast
    <2>2. m' \in C /\ m'.pc = "print" /\ m'.todo # <<>>
      BY <1>0, <2>1, PrintingType
    <2>3. reports' = reports \/ reports' = reports \cup {m.call}
      BY <1>2 DEF EntryEnds, SendUnicast
    <2>4. TypeOK'
      BY <1>0, <1>2, <2>2, <2>3 DEF EntryEnds, TypeOK
    <2> QED BY <1>2, <2>2, <2>4 DEF EntryEnds, ModuleInv
  <1>3. CASE PrintNext
    <2>1. m.todo \in Seq(AnyLine) /\ m.todo # <<>> /\ wire \in Seq(AnyLine)
      BY <1>0, <1>3 DEF PrintNext, ModuleInv, TypeOK
    <2>2. Head(m.todo) \in AnyLine /\ Tail(m.todo) \in Seq(AnyLine) /\ (Len(m.todo) > 1 => Tail(m.todo) # <<>>)
      BY <2>1, TailType
    <2>3. wire' \in Seq(AnyLine)
      BY <1>3, <2>2, EmitType DEF PrintNext
    <2>4. \/ m' = [m EXCEPT !.todo = Tail(@)] /\ Len(m.todo) > 1 /\ UNCHANGED <<lines, reports>>
          \/ TurnOff
          \/ m' = Idle /\ UNCHANGED <<lines, reports>>
      BY <1>3 DEF PrintNext
    <2>5. UNCHANGED <<calls, th, shared, record, typed, bounds>>
      BY <1>3 DEF PrintNext
    <2>6. m.pc = "print"
      BY <1>3 DEF PrintNext
    <2>7. CASE m' = [m EXCEPT !.todo = Tail(@)] /\ Len(m.todo) > 1 /\ UNCHANGED <<lines, reports>>
      <3>1. m' \in C /\ m'.pc = "print" /\ m'.todo # <<>>
        BY <1>0, <2>2, <2>6, <2>7
      <3>2. TypeOK'
        BY <2>3, <2>5, <2>7, <3>1 DEF TypeOK
      <3> QED BY <2>6, <2>7, <3>1, <3>2 DEF ModuleInv
    <2>8. CASE TurnOff
      <3>1. junk' \in BOOLEAN
        BY <2>8, Zenon DEF TurnOff
      <3>2. m' \in C /\ line_q' \in Seq([of : Numbers, whole : BOOLEAN]) /\ Len(line_q') <= LINE_Q_DEPTH
        BY <2>8, Constants DEF TurnOff, Off, Numbers
      <3>3. TypeOK'
        BY <2>3, <2>5, <2>8, <3>1, <3>2 DEF TypeOK, TurnOff
      <3> QED BY <2>8, <3>3 DEF TurnOff, ModuleInv, Off
    <2>9. CASE m' = Idle /\ UNCHANGED <<lines, reports>>
      <3>1. TypeOK'
        BY <2>3, <2>5, <2>9, Constants DEF TypeOK, Idle, Numbers
      <3> QED BY <2>6, <2>9, <3>1 DEF ModuleInv, Idle
    <2> QED BY <2>4, <2>7, <2>8, <2>9
  <1>4. CASE Boot
    <2>1. m = Off /\ m' = Idle /\ UNCHANGED <<calls, th, shared, record, wire, lines, reports, bounds>>
      BY <1>4 DEF Boot
    <2>2. typed' \in Seq(AnyChunk)
      <3>1. typed \in Seq(AnyChunk)
        BY DEF TypeOK, AnyChunk
      <3>2. CASE typed' = typed
        BY <3>1, <3>2
      <3>3. CASE typed # <<>> /\ typed' = [typed EXCEPT ![1].what = IF @ = "line" THEN "rest" ELSE "part"]
        <4>1. typed[1] \in AnyChunk
          BY <3>1, <3>3
        <4>2. \E w \in {"rest", "part"} : typed' = [typed EXCEPT ![1] = [typed[1] EXCEPT !.what = w]]
          BY <3>3
        <4>3. \A w \in {"rest", "part"} : [typed[1] EXCEPT !.what = w] \in AnyChunk
          BY <4>1 DEF AnyChunk
        <4> QED BY <3>1, <3>3, <4>2, <4>3, FirstType
      <3> QED BY <1>4, <3>2, <3>3 DEF Boot
    <2>3. TypeOK'
      BY <2>1, <2>2, Constants DEF TypeOK, AnyChunk, Idle, Numbers
    <2> QED BY <2>1, <2>3 DEF ModuleInv, Idle, Off
  <1>5. ASSUME NEW c \in reports, Report(c)
        PROVE  TypeOK' /\ ModuleInv'
    <2>1. Line("report", c) \in AnyLine
      BY DEF TypeOK, AnyLine, Line
    <2>2. wire' \in Seq(AnyLine) /\ printed' \in Seq(AnyLine)
      BY <1>5, <2>1 DEF Report, EmitPrompt, Emit, TypeOK
    <2> QED BY <1>5, <2>2 DEF Report, TypeOK, ModuleInv
  <1> QED BY <1>1, <1>2, <1>3, <1>4, <1>5, ReceiveType, TakeType DEF Module

LEMMA PromptType ==
  ASSUME TypeOK, NEW what \in Unasked, Prompt(what)
  PROVE  TypeOK'
  <1>1. Line(what, 0) \in AnyLine
    BY Constants DEF AnyLine, Line, Numbers
  <1>2. wire' \in Seq(AnyLine) /\ printed' \in Seq(AnyLine)
    BY <1>1 DEF Prompt, EmitPrompt, Emit, TypeOK
  <1>3. prompts' \in 0..MaxPrompts
    BY Constants DEF Prompt, TypeOK
  <1> QED BY <1>2, <1>3 DEF Prompt, TypeOK, shared, record, module, lines

LEMMA NextType == TypeOK /\ ModuleInv /\ [Next]_vars => TypeOK' /\ ModuleInv'
  <1> SUFFICES ASSUME TypeOK, ModuleInv, [Next]_vars PROVE TypeOK' /\ ModuleInv'
    OBVIOUS
  <1> USE DEF shared, record, lines, module, bounds
  <1>1. ASSUME NEW t \in Threads, HostStep(t) PROVE TypeOK' /\ ModuleInv'
    <2>1. UNCHANGED <<m, bin_entry>>
      BY <1>1 DEF HostStep, Send, NextLine, TimesOut, End, Found, GiveUp
    <2> QED BY <1>1, <2>1, HostStepType DEF ModuleInv
  <1>2. ASSUME NEW t \in Threads, NEW op \in Ops[t], Start(t, op) PROVE TypeOK' /\ ModuleInv'
    <2>1. UNCHANGED <<m, bin_entry>>
      BY <1>2 DEF Start
    <2> QED BY <1>2, <2>1, StartType DEF ModuleInv
  <1>3. CASE Host
    <2>1. UNCHANGED <<m, bin_entry>>
      BY <1>3 DEF Host, Read, OnLine, GetEvent
    <2> QED BY <1>3, <2>1, ReaderType DEF ModuleInv
  <1>4. CASE Module
    BY <1>4, ModuleType
  <1>5. ASSUME NEW what \in Unasked, Prompt(what) PROVE TypeOK' /\ ModuleInv'
    <2>1. UNCHANGED <<m, bin_entry>>
      BY <1>5 DEF Prompt
    <2> QED BY <1>5, <2>1, PromptType DEF ModuleInv
  <1>6. CASE UNCHANGED vars
    BY <1>6 DEF vars, TypeOK, ModuleInv
  <1> QED BY <1>1, <1>2, <1>3, <1>4, <1>5, <1>6 DEF Next

LEMMA SeqOfMore ==
  ASSUME NEW S, NEW T, S \subseteq T
  PROVE  Seq(S) \subseteq Seq(T)
  OBVIOUS

-----------------------------------------------------------------------------
(* What each step of a caller leaves in its hand and in those of the others.*)

LEMMA BeginHand ==
  ASSUME TypeOK, NEW t \in Threads, NEW op \in AnyOp, Begin(t, op)
  PROVE  /\ \A u \in Threads \ {t} : th'[u] = th[u]
         /\ th'[t].pc = "lock" /\ th'[t].call = Len(calls) + 1 /\ th'[t].mark = Len(history)
         /\ th'[t].got = NoLine /\ th'[t].end = NoLine /\ ~th'[t].fresh
         /\ Len(calls') = Len(calls) + 1 /\ \A c \in 1..Len(calls) : calls'[c] = calls[c]
         /\ calls'[Len(calls) + 1] = op
  BY DEF Begin, TypeOK, InHand

LEMMA ReturnHand ==
  ASSUME TypeOK, NEW t \in Threads, Return(t)
  PROVE  /\ \A u \in Threads \ {t} : th'[u] = th[u]
         /\ th'[t].pc = "idle"
  BY DEF Return, TypeOK, InHand

LEMMA WriteHand ==
  ASSUME TypeOK, NEW t \in Threads, NEW what \in {"line", "bytes"}, NEW now \in [Threads -> AnyInHand],
         WriteOrFail(t, what, now)
  PROVE  /\ \A u \in Threads \ {t} : th'[u] = now[u]
         /\ th'[t].call = now[t].call /\ th'[t].mark = now[t].mark /\ th'[t].fresh = now[t].fresh
         /\ th'[t].got = now[t].got
         /\ \/ /\ typed' = Append(typed, [what |-> what, of |-> th[t].call])
               /\ th'[t].pc = IF what = "line" /\ Op(t) = "bin" THEN "prompt" ELSE "collect"
               /\ th'[t].end = now[t].end
            \/ typed' = typed /\ th'[t].pc = "end" /\ th'[t].end = Timeout
  <1>1. now[t] \in AnyInHand
    OBVIOUS
  <1>2. CASE /\ typed' = Append(typed, [what |-> what, of |-> th[t].call])
             /\ th' = [now EXCEPT ![t].pc = IF what = "line" /\ Op(t) = "bin" THEN "prompt" ELSE "collect"]
    BY <1>1, <1>2 DEF AnyInHand
  <1>3. CASE typed' = typed /\ th' = [now EXCEPT ![t].pc = "end", ![t].end = Timeout]
    BY <1>1, <1>3 DEF AnyInHand
  <1> QED BY <1>2, <1>3 DEF WriteOrFail

LEMMA SendHand ==
  ASSUME TypeOK, NEW t \in Threads, Send(t)
  PROVE  /\ \A u \in Threads \ {t} : th'[u] = th[u]
         /\ th'[t].call = th[t].call /\ th'[t].mark = th[t].mark /\ th'[t].fresh = Quiet
         /\ th'[t].got = th[t].got
         /\ \/ /\ typed' = Append(typed, [what |-> "line", of |-> th[t].call])
               /\ th'[t].pc = IF Op(t) = "bin" THEN "prompt" ELSE "collect"
               /\ th'[t].end = th[t].end
            \/ typed' = typed /\ th'[t].pc = "end" /\ th'[t].end = Timeout
  <1> DEFINE now == [th EXCEPT ![t].fresh = Quiet]
  <1>1. th[t] \in AnyInHand /\ th \in [Threads -> AnyInHand]
    BY DEF TypeOK
  <1>2. [th[t] EXCEPT !.fresh = Quiet] \in AnyInHand
    BY <1>1, FreshType, QuietBoolean
  <1>3. now \in [Threads -> AnyInHand]
    BY <1>1, <1>2
  <1>4. /\ \A u \in Threads \ {t} : now[u] = th[u]
        /\ now[t].call = th[t].call /\ now[t].mark = th[t].mark
        /\ now[t].got = th[t].got /\ now[t].end = th[t].end
    BY <1>1 DEF AnyInHand
  <1>5. now[t].fresh = Quiet
    <2>1. now[t] = [th[t] EXCEPT !.fresh = Quiet]
      BY <1>1
    <2>2. \A b : [th[t] EXCEPT !.fresh = b].fresh = b
      BY <1>1 DEF AnyInHand
    <2> HIDE DEF now
    <2> QED BY <2>1, <2>2, Zenon
  <1>6. WriteOrFail(t, "line", now)
    BY DEF Send
  <1> HIDE DEF now
  <1> QED BY <1>3, <1>4, <1>5, <1>6, WriteHand

LEMMA NextLineHand ==
  ASSUME TypeOK, NEW t \in Threads, NextLine(t)
  PROVE  /\ \A u \in Threads \ {t} : th'[u] = th[u]
         /\ th'[t].call = th[t].call /\ th'[t].mark = th[t].mark /\ th'[t].fresh = th[t].fresh
         /\ Head(resp) \in AnyLine /\ resp' = Tail(resp) /\ resp # <<>>
         /\ \/ /\ typed' = typed /\ th'[t].pc = "end" /\ th'[t].end = Head(resp)
               /\ Head(resp).what = "ERROR" \/ (Head(resp).what = "OK" /\ At(t, "collect"))
               /\ th'[t].got = th[t].got
            \/ /\ typed' = typed /\ th'[t].pc = th[t].pc /\ th'[t].end = th[t].end
               /\ At(t, "collect") /\ Head(resp).what \notin {"OK", "ERROR"}
               /\ th'[t].got = Kept(t, Head(resp))
            \/ /\ typed' = Append(typed, [what |-> "bytes", of |-> th[t].call])
               /\ At(t, "prompt") /\ th'[t].pc = "collect" /\ th'[t].end = th[t].end
               /\ th'[t].got = th[t].got
            \/ /\ typed' = typed /\ th'[t].pc = "end" /\ th'[t].end = Timeout
               /\ th'[t].got = th[t].got
            \/ typed' = typed /\ th' = th
  <1>1. th[t] \in AnyInHand /\ th \in [Threads -> AnyInHand]
    BY DEF TypeOK
  <1>2. Head(resp) \in AnyLine /\ resp' = Tail(resp) /\ resp # <<>>
    BY TailType DEF NextLine, TypeOK
  <1> DEFINE line == Head(resp)
  <1>3. CASE /\ line.what = "ERROR" \/ (line.what = "OK" /\ At(t, "collect"))
             /\ th' = [th EXCEPT ![t].pc = "end", ![t].end = line]
             /\ UNCHANGED typed
    BY <1>1, <1>2, <1>3 DEF AnyInHand
  <1>4. CASE /\ line.what \notin {"OK", "ERROR"} /\ At(t, "collect")
             /\ th' = [th EXCEPT ![t].got = Kept(t, line)]
             /\ UNCHANGED typed
    BY <1>1, <1>2, <1>4 DEF AnyInHand
  <1>5. CASE line.what = ">" /\ At(t, "prompt") /\ WriteOrFail(t, "bytes", th)
    BY <1>1, <1>2, <1>5, WriteHand
  <1>6. CASE line.what \notin {">", "ERROR"} /\ At(t, "prompt") /\ UNCHANGED <<typed, th>>
    BY <1>1, <1>2, <1>6
  <1> QED BY <1>3, <1>4, <1>5, <1>6 DEF NextLine

LEMMA TimesOutHand ==
  ASSUME TypeOK, NEW t \in Threads, TimesOut(t)
  PROVE  /\ \A u \in Threads \ {t} : th'[u] = th[u]
         /\ th'[t].call = th[t].call /\ th'[t].mark = th[t].mark /\ th'[t].fresh = th[t].fresh
         /\ th'[t].got = th[t].got /\ th'[t].pc = "end" /\ th'[t].end = Timeout
  <1>1. th[t] \in AnyInHand /\ th \in [Threads -> AnyInHand]
    BY DEF TypeOK
  <1> QED BY <1>1 DEF TimesOut, AnyInHand

LEMMA WaitHand ==
  ASSUME TypeOK, NEW t \in Threads, WaitFor(t)
  PROVE  /\ \A u \in Threads \ {t} : th'[u] = th[u]
         /\ th'[t].call = th[t].call /\ th'[t].mark = th[t].mark /\ th'[t].fresh = th[t].fresh
         /\ th'[t].got = th[t].got /\ th'[t].pc = "wait"
  <1>1. th[t] \in AnyInHand /\ th \in [Threads -> AnyInHand]
    BY DEF TypeOK
  <1> QED BY <1>1 DEF WaitFor, Set, AnyInHand

\* A thread begins its next command, returns, or goes on with the command it has.
LEMMA HostMoves ==
  ASSUME TypeOK, NEW t \in Threads, HostStep(t)
  PROVE  /\ \A u \in Threads \ {t} : th'[u] = th[u]
         /\ th[t].pc # "idle"
         /\ \/ Begin(t, "ready") /\ th[t].pc = "end"
            \/ Return(t) /\ UNCHANGED calls
            \/ /\ th'[t].call = th[t].call /\ th'[t].mark = th[t].mark
               /\ th'[t].pc \notin {"idle", "lock"} /\ UNCHANGED calls
  <1>1. CASE Send(t)
    BY <1>1, SendHand DEF Send, At
  <1>2. CASE NextLine(t)
    BY <1>2, NextLineHand DEF NextLine, At
  <1>3. CASE TimesOut(t)
    BY <1>3, TimesOutHand DEF TimesOut, At
  <1>4. CASE End(t)
    <2>1. CASE Begin(t, "ready")
      BY <1>4, <2>1, BeginHand DEF End, At, AnyOp
    <2>2. CASE WaitFor(t) /\ UNCHANGED calls
      BY <1>4, <2>2, WaitHand DEF End, At
    <2>3. CASE Return(t) /\ UNCHANGED calls
      BY <1>4, <2>3, ReturnHand DEF End, At
    <2> QED BY <1>4, <2>1, <2>2, <2>3 DEF End
  <1>5. CASE Found(t) \/ GiveUp(t)
    BY <1>5, ReturnHand DEF Found, GiveUp, At
  <1> QED BY <1>1, <1>2, <1>3, <1>4, <1>5 DEF HostStep

-----------------------------------------------------------------------------
(* What a step of a caller does to the calls, whichever step it is.         *)

LEMMA StartMoves ==
  ASSUME TypeOK, NEW t \in Threads, NEW op \in Ops[t], Start(t, op)
  PROVE  Begin(t, op) /\ op \in AnyOp /\ th[t].pc = "idle"
  BY Constants DEF Start, At

\* A step of a host's thread leaves the commands it knows in order.
LEMMA HandStep ==
  ASSUME TypeOK, HandInv, NEW t \in Threads,
         HostStep(t) \/ \E op \in Ops[t] : Start(t, op)
  PROVE  HandInv' /\ Sent \subseteq Sent'
  <1>0. Len(calls) \in Nat
    BY DEF TypeOK
  <1>1. ASSUME NEW op \in AnyOp, Begin(t, op) PROVE HandInv' /\ Sent \subseteq Sent'
    <2>1. /\ \A u \in Threads \ {t} : th'[u] = th[u]
          /\ th'[t].pc = "lock" /\ th'[t].call = Len(calls) + 1
          /\ Len(calls') = Len(calls) + 1
      BY <1>1, BeginHand
    <2>2. HandInv'
      BY <1>0, <2>1 DEF HandInv
    <2>3. Sent \subseteq Sent'
      BY <1>0, <2>1 DEF Sent
    <2> QED BY <2>2, <2>3
  <1>2. CASE Return(t) /\ UNCHANGED calls
    BY <1>2, ReturnHand DEF HandInv, Sent
  <1>3. CASE /\ th'[t].call = th[t].call
             /\ th'[t].pc \notin {"idle", "lock"} /\ UNCHANGED calls
             /\ \A u \in Threads \ {t} : th'[u] = th[u]
             /\ th[t].pc # "idle"
    BY <1>3 DEF HandInv, Sent
  <1> QED BY <1>1, <1>2, <1>3, HostMoves, StartMoves DEF AnyOp

\* The number of a command that is sent from the lock on is one that is sent then.
LEMMA NowSent ==
  ASSUME TypeOK, HandInv, NEW t \in Threads, HostStep(t), th'[t].pc # "idle", th'[t].pc # "lock"
  PROVE  th[t].call \in Sent' /\ th'[t].call = th[t].call
  <1>1. /\ \A u \in Threads \ {t} : th'[u] = th[u]
        /\ th[t].pc # "idle" /\ th'[t].call = th[t].call /\ UNCHANGED calls
    BY HostMoves, ReturnHand, BeginHand DEF AnyOp
  <1> QED BY <1>1 DEF HandInv, Sent

LEMMA SentLineMore ==
  ASSUME Sent \subseteq Sent'
  PROVE  SentLine \subseteq SentLine'
  BY DEF SentLine, AnyLine, Numbers

LEMMA OthersStay ==
  ASSUME SentInv, Sent \subseteq Sent',
         UNCHANGED <<wire, rx, line_q, m, took, reports, history>>,
         typed' \in Seq([what : {"line", "bytes", "rest", "part"}, of : Sent'])
  PROVE  SentInv'
  <1>1. SentLine \subseteq SentLine'
    BY SentLineMore
  <1>2. Seq(SentLine) \subseteq Seq(SentLine')
    BY <1>1, SeqOfMore
  <1>3. [of : Sent, whole : BOOLEAN] \subseteq [of : Sent', whole : BOOLEAN]
    OBVIOUS
  <1>4. line_q' \in Seq([of : Sent', whole : BOOLEAN])
    BY <1>3, SeqOfMore DEF SentInv
  <1> QED BY <1>1, <1>2, <1>4 DEF SentInv

LEMMA TypedMore ==
  ASSUME SentInv, Sent \subseteq Sent'
  PROVE  typed \in Seq([what : {"line", "bytes", "rest", "part"}, of : Sent'])
  <1>1. [what : {"line", "bytes", "rest", "part"}, of : Sent] \subseteq [what : {"line", "bytes", "rest", "part"}, of : Sent']
    OBVIOUS
  <1> QED BY <1>1, SeqOfMore DEF SentInv

LEMMA HostSent ==
  ASSUME TypeOK, HandInv, SentInv, NEW t \in Threads,
         HostStep(t) \/ \E op \in Ops[t] : Start(t, op)
  PROVE  SentInv'
  <1> USE DEF record, module, lines
  <1>1. Sent \subseteq Sent'
    BY HandStep
  <1>2. typed \in Seq([what : {"line", "bytes", "rest", "part"}, of : Sent'])
    BY <1>1, TypedMore
  <1>3. UNCHANGED <<wire, rx, line_q, m, took, reports, history>>
    BY DEF HostStep, Start, Send, NextLine, TimesOut, End, Found, GiveUp
  <1>4. CASE UNCHANGED typed
    BY <1>1, <1>2, <1>3, <1>4, OthersStay
  <1>5. ASSUME NEW what \in {"line", "bytes"}, typed' = Append(typed, [what |-> what, of |-> th[t].call]),
               th[t].call \in Sent'
        PROVE  SentInv'
    <2> DEFINE C == [what : {"line", "bytes", "rest", "part"}, of : Sent']
               chunk == [what |-> what, of |-> th[t].call]
    <2>1. chunk \in C
      BY <1>5
    <2>2. typed' \in Seq(C)
      <3>1. typed \in Seq(C) /\ typed' = Append(typed, chunk)
        BY <1>2, <1>5
      <3> HIDE DEF C, chunk
      <3> QED BY <2>1, <3>1
    <2> QED BY <1>1, <1>3, <2>2, OthersStay
  <1>6. CASE Send(t)
    <2>1. \/ UNCHANGED typed
          \/ typed' = Append(typed, [what |-> "line", of |-> th[t].call]) /\ th'[t].pc \in {"prompt", "collect"}
      BY <1>6, SendHand
    <2> QED BY <2>1, <1>4, <1>5, <1>6, NowSent DEF HostStep
  <1>7. CASE NextLine(t)
    <2>1. \/ UNCHANGED typed
          \/ typed' = Append(typed, [what |-> "bytes", of |-> th[t].call]) /\ th'[t].pc = "collect"
      BY <1>7, NextLineHand
    <2> QED BY <2>1, <1>4, <1>5, <1>7, NowSent DEF HostStep
  <1>8. UNCHANGED typed \/ Send(t) \/ NextLine(t)
    BY DEF HostStep, Start, TimesOut, End, Found, GiveUp
  <1> QED BY <1>4, <1>6, <1>7, <1>8

-----------------------------------------------------------------------------
(* Every step keeps SentInv: nothing is about a command not yet sent.      *)

LEMMA SameSent == UNCHANGED <<calls, th>> => Sent' = Sent /\ SentLine' = SentLine
  BY DEF Sent, SentLine, AnyLine, Numbers

LEMMA ReaderSent ==
  ASSUME TypeOK, SentInv, Host
  PROVE  SentInv'
  <1> USE DEF module, lines
  <1>1. Sent' = Sent /\ SentLine' = SentLine /\ UNCHANGED <<m, lines, reports, typed>>
    BY SameSent DEF Host, Read, OnLine, GetEvent
  <1>2. NoLine \in SentLine
    BY NoLineType DEF NoLine, SentLine, Line
  <1>3. wire' \in Seq(SentLine) /\ rx'.line \in SentLine /\ history' \in Seq(SentLine)
    <2>1. wire \in Seq(SentLine) /\ rx.line \in SentLine /\ history \in Seq(SentLine)
      BY DEF SentInv
    <2>2. CASE Read
      BY <2>1, <2>2, TailType DEF Read
    <2>3. CASE OnLine
      <3>1. history' = history \/ history' = Append(history, rx.line)
        BY <2>3 DEF OnLine, SortLine
      <3>2. rx'.line = NoLine
        BY <2>3 DEF OnLine, RxIdle
      <3>3. Append(history, rx.line) \in Seq(SentLine)
        BY <2>1
      <3> QED BY <1>2, <2>1, <2>3, <3>1, <3>2, <3>3 DEF OnLine
    <2>4. CASE GetEvent
      BY <2>1, <2>4 DEF GetEvent
    <2> QED BY <2>2, <2>3, <2>4 DEF Host
  <1> QED BY <1>1, <1>3 DEF SentInv

LEMMA LineSent ==
  ASSUME TypeOK, NEW c \in Sent, NEW what \in {"echo", "piece", ">", "value", "SEQ", "OK", "ERROR", "report"}
  PROVE  Line(what, c) \in SentLine
  <1>1. c \in Numbers
    BY Constants DEF Sent, TypeOK, Numbers
  <1> QED BY <1>1 DEF SentLine, AnyLine, Line

LEMMA AnswersSent ==
  ASSUME TypeOK, NEW what, NEW c \in Sent, Printing(what, c),
         what \in {<<"SEQ", "OK">>, <<"ERROR">>, <<"value", "OK">>, <<"OK">>}
  PROVE  m'.todo \in Seq(SentLine) /\ m'.call = c
  <1>1. \A k \in 1..Len(what) : Line(what[k], c) \in SentLine
    BY LineSent
  <1>2. Len(what) \in Nat
    OBVIOUS
  <1> QED BY <1>1, <1>2 DEF Answers, Printing

LEMMA QueuedSent ==
  ASSUME SentInv, NEW of \in Sent, NEW whole \in BOOLEAN, Queued(of, whole)
  PROVE  line_q' \in Seq([of : Sent, whole : BOOLEAN])
  <1> DEFINE L == [of : Sent, whole : BOOLEAN]
             l == [of |-> of, whole |-> whole]
  <1>1. line_q \in Seq(L)
    BY DEF SentInv
  <1>2. l \in L
    OBVIOUS
  <1>3. line_q' = Append(line_q, l) \/ line_q' = line_q
    BY DEF Queued
  <1> HIDE DEF L, l
  <1>4. line_q' \in Seq(L)
    BY <1>1, <1>2, <1>3
  <1> QED BY <1>4 DEF L

LEMMA ReceiveSent ==
  ASSUME TypeOK, ModuleInv, SentInv, Receive
  PROVE  SentInv'
  <1> USE DEF record, bounds
  <1> DEFINE C == [what : {"line", "bytes", "rest", "part"}, of : Sent]
             msg == Head(typed)
  <1>1. typed \in Seq(C) /\ typed # <<>> /\ typed' = Tail(typed)
    BY DEF Receive, SentInv
  <1>2. typed' \in Seq(C) /\ msg \in C
    <2> HIDE DEF C
    <2> QED BY <1>1
  <1>3. msg.of \in Sent
    BY <1>2
  <1>4. Sent' = Sent /\ SentLine' = SentLine /\ UNCHANGED <<m, reports, rx, history>>
    BY SameSent DEF Receive
  <1> HIDE DEF C, msg
  <1>5. /\ wire' \in Seq(SentLine) /\ line_q' \in Seq([of : Sent, whole : BOOLEAN])
        /\ \A c \in 1..MaxCalls : took'[c] # 0 => c \in Sent
    <2>0. wire \in Seq(SentLine) /\ line_q \in Seq([of : Sent, whole : BOOLEAN])
          /\ \A c \in 1..MaxCalls : took[c] # 0 => c \in Sent
      BY DEF SentInv
    <2>1. CASE UNCHANGED <<wire, lines>>
      BY <2>0, <2>1 DEF lines
    <2>2. CASE bin_entry = "open" /\ ToEntry(msg)
      <3>1. \A c \in 1..MaxCalls : took'[c] # 0 => c \in Sent
        <4>1. took' = [took EXCEPT ![m.call] = m.call] \/ took' = [took EXCEPT ![m.call] = -1]
          BY <2>2 DEF ToEntry
        <4>2. m.call \in Sent
          BY <2>2 DEF ModuleInv, SentInv, Busy
        <4>3. took \in [1..MaxCalls -> Numbers \cup {-1}]
          BY DEF TypeOK
        <4> QED BY <2>0, <4>1, <4>2, <4>3
      <3>2. UNCHANGED line_q \/ Queued(msg.of, FALSE)
        BY <2>2, Zenon DEF ToEntry
      <3>3. line_q' \in Seq([of : Sent, whole : BOOLEAN])
        BY <1>3, <2>0, <3>2, QueuedSent
      <3>4. wire' = wire
        BY <2>2, Zenon DEF ToEntry
      <3> QED BY <2>0, <3>1, <3>3, <3>4
    <2>3. CASE ToLine(msg)
      <3>1. wire' \in Seq(SentLine)
        <4>1. wire' = Append(wire, Line("echo", msg.of)) \/ wire' = Append(wire, Line("piece", msg.of))
          BY <2>3, Zenon DEF ToLine
        <4>2. Line("echo", msg.of) \in SentLine /\ Line("piece", msg.of) \in SentLine
          BY <1>3, LineSent
        <4> QED BY <2>0, <4>1, <4>2
      <3>2. line_q' = line_q \/ Queued(msg.of, msg.what = "line" /\ ~junk)
        BY <2>3, Zenon DEF ToLine
      <3>3. (msg.what = "line" /\ ~junk) \in BOOLEAN
        BY Zenon
      <3>4. line_q' \in Seq([of : Sent, whole : BOOLEAN])
        BY <1>3, <2>0, <3>2, <3>3, QueuedSent
      <3>5. took' = took
        BY <2>3, Zenon DEF ToLine
      <3> QED BY <2>0, <3>1, <3>4, <3>5
    <2> QED BY <2>1, <2>2, <2>3 DEF Receive, msg
  <1> QED BY <1>2, <1>4, <1>5 DEF SentInv, C

LEMMA TakeSent ==
  ASSUME TypeOK, ModuleInv, SentInv, Take
  PROVE  SentInv'
  <1> USE DEF record, bounds
  <1> DEFINE L == [of : Sent, whole : BOOLEAN]
             c == Head(line_q).of
  <1>1. line_q' \in Seq(L) /\ Head(line_q) \in L
    <2>1. line_q \in Seq(L) /\ line_q # <<>> /\ line_q' = Tail(line_q)
      BY DEF Take, SentInv
    <2> HIDE DEF L
    <2> QED BY <2>1
  <1>2. c \in Sent
    BY <1>1
  <1>3. Sent' = Sent /\ SentLine' = SentLine /\ UNCHANGED <<typed, took, rx, history, wire>>
    BY SameSent DEF Take
  <1>4. m'.todo \in Seq(SentLine) /\ m'.call \in Sent /\ reports' = reports
    <2>1. \/ m' = [pc |-> "arm", call |-> c, todo |-> <<>>] /\ UNCHANGED reports
          \/ /\ Printing(<<"ERROR">>, c) \/ Printing(<<"value", "OK">>, c) \/ Printing(<<"OK">>, c)
             /\ UNCHANGED reports
      BY Zenon DEF Take
    <2>2. CASE m' = [pc |-> "arm", call |-> c, todo |-> <<>>] /\ UNCHANGED reports
      BY <2>2, <1>2
    <2>3. CASE /\ Printing(<<"ERROR">>, c) \/ Printing(<<"value", "OK">>, c) \/ Printing(<<"OK">>, c)
               /\ UNCHANGED reports
      BY <2>3, <1>2, AnswersSent
    <2> QED BY <2>1, <2>2, <2>3
  <1> HIDE DEF c
  <1> QED BY <1>1, <1>3, <1>4 DEF SentInv

LEMMA EmitSent ==
  ASSUME SentInv, NEW line \in SentLine, Emit(line)
  PROVE  wire' \in Seq(SentLine)
  BY DEF SentInv, Emit

LEMMA ModuleSent ==
  ASSUME TypeOK, ModuleInv, SentInv, Module
  PROVE  SentInv'
  <1> USE DEF record, bounds, lines
  <1>0. Sent' = Sent /\ SentLine' = SentLine /\ UNCHANGED <<rx, history>>
    BY SameSent DEF Module, Receive, Take, PromptHost, EntryEnds, PrintNext, Boot, Report
  <1>1. CASE PromptHost
    <2>1. m.call \in Sent /\ m'.call = m.call /\ m'.todo = m.todo
      BY <1>1 DEF PromptHost, SentInv, Busy, TypeOK
    <2>2. wire' \in Seq(SentLine)
      BY <1>1, <2>1, LineSent, EmitSent DEF PromptHost
    <2> QED BY <1>0, <1>1, <2>1, <2>2 DEF PromptHost, SentInv
  <1>2. CASE EntryEnds
    <2>1. \/ Printing(<<"SEQ", "OK">>, m.call) \/ Printing(<<"ERROR">>, m.call)
      BY <1>2 DEF EntryEnds, SendUnicast
    <2>2. m.call \in Sent
      BY <1>2 DEF EntryEnds, SentInv, Busy
    <2>3. m'.todo \in Seq(SentLine) /\ m'.call = m.call
      BY <2>1, <2>2, AnswersSent
    <2>4. reports' = reports \/ reports' = reports \cup {m.call}
      BY <1>2 DEF EntryEnds, SendUnicast
    <2> QED BY <1>0, <1>2, <2>2, <2>3, <2>4 DEF EntryEnds, SentInv
  <1>3. CASE PrintNext
    <2>1. m.todo \in Seq(SentLine) /\ m.todo # <<>>
      BY <1>3 DEF PrintNext, ModuleInv, SentInv
    <2>2. Head(m.todo) \in SentLine /\ Tail(m.todo) \in Seq(SentLine)
      BY <2>1, TailType
    <2>3. wire' \in Seq(SentLine)
      BY <1>3, <2>2, EmitSent DEF PrintNext
    <2>4. \/ m' = [m EXCEPT !.todo = Tail(@)] /\ UNCHANGED <<lines, reports>>
          \/ TurnOff
          \/ m' = Idle /\ UNCHANGED <<lines, reports>>
      BY <1>3 DEF PrintNext
    <2>5. m'.todo \in Seq(SentLine) /\ (m'.pc \in Busy => m'.call = m.call /\ m.pc \in Busy)
      <3>1. CASE m' = [m EXCEPT !.todo = Tail(@)]
        BY <2>2, <3>1 DEF TypeOK
      <3>2. CASE m' = Off \/ m' = Idle
        <4>1. m'.todo = <<>> /\ m'.pc \notin Busy
          BY <3>2 DEF Off, Idle, Busy
        <4> QED BY <4>1
      <3>3. m' = [m EXCEPT !.todo = Tail(@)] \/ m' = Off \/ m' = Idle
        BY <2>4, Zenon DEF TurnOff
      <3> QED BY <3>1, <3>2, <3>3, Zenon
    <2>6. line_q' \in Seq([of : Sent, whole : BOOLEAN]) /\ took' = took /\ reports' \subseteq reports
      <3>1. CASE TurnOff
        BY <3>1 DEF TurnOff
      <3>2. CASE UNCHANGED <<lines, reports>>
        BY <3>2 DEF SentInv
      <3> QED BY <2>4, <3>1, <3>2, Zenon
    <2>7. UNCHANGED typed
      BY <1>3 DEF PrintNext
    <2> QED BY <1>0, <2>3, <2>5, <2>6, <2>7 DEF SentInv
  <1>4. CASE Boot
    <2> DEFINE C == [what : {"line", "bytes", "rest", "part"}, of : Sent]
    <2>1. m' = Idle /\ UNCHANGED <<wire, lines, reports>>
      BY <1>4 DEF Boot
    <2>2. typed' \in Seq(C)
      <3>1. typed \in Seq(C)
        BY DEF SentInv
      <3>2. CASE typed' = typed
        BY <3>1, <3>2
      <3>3. CASE typed # <<>> /\ typed' = [typed EXCEPT ![1].what = IF @ = "line" THEN "rest" ELSE "part"]
        <4>1. typed[1] \in C
          <5> HIDE DEF C
          <5>1. Len(typed) \in Nat /\ Len(typed) > 0
            BY <3>1, <3>3
          <5> QED BY <3>1, <5>1
        <4>2. \E w \in {"rest", "part"} : typed' = [typed EXCEPT ![1] = [typed[1] EXCEPT !.what = w]]
          BY <3>3
        <4>3. \A w \in {"rest", "part"} : [typed[1] EXCEPT !.what = w] \in C
          BY <4>1
        <4> HIDE DEF C
        <4> QED BY <3>1, <3>3, <4>2, <4>3, FirstType
      <3> QED BY <1>4, <3>2, <3>3 DEF Boot
    <2> QED BY <1>0, <2>1, <2>2 DEF SentInv, Idle, Busy
  <1>5. ASSUME NEW c \in reports, Report(c) PROVE SentInv'
    <2>1. Line("report", c) \in SentLine
      BY LineSent DEF SentInv
    <2>2. wire' \in Seq(SentLine)
      BY <1>5, <2>1, EmitSent DEF Report, EmitPrompt
    <2> QED BY <1>0, <1>5, <2>2 DEF Report, SentInv
  <1> QED BY <1>1, <1>2, <1>3, <1>4, <1>5, ReceiveSent, TakeSent DEF Module

LEMMA PromptSent ==
  ASSUME TypeOK, SentInv, NEW what \in Unasked, Prompt(what)
  PROVE  SentInv'
  <1>1. Sent' = Sent /\ SentLine' = SentLine
    BY SameSent DEF Prompt
  <1>2. Line(what, 0) \in SentLine
    BY Constants DEF AnyLine, SentLine, Line, Numbers
  <1>3. wire' \in Seq(SentLine)
    BY <1>2, EmitSent DEF Prompt, EmitPrompt
  <1> QED BY <1>1, <1>3 DEF Prompt, SentInv, record, module, lines

-----------------------------------------------------------------------------
(* Every step keeps MarkInv, and LockInv and HandInv.                      *)

LEMMA HistoryLines ==
  ASSUME TypeOK, SentInv, NEW i \in 1..Len(history)
  PROVE  history[i].of <= Len(calls)
  <1>1. history[i] \in SentLine
    BY DEF SentInv
  <1> QED BY <1>1 DEF SentLine, Sent, TypeOK

LEMMA HostLock ==
  ASSUME TypeOK, LockInv, NEW t \in Threads,
         HostStep(t) \/ \E op \in Ops[t] : Start(t, op)
  PROVE  LockInv'
  <1>0. t # "nobody" /\ cmd_lock \in Threads \cup {"nobody"} /\ "nobody" \notin Threads
    BY Constants DEF TypeOK
  <1>1. CASE Send(t)
    <2>1. \A u \in Threads \ {t} : th'[u] = th[u]
      BY <1>1, SendHand
    <2>2. th'[t].pc \in {"prompt", "collect", "end"}
      BY <1>1, SendHand
    <2>3. cmd_lock = "nobody" /\ cmd_lock' = t
      BY <1>1 DEF Send, LockFree
    <2> QED BY <1>0, <2>1, <2>2, <2>3 DEF LockInv
  <1>2. CASE NextLine(t)
    <2>1. \A u \in Threads \ {t} : th'[u] = th[u]
      BY <1>2, NextLineHand
    <2>2. th'[t].pc \in {"prompt", "collect", "end"} /\ th[t].pc \in {"prompt", "collect"}
      BY <1>2, NextLineHand DEF NextLine, At
    <2>3. cmd_lock' = cmd_lock
      BY <1>2 DEF NextLine
    <2> QED BY <1>0, <2>1, <2>2, <2>3 DEF LockInv
  <1>3. CASE TimesOut(t)
    <2>1. /\ \A u \in Threads \ {t} : th'[u] = th[u]
          /\ th'[t].pc = "end" /\ th[t].pc \in {"prompt", "collect"} /\ cmd_lock' = cmd_lock
      BY <1>3, TimesOutHand DEF TimesOut, At, shared
    <2> QED BY <1>0, <2>1 DEF LockInv
  <1>4. CASE End(t)
    <2>1. cmd_lock = t /\ cmd_lock' = "nobody"
      BY <1>4 DEF End, LockInv, At
    <2>2. CASE Begin(t, "ready")
      BY <1>0, <2>1, <2>2, BeginHand DEF LockInv, AnyOp
    <2>3. CASE WaitFor(t)
      BY <1>0, <2>1, <2>3, WaitHand DEF LockInv
    <2>4. CASE Return(t)
      BY <1>0, <2>1, <2>4, ReturnHand DEF LockInv
    <2> QED BY <1>4, <2>2, <2>3, <2>4 DEF End
  <1>5. CASE Found(t) \/ GiveUp(t)
    <2>1. th[t].pc = "wait" /\ Return(t) /\ UNCHANGED cmd_lock
      BY <1>5 DEF Found, GiveUp, At, shared
    <2> QED BY <1>0, <2>1, ReturnHand DEF LockInv
  <1>6. ASSUME NEW op \in Ops[t], Start(t, op) PROVE LockInv'
    <2>1. UNCHANGED cmd_lock
      BY <1>6 DEF Start, shared
    <2> QED BY <1>0, <1>6, <2>1, StartMoves, BeginHand DEF LockInv
  <1> QED BY <1>1, <1>2, <1>3, <1>4, <1>5, <1>6 DEF HostStep

LEMMA HostMark ==
  ASSUME TypeOK, SentInv, HandInv, MarkInv, NEW t \in Threads,
         HostStep(t) \/ \E op \in Ops[t] : Start(t, op)
  PROVE  MarkInv'
  <1>0. UNCHANGED history
    BY DEF HostStep, Start, Send, NextLine, TimesOut, End, Found, GiveUp, record
  <1>1. ASSUME NEW op \in AnyOp, Begin(t, op) PROVE MarkInv'
    <2>1. /\ \A u \in Threads \ {t} : th'[u] = th[u]
          /\ th'[t].call = Len(calls) + 1 /\ th'[t].mark = Len(history)
      BY <1>1, BeginHand
    <2>2. \A i \in 1..Len(history) : history[i].of < Len(calls) + 1
      <3> SUFFICES ASSUME NEW i \in 1..Len(history) PROVE history[i].of < Len(calls) + 1
        OBVIOUS
      <3>1. history[i] \in AnyLine /\ Len(calls) \in Nat
        BY DEF TypeOK
      <3>2. history[i].of \in Nat
        BY <3>1, Constants DEF AnyLine, Numbers
      <3>3. history[i].of <= Len(calls)
        BY HistoryLines
      <3> QED BY <3>1, <3>2, <3>3
    <2>3. Len(history) \in Nat
      BY DEF TypeOK
    <2> QED BY <1>0, <2>1, <2>2, <2>3 DEF MarkInv
  <1>2. CASE Return(t)
    BY <1>0, <1>2, ReturnHand DEF MarkInv
  <1>3. CASE /\ th'[t].call = th[t].call /\ th'[t].mark = th[t].mark
             /\ \A u \in Threads \ {t} : th'[u] = th[u]
             /\ th[t].pc # "idle"
    BY <1>0, <1>3 DEF MarkInv
  <1> QED BY <1>1, <1>2, <1>3, HostMoves, StartMoves DEF AnyOp

\* Nobody else moves the threads, and the history only grows.
LEMMA MarkStays ==
  ASSUME TypeOK, MarkInv, UNCHANGED th,
         history' = history \/ \E line \in AnyLine : history' = Append(history, line)
  PROVE  MarkInv'
  <1>1. history \in Seq(AnyLine) /\ \A t \in Threads : th[t].mark \in Nat
    BY DEF TypeOK, AnyInHand
  <1>2. Len(history') >= Len(history) /\ \A i \in 1..Len(history) : history'[i] = history[i]
    BY <1>1
  <1> QED BY <1>1, <1>2 DEF MarkInv

-----------------------------------------------------------------------------
(* What a step does to the lines on their way.                             *)

LEMMA NoLineOwn == \A c : NoLine \in OwnLine(c) /\ Timeout \in OwnLine(c)
  BY NoLineType DEF OwnLine, Own, NoLine, Timeout, Line
LEMMA NoLinePlain == NoLine \in NoPiece /\ NoLine \in NotOK
  BY NoLineType DEF NoPiece, NotOK, NoLine, Line

LEMMA ReaderWithin ==
  ASSUME NEW L, Within(L), NoLine \in L, Host
  PROVE  Within(L)'
  <1> USE DEF Within, module, shared
  <1>1. CASE Read
    BY <1>1, TailType DEF Read
  <1>2. CASE OnLine
    <2>1. resp' = resp \/ resp' = Append(resp, rx.line)
      BY <1>2 DEF OnLine, SortLine
    <2>2. rx'.line = NoLine
      BY <1>2 DEF OnLine, RxIdle
    <2>3. Append(resp, rx.line) \in Seq(L)
      OBVIOUS
    <2> QED BY <1>2, <2>1, <2>2, <2>3 DEF OnLine
  <1>3. CASE GetEvent
    BY <1>3 DEF GetEvent
  <1> QED BY <1>1, <1>2, <1>3 DEF Host

LEMMA EmitWithin ==
  ASSUME NEW L, Within(L), NEW line \in L, Emit(line), m'.todo \in Seq(L), UNCHANGED <<resp, rx>>
  PROVE  Within(L)'
  BY DEF Within, Emit

LEMMA PrintWithin ==
  ASSUME NEW L, Within(L), TypeOK, ModuleInv, PrintNext
  PROVE  Within(L)'
  <1> USE DEF shared, record
  <1>1. m.todo \in Seq(L) /\ m.todo # <<>>
    BY DEF Within, PrintNext, ModuleInv
  <1>2. Head(m.todo) \in L /\ Tail(m.todo) \in Seq(L)
    BY <1>1, TailType
  <1>3. m' = [m EXCEPT !.todo = Tail(@)] \/ m' = Off \/ m' = Idle
    BY Zenon DEF PrintNext, TurnOff
  <1>4. m'.todo \in Seq(L)
    <2>1. CASE m' = [m EXCEPT !.todo = Tail(@)]
      BY <1>2, <2>1 DEF TypeOK
    <2>2. CASE m' = Off \/ m' = Idle
      <3>1. m'.todo = <<>>
        BY <2>2 DEF Off, Idle
      <3> QED BY <3>1
    <2> QED BY <1>3, <2>1, <2>2, Zenon
  <1>5. Emit(Head(m.todo)) /\ UNCHANGED <<resp, rx>>
    BY DEF PrintNext
  <1> QED BY <1>2, <1>4, <1>5, EmitWithin

LEMMA AnswersWithin ==
  ASSUME NEW L, NEW what, NEW c, Printing(what, c), Within(L), UNCHANGED <<wire, resp, rx>>,
         \/ what = <<"ERROR">> /\ Line("ERROR", c) \in L
         \/ what = <<"OK">> /\ Line("OK", c) \in L
         \/ what = <<"value", "OK">> /\ Line("value", c) \in L /\ Line("OK", c) \in L
         \/ what = <<"SEQ", "OK">> /\ Line("SEQ", c) \in L /\ Line("OK", c) \in L
  PROVE  Within(L)'
  <1>1. \A k \in 1..Len(what) : Line(what[k], c) \in L
    OBVIOUS
  <1>2. Len(what) \in Nat
    OBVIOUS
  <1>3. Answers(what, c) \in Seq(L)
    BY <1>1, <1>2 DEF Answers
  <1> QED BY <1>3 DEF Printing, Within

LEMMA LineOwn ==
  ASSUME NEW c \in Numbers, NEW what \in {"echo", "piece", ">", "value", "SEQ", "OK", "ERROR", "report"}
  PROVE  Line(what, c) \in AnyLine /\ Line(what, c) \in OwnLine(c)
  BY DEF OwnLine, AnyLine, Line, Own

LEMMA ReportAny ==
  ASSUME NEW k \in Numbers, NEW c
  PROVE  Line("report", k) \in OwnLine(c) /\ Line("report", k) \in NoPiece /\ Line("report", k) \in NotOK
  BY DEF OwnLine, AnyLine, Line, IsPrompt, NoPiece, NotOK

LEMMA PromptAny ==
  ASSUME NEW what \in Unasked, NEW c
  PROVE  Line(what, 0) \in OwnLine(c) /\ Line(what, 0) \in NoPiece /\ Line(what, 0) \in NotOK
  BY Constants, BoundsAssumption DEF OwnLine, AnyLine, Line, IsPrompt, NoPiece, NotOK, Numbers

-----------------------------------------------------------------------------
(* Whatever is on its way belongs to command c.                            *)

\* A byte or a line is taken, in the form its effects have on the lines.
LEMMA ReceiveKinds ==
  ASSUME TypeOK, ModuleInv, Receive
  PROVE  /\ typed # <<>> /\ typed' = Tail(typed) /\ UNCHANGED <<m, resp, rx, reports>>
         /\ \/ UNCHANGED <<wire, line_q, junk, bin_entry, took>> /\ m.pc = "off"
            \/ /\ bin_entry = "open" /\ ToEntry(Head(typed)) /\ UNCHANGED wire
               /\ m.pc \in {"arm", "entry"}
            \/ bin_entry # "open" /\ m.pc # "off" /\ ToLine(Head(typed))
  <1>1. /\ typed # <<>> /\ typed' = Tail(typed) /\ UNCHANGED <<m, resp, rx, reports>>
    BY DEF Receive, shared, record
  <1>2. CASE m = Off
    BY <1>1, <1>2 DEF Receive, lines, Off
  <1>3. CASE m # Off /\ bin_entry = "open"
    <2>1. ToEntry(Head(typed))
      BY <1>3 DEF Receive
    <2>2. UNCHANGED wire
      BY <2>1 DEF ToEntry
    <2> QED BY <1>1, <1>3, <2>1, <2>2 DEF ModuleInv
  <1>4. CASE m # Off /\ bin_entry # "open"
    <2>1. ToLine(Head(typed))
      BY <1>4 DEF Receive
    <2> QED BY <1>1, <1>4, <2>1 DEF ModuleInv
  <1> QED BY <1>2, <1>3, <1>4

LEMMA QueuedInFlight ==
  ASSUME NEW c, line_q \in Seq([of : {c}, whole : BOOLEAN]), NEW whole \in BOOLEAN, Queued(c, whole)
  PROVE  line_q' \in Seq([of : {c}, whole : BOOLEAN])
  <1> DEFINE L == [of : {c}, whole : BOOLEAN]
             l == [of |-> c, whole |-> whole]
  <1>1. line_q \in Seq(L)
    OBVIOUS
  <1>2. l \in L
    OBVIOUS
  <1>3. line_q' = Append(line_q, l) \/ line_q' = line_q
    BY DEF Queued
  <1> HIDE DEF L, l
  <1>4. line_q' \in Seq(L)
    BY <1>1, <1>2, <1>3
  <1> QED BY <1>4 DEF L

LEMMA ReceiveInFlight ==
  ASSUME TypeOK, ModuleInv, NEW c \in Numbers, InFlight(c), Receive
  PROVE  InFlight(c)'
  <1> DEFINE C == [what : {"line", "bytes", "rest", "part"}, of : {c}]
             msg == Head(typed)
  <1>1. typed \in Seq(C) /\ typed # <<>> /\ typed' = Tail(typed) /\ UNCHANGED <<m, resp, rx>>
    BY ReceiveKinds DEF InFlight
  <1>2. typed' \in Seq(C) /\ msg \in C
    <2> HIDE DEF C
    <2> QED BY <1>1
  <1>3. msg.of = c
    BY <1>2
  <1>4. line_q \in Seq([of : {c}, whole : BOOLEAN]) /\ Within(OwnLine(c))
    BY DEF InFlight
  <1> HIDE DEF C, msg
  <1>5. line_q' \in Seq([of : {c}, whole : BOOLEAN]) /\ Within(OwnLine(c))'
    <2>1. CASE UNCHANGED <<wire, line_q>>
      BY <1>1, <1>4, <2>1 DEF Within
    <2>2. CASE ToEntry(msg) /\ UNCHANGED wire
      <3>1. UNCHANGED line_q \/ Queued(msg.of, FALSE)
        BY <2>2, Zenon DEF ToEntry
      <3>2. line_q' \in Seq([of : {c}, whole : BOOLEAN])
        BY <1>3, <1>4, <3>1, QueuedInFlight
      <3> QED BY <1>1, <1>4, <2>2, <3>2 DEF Within
    <2>3. CASE ToLine(msg)
      <3>1. line_q' = line_q \/ Queued(msg.of, msg.what = "line" /\ ~junk)
        BY <2>3, Zenon DEF ToLine
      <3>2. (msg.what = "line" /\ ~junk) \in BOOLEAN
        BY Zenon
      <3>3. line_q' \in Seq([of : {c}, whole : BOOLEAN])
        BY <1>3, <1>4, <3>1, <3>2, QueuedInFlight
      <3>4. Emit(Line("echo", c)) \/ Emit(Line("piece", c))
        BY <1>3, <2>3, Zenon DEF ToLine, Emit
      <3>5. m'.todo \in Seq(OwnLine(c))
        BY <1>1, <1>4 DEF Within
      <3> QED BY <1>1, <1>4, <3>3, <3>4, <3>5, EmitWithin, LineOwn
    <2> QED BY <2>1, <2>2, <2>3, ReceiveKinds DEF msg
  <1> QED BY <1>1, <1>2, <1>5 DEF InFlight, C

LEMMA TakeKinds ==
  ASSUME TypeOK, ModuleInv, NEW c, line_q \in Seq([of : {c}, whole : BOOLEAN]), Take
  PROVE  /\ line_q # <<>> /\ line_q' = Tail(line_q)
         /\ m.pc = "idle" /\ bin_entry = "none"
         /\ UNCHANGED <<calls, wire, resp, rx, typed, junk, took, reports>>
         /\ \/ m' = [pc |-> "arm", call |-> c, todo |-> <<>>] /\ calls[c] = "bin" /\ bin_entry' = "open"
            \/ /\ Printing(<<"ERROR">>, c) /\ UNCHANGED bin_entry
            \/ /\ Printing(<<"value", "OK">>, c) /\ calls[c] = "read" /\ UNCHANGED bin_entry
            \/ /\ Printing(<<"OK">>, c) /\ calls[c] \in {"ready", "reset"} /\ UNCHANGED bin_entry
  <1>1. line_q # <<>> /\ line_q' = Tail(line_q) /\ m = Idle
        /\ UNCHANGED <<calls, wire, resp, rx, typed, junk, took>>
    BY DEF Take, shared, record
  <1>2. Head(line_q).of = c
    <2> DEFINE L == [of : {c}, whole : BOOLEAN]
    <2>1. Head(line_q) \in L
      <3> HIDE DEF L
      <3>1. line_q \in Seq(L)
        BY DEF L
      <3> QED BY <1>1, <3>1
    <2> QED BY <2>1
  <1>3. m.pc = "idle" /\ bin_entry = "none"
    BY <1>1 DEF Idle, ModuleInv
  <1>4. /\ UNCHANGED reports
        /\ \/ m' = [pc |-> "arm", call |-> c, todo |-> <<>>] /\ calls[c] = "bin" /\ bin_entry' = "open"
           \/ Printing(<<"ERROR">>, c) /\ UNCHANGED bin_entry
           \/ Printing(<<"value", "OK">>, c) /\ calls[c] = "read" /\ UNCHANGED bin_entry
           \/ Printing(<<"OK">>, c) /\ calls[c] \in {"ready", "reset"} /\ UNCHANGED bin_entry
    BY <1>2 DEF Take
  <1> QED BY <1>1, <1>3, <1>4

LEMMA ModuleInFlight ==
  ASSUME TypeOK, ModuleInv, NEW c \in Numbers, InFlight(c), Module
  PROVE  InFlight(c)'
  <1> USE DEF record, shared, lines
  <1>0. /\ typed \in Seq([what : {"line", "bytes", "rest", "part"}, of : {c}])
        /\ line_q \in Seq([of : {c}, whole : BOOLEAN])
        /\ Within(OwnLine(c)) /\ m.todo \in Seq(OwnLine(c))
    BY DEF InFlight, Within
  <1>1. CASE Take
    <2>1. line_q' \in Seq([of : {c}, whole : BOOLEAN])
      <3> DEFINE L == [of : {c}, whole : BOOLEAN]
      <3>1. line_q \in Seq(L) /\ line_q # <<>> /\ line_q' = Tail(line_q)
        BY <1>0, <1>1, TakeKinds
      <3> HIDE DEF L
      <3>2. line_q' \in Seq(L)
        BY <3>1
      <3> QED BY <3>2 DEF L
    <2>2. m'.call = c /\ Within(OwnLine(c))'
      <3>1. CASE m' = [pc |-> "arm", call |-> c, todo |-> <<>>]
        <4>1. m'.todo = <<>> /\ m'.call = c
          BY <3>1
        <4>2. UNCHANGED <<wire, resp, rx>>
          BY <1>0, <1>1, TakeKinds
        <4> QED BY <1>0, <4>1, <4>2 DEF Within
      <3>2. CASE Printing(<<"ERROR">>, c) \/ Printing(<<"value", "OK">>, c) \/ Printing(<<"OK">>, c)
        <4>1. m'.call = c
          BY <3>2 DEF Printing
        <4>2. UNCHANGED <<wire, resp, rx>>
          BY <1>0, <1>1, TakeKinds
        <4>3. Line("ERROR", c) \in OwnLine(c) /\ Line("OK", c) \in OwnLine(c) /\ Line("value", c) \in OwnLine(c)
          BY LineOwn
        <4> QED BY <1>0, <3>2, <4>1, <4>2, <4>3, AnswersWithin
      <3> QED BY <1>0, <1>1, <3>1, <3>2, TakeKinds
    <2> QED BY <1>0, <1>1, <2>1, <2>2, TakeKinds DEF InFlight
  <1>2. CASE PromptHost
    <2>1. m.call = c /\ m'.call = c /\ m'.todo = m.todo
      BY <1>2 DEF PromptHost, InFlight, Busy, TypeOK
    <2>2. Within(OwnLine(c))'
      BY <1>0, <1>2, <2>1, EmitWithin, LineOwn DEF PromptHost
    <2> QED BY <1>0, <1>2, <2>1, <2>2 DEF PromptHost, InFlight
  <1>3. CASE EntryEnds
    <2>1. m.call = c /\ UNCHANGED <<wire, resp, rx, typed, line_q>>
      BY <1>3 DEF EntryEnds, InFlight, Busy
    <2>2. Printing(<<"SEQ", "OK">>, c) \/ Printing(<<"ERROR">>, c)
      BY <1>3, <2>1 DEF EntryEnds, SendUnicast
    <2>3. Line("ERROR", c) \in OwnLine(c) /\ Line("OK", c) \in OwnLine(c) /\ Line("SEQ", c) \in OwnLine(c)
      BY LineOwn
    <2>4. Within(OwnLine(c))'
      BY <1>0, <2>1, <2>2, <2>3, AnswersWithin
    <2>5. m'.call = c
      BY <2>2 DEF Printing
    <2> QED BY <1>0, <2>1, <2>4, <2>5 DEF InFlight
  <1>4. CASE PrintNext
    <2>1. Within(OwnLine(c))'
      BY <1>0, <1>4, PrintWithin
    <2>2. /\ UNCHANGED typed
          /\ line_q' = line_q \/ line_q' = <<>>
      BY <1>4 DEF PrintNext, TurnOff
    <2>3. m' = [m EXCEPT !.todo = Tail(@)] \/ m' = Off \/ m' = Idle
      BY <1>4, Zenon DEF PrintNext, TurnOff
    <2>4. m'.pc \in Busy => m'.call = c
      <3>1. CASE m' = [m EXCEPT !.todo = Tail(@)]
        BY <1>4, <3>1 DEF TypeOK, InFlight, Busy, PrintNext
      <3>2. CASE m' = Off \/ m' = Idle
        BY <3>2 DEF Off, Idle, Busy
      <3> QED BY <2>3, <3>1, <3>2, Zenon
    <2>5. line_q' \in Seq([of : {c}, whole : BOOLEAN])
      <3> DEFINE L == [of : {c}, whole : BOOLEAN]
      <3>1. line_q \in Seq(L)
        BY <1>0
      <3> HIDE DEF L
      <3>2. line_q' \in Seq(L)
        BY <2>2, <3>1, EmptySeq
      <3> QED BY <3>2 DEF L
    <2> QED BY <1>0, <2>1, <2>2, <2>4, <2>5 DEF InFlight
  <1>5. CASE Boot
    <2> DEFINE C == [what : {"line", "bytes", "rest", "part"}, of : {c}]
    <2>1. m' = Idle /\ m'.todo = <<>> /\ UNCHANGED <<wire, line_q, resp, rx>>
      BY <1>5 DEF Boot, Idle
    <2>2. typed' \in Seq(C)
      <3>1. typed \in Seq(C)
        BY <1>0
      <3>2. CASE typed' = typed
        BY <3>1, <3>2
      <3>3. CASE typed # <<>> /\ typed' = [typed EXCEPT ![1].what = IF @ = "line" THEN "rest" ELSE "part"]
        <4>1. typed[1] \in C
          <5> HIDE DEF C
          <5>1. Len(typed) \in Nat /\ Len(typed) > 0
            BY <3>1, <3>3
          <5> QED BY <3>1, <5>1
        <4>2. \E w \in {"rest", "part"} : typed' = [typed EXCEPT ![1] = [typed[1] EXCEPT !.what = w]]
          BY <3>3
        <4>3. \A w \in {"rest", "part"} : [typed[1] EXCEPT !.what = w] \in C
          BY <4>1
        <4> HIDE DEF C
        <4> QED BY <3>1, <3>3, <4>2, <4>3, FirstType
      <3> QED BY <1>5, <3>2, <3>3 DEF Boot
    <2>3. Within(OwnLine(c))'
      BY <1>0, <2>1 DEF Within
    <2> QED BY <1>0, <2>1, <2>2, <2>3 DEF InFlight, Idle, Busy
  <1>6. ASSUME NEW k \in reports, Report(k) PROVE InFlight(c)'
    <2>1. k \in Numbers
      BY DEF TypeOK
    <2>2. Emit(Line("report", k)) /\ UNCHANGED <<m, resp, rx, typed, line_q>>
      BY <1>6 DEF Report, EmitPrompt
    <2>3. Within(OwnLine(c))'
      BY <1>0, <2>1, <2>2, ReportAny, EmitWithin
    <2> QED BY <1>0, <2>2, <2>3 DEF InFlight
  <1> QED BY <1>1, <1>2, <1>3, <1>4, <1>5, <1>6, ReceiveInFlight DEF Module

LEMMA ReaderInFlight ==
  ASSUME NEW c, InFlight(c), Host
  PROVE  InFlight(c)'
  <1>1. Within(OwnLine(c))'
    BY ReaderWithin, NoLineOwn DEF InFlight
  <1>2. UNCHANGED <<typed, line_q, m>>
    BY DEF Host, Read, OnLine, GetEvent, module, lines
  <1> QED BY <1>1, <1>2 DEF InFlight

LEMMA PromptInFlight ==
  ASSUME NEW c, InFlight(c), NEW what \in Unasked, Prompt(what)
  PROVE  InFlight(c)'
  <1> USE DEF module, lines, shared, record
  <1>1. Within(OwnLine(c))'
    <2>1. m'.todo \in Seq(OwnLine(c)) /\ Emit(Line(what, 0)) /\ UNCHANGED <<resp, rx>>
      BY DEF Prompt, EmitPrompt, InFlight, Within
    <2> QED BY <2>1, PromptAny, EmitWithin DEF InFlight
  <1>2. UNCHANGED <<typed, line_q, m>>
    BY DEF Prompt
  <1> QED BY <1>1, <1>2 DEF InFlight

-----------------------------------------------------------------------------
(* A command that reads.                                                   *)

LEMMA LinePlain ==
  ASSUME NEW c \in Numbers
  PROVE  /\ \A what \in {"echo", ">", "value", "SEQ", "OK", "ERROR", "report"} : Line(what, c) \in NoPiece
         /\ \A what \in {"echo", "piece", ">", "value", "SEQ", "ERROR", "report"} : Line(what, c) \in NotOK
  BY DEF NoPiece, NotOK, AnyLine, Line

LEMMA ModuleReadInFlight ==
  ASSUME TypeOK, ModuleInv, NEW c \in Numbers, calls[c] = "read", InFlight(c), ReadInFlight(c), Module
  PROVE  ReadInFlight(c)'
  <1> USE DEF record, shared, lines
  <1>0. /\ m.pc \in {"idle", "print"} /\ bin_entry = "none" /\ ~junk
        /\ typed \in Seq([what : {"line"}, of : {c}])
        /\ Within(NoPiece) /\ m.todo \in Seq(NoPiece) /\ line_q \in Seq([of : {c}, whole : BOOLEAN])
    BY DEF ReadInFlight, ModuleInv, Within, InFlight
  <1>1. CASE Receive
    <2> DEFINE C == [what : {"line"}, of : {c}]
               msg == Head(typed)
    <2>1. typed \in Seq(C) /\ typed # <<>> /\ typed' = Tail(typed) /\ UNCHANGED <<m, resp, rx>>
          /\ ToLine(msg)
      BY <1>0, <1>1, ReceiveKinds
    <2>2. typed' \in Seq(C) /\ msg \in C
      <3> HIDE DEF C
      <3> QED BY <2>1
    <2>3. msg.what = "line" /\ msg.of = c
      BY <2>2
    <2> HIDE DEF msg
    <2>4. ~junk' /\ wire' = Append(wire, Line("echo", c))
      BY <1>0, <2>1, <2>3 DEF ToLine, HasEnd
    <2>5. Within(NoPiece)'
      BY <1>0, <2>1, <2>4, LinePlain, EmitWithin DEF Emit
    <2> QED BY <1>0, <2>1, <2>2, <2>4, <2>5 DEF ReadInFlight, C
  <1>2. CASE Take
    <2>1. UNCHANGED <<wire, resp, rx, typed, junk>>
      BY <1>0, <1>2, TakeKinds
    <2>2. Printing(<<"ERROR">>, c) \/ Printing(<<"value", "OK">>, c)
      BY <1>0, <1>2, TakeKinds
    <2>3. m'.pc = "print"
      BY <2>2 DEF Printing
    <2>4. Within(NoPiece)'
      BY <1>0, <2>1, <2>2, LinePlain, AnswersWithin
    <2> QED BY <1>0, <2>1, <2>3, <2>4 DEF ReadInFlight
  <1>3. CASE PrintNext
    <2>1. m.call = c
      BY <1>3 DEF PrintNext, InFlight, Busy
    <2>2. /\ UNCHANGED <<typed, junk>>
          /\ m' = [m EXCEPT !.todo = Tail(@)] \/ m' = Idle
      BY <1>3, <2>1 DEF PrintNext
    <2>3. m'.pc \in {"idle", "print"}
      <3>1. CASE m' = [m EXCEPT !.todo = Tail(@)]
        BY <1>0, <3>1 DEF TypeOK
      <3>2. CASE m' = Idle
        BY <3>2 DEF Idle
      <3> QED BY <2>2, <3>1, <3>2, Zenon
    <2>4. Within(NoPiece)'
      BY <1>0, <1>3, PrintWithin
    <2> QED BY <1>0, <2>2, <2>3, <2>4 DEF ReadInFlight
  <1>4. ASSUME NEW k \in reports, Report(k) PROVE ReadInFlight(c)'
    <2>1. k \in Numbers
      BY DEF TypeOK
    <2>2. Emit(Line("report", k)) /\ UNCHANGED <<m, resp, rx, typed, junk>>
      BY <1>4 DEF Report, EmitPrompt
    <2>3. Within(NoPiece)'
      BY <1>0, <2>1, <2>2, ReportAny, EmitWithin
    <2> QED BY <1>0, <2>2, <2>3 DEF ReadInFlight
  <1>5. ~PromptHost /\ ~EntryEnds /\ ~Boot
    BY <1>0 DEF PromptHost, EntryEnds, Boot, Off
  <1> QED BY <1>1, <1>2, <1>3, <1>4, <1>5 DEF Module

LEMMA ReaderReadInFlight ==
  ASSUME NEW c, ReadInFlight(c), Host
  PROVE  ReadInFlight(c)'
  <1>1. Within(NoPiece)'
    BY ReaderWithin, NoLinePlain DEF ReadInFlight
  <1>2. UNCHANGED <<typed, junk, m>>
    BY DEF Host, Read, OnLine, GetEvent, module, lines
  <1> QED BY <1>1, <1>2 DEF ReadInFlight

LEMMA PromptReadInFlight ==
  ASSUME NEW c, ReadInFlight(c), NEW what \in Unasked, Prompt(what)
  PROVE  ReadInFlight(c)'
  <1> USE DEF module, lines, shared, record
  <1>1. Within(NoPiece)'
    <2>1. m'.todo \in Seq(NoPiece) /\ Emit(Line(what, 0)) /\ UNCHANGED <<resp, rx>>
      BY DEF Prompt, EmitPrompt, ReadInFlight, Within
    <2> QED BY <2>1, PromptAny, EmitWithin DEF ReadInFlight
  <1>2. UNCHANGED <<typed, junk, m>>
    BY DEF Prompt
  <1> QED BY <1>1, <1>2 DEF ReadInFlight

-----------------------------------------------------------------------------
(* A command that sends data.                                              *)

LEMMA OneTyped ==
  ASSUME NEW a
  PROVE  Head(<<a>>) = a /\ Tail(<<a>>) = <<>> /\ <<a>> # <<>> /\ Append(<<>>, a) = <<a>>
  OBVIOUS

LEMMA HeadOfTwo == \A a, b : Head(<<a, b>>) = a /\ <<a, b>> # <<>> /\ <<b>> # <<a, b>> /\ <<a>> # <<a, b>>
  OBVIOUS
LEMMA TailOfTwo == ASSUME NEW a, NEW b PROVE Tail(<<a, b>>) = <<b>>
  OBVIOUS
LEMMA AppendSecond == ASSUME NEW a, NEW b PROVE Append(<<a>>, b) = <<a, b>>
  <1> DEFINE s == Append(<<a>>, b)
             u == <<a, b>>
  <1>1. <<a>> \in Seq({a, b}) /\ Len(<<a>>) = 1 /\ <<a>>[1] = a
    OBVIOUS
  <1>2. u \in Seq({a, b}) /\ Len(u) = 2 /\ u[1] = a /\ u[2] = b
    OBVIOUS
  <1>3. /\ s \in Seq({a, b}) /\ Len(s) = Len(<<a>>) + 1
        /\ \A i \in 1..Len(<<a>>) : s[i] = <<a>>[i]
        /\ s[Len(<<a>>) + 1] = b
    BY <1>1, AppendProperties
  <1> HIDE DEF s, u
  <1>4. Len(s) = Len(u) /\ \A i \in 1..Len(s) : s[i] = u[i]
    BY <1>1, <1>2, <1>3
  <1>5. s = u
    BY <1>2, <1>3, <1>4, SeqEqual
  <1> QED BY <1>5 DEF s, u
LEMMA SameTyped == \A a, b : <<a>> = <<b>> => a = b
  OBVIOUS

LEMMA LineNotBytes == \A c : LineOf(c) # BytesOf(c)
  BY DEF LineOf, BytesOf

LEMMA ReceiveBinInFlight ==
  ASSUME TypeOK, ModuleInv, NEW c \in 1..MaxCalls, InFlight(c), BinInFlight(c), Receive
  PROVE  BinInFlight(c)' /\ (NotYetSent(c) => NotYetSent(c)')
  <1>0. /\ m.pc # "off"
        /\ typed \in {<<>>, <<LineOf(c)>>, <<BytesOf(c)>>, <<LineOf(c), BytesOf(c)>>}
        /\ typed # <<>> /\ typed' = Tail(typed) /\ UNCHANGED <<m, resp, rx>>
        /\ \/ bin_entry = "open" /\ ToEntry(Head(typed)) /\ UNCHANGED wire /\ m.pc \in {"arm", "entry"}
           \/ bin_entry # "open" /\ ToLine(Head(typed))
    BY ReceiveKinds DEF BinInFlight
  <1>1. c \in Numbers /\ c # 0 /\ took \in [1..MaxCalls -> Numbers \cup {-1}]
    BY Constants DEF Numbers, TypeOK
  <1>2. took[c] = 0 /\ Within(NotOK)
    BY <1>0, <1>1 DEF BinInFlight
  <1>3. CASE typed \in {<<LineOf(c)>>, <<LineOf(c), BytesOf(c)>>}
    <2>1. line_q = <<>> /\ m.pc = "idle" /\ bin_entry = "none"
      BY <1>3 DEF BinInFlight, ModuleInv
    <2>2. Head(typed) = LineOf(c) /\ typed' \in {<<>>, <<BytesOf(c)>>}
          /\ (typed = <<LineOf(c)>> => typed' = <<>>)
      <3>1. CASE typed = <<LineOf(c)>>
        BY <1>0, <3>1, OneTyped, HeadOfTwo, TailOfTwo, SameTyped
      <3>2. CASE typed = <<LineOf(c), BytesOf(c)>>
        <4>1. Head(typed) = LineOf(c) /\ typed' = <<BytesOf(c)>> /\ typed # <<LineOf(c)>>
          BY <1>0, <3>2, OneTyped, HeadOfTwo, TailOfTwo, SameTyped
        <4> QED BY <4>1
      <3> QED BY <1>3, <3>1, <3>2
    <2>3. ToLine(LineOf(c))
      BY <1>0, <2>1, <2>2
    <2>4. Queued(c, ~junk) /\ Emit(Line(IF ~junk THEN "echo" ELSE "piece", c)) /\ UNCHANGED <<bin_entry, took>>
      BY <2>3, Zenon DEF ToLine, LineOf, HasEnd, Emit
    <2>5. Len(line_q') = 1
      <3>1. line_q' = Append(line_q, [of |-> c, whole |-> ~junk])
        BY <2>1, <2>4, Constants DEF Queued
      <3> QED BY <2>1, <3>1
    <2>6. Within(NotOK)'
      <3>1. m'.todo \in Seq(NotOK)
        BY <1>0, <1>2 DEF Within
      <3>2. Emit(Line("echo", c)) \/ Emit(Line("piece", c))
        BY <2>4, Zenon
      <3> QED BY <1>0, <1>1, <1>2, <3>1, <3>2, LinePlain, EmitWithin
    <2>7. BinInFlight(c)'
      <3>1. typed' \notin {<<LineOf(c)>>, <<LineOf(c), BytesOf(c)>>}
        BY <2>2, LineNotBytes, OneTyped, HeadOfTwo, TailOfTwo, SameTyped
      <3> QED BY <1>0, <1>2, <2>1, <2>2, <2>4, <2>5, <2>6, <3>1 DEF BinInFlight
    <2>8. NotYetSent(c) => NotYetSent(c)'
      <3>1. NotYetSent(c) => typed = <<LineOf(c)>>
        BY <1>0 DEF NotYetSent
      <3> QED BY <1>2, <2>2, <2>4, <3>1 DEF NotYetSent
    <2> QED BY <2>7, <2>8
  <1>4. CASE typed = <<BytesOf(c)>>
    <2>1. Head(typed) = BytesOf(c) /\ typed' = <<>>
      BY <1>0, <1>4, OneTyped, HeadOfTwo, TailOfTwo, SameTyped
    <2>2. ~NotYetSent(c)
      BY <1>4, LineNotBytes, OneTyped, HeadOfTwo, TailOfTwo, SameTyped DEF NotYetSent
    <2>3. CASE bin_entry = "open" /\ ToEntry(BytesOf(c)) /\ UNCHANGED wire /\ m.pc \in {"arm", "entry"}
      <3>1. m.call = c /\ line_q = <<>>
        BY <2>3 DEF InFlight, Busy, BinInFlight
      <3>2. took[m.call] = 0 /\ BytesOf(c) = [what |-> "bytes", of |-> m.call]
        BY <1>2, <3>1 DEF BytesOf
      <3>3. took' = [took EXCEPT ![c] = c] /\ bin_entry' = "full" /\ UNCHANGED line_q
        BY <2>3, <3>1, <3>2 DEF ToEntry
      <3>4. took'[c] = c
        BY <1>1, <3>3
      <3>5. typed' \notin {<<LineOf(c)>>, <<LineOf(c), BytesOf(c)>>}
        BY <2>1, OneTyped, HeadOfTwo, TailOfTwo, SameTyped
      <3> QED BY <1>0, <2>1, <2>2, <3>1, <3>3, <3>4, <3>5 DEF BinInFlight
    <2>4. CASE bin_entry # "open" /\ ToLine(BytesOf(c))
      <3>1. UNCHANGED <<line_q, bin_entry, took>> /\ Emit(Line("piece", c))
        BY <2>4 DEF ToLine, BytesOf, HasEnd, Emit
      <3>2. Within(NotOK)'
        <4>1. m'.todo \in Seq(NotOK)
          BY <1>0, <1>2 DEF Within
        <4> QED BY <1>0, <1>1, <1>2, <3>1, <4>1, LinePlain, EmitWithin
      <3>5. typed' \notin {<<LineOf(c)>>, <<LineOf(c), BytesOf(c)>>}
        BY <2>1, OneTyped, HeadOfTwo, TailOfTwo, SameTyped
      <3> QED BY <1>0, <1>2, <2>1, <2>2, <3>1, <3>2, <3>5 DEF BinInFlight
    <2> QED BY <1>0, <2>1, <2>3, <2>4
  <1> QED BY <1>0, <1>3, <1>4

LEMMA ModuleBinInFlight ==
  ASSUME TypeOK, ModuleInv, NEW c \in 1..MaxCalls, calls[c] = "bin", InFlight(c), BinInFlight(c), Module
  PROVE  BinInFlight(c)' /\ (NotYetSent(c) => NotYetSent(c)')
  <1> USE DEF record, shared, lines
  <1>0. c \in Numbers /\ c # 0
    BY Constants DEF Numbers
  <1>1. CASE Take
    <2>0. line_q \in Seq([of : {c}, whole : BOOLEAN])
      BY DEF InFlight
    <2>1. /\ UNCHANGED <<wire, resp, rx, typed, took>> /\ line_q # <<>> /\ line_q' = Tail(line_q)
          /\ m.pc = "idle" /\ bin_entry = "none"
      BY <1>1, <2>0, TakeKinds
    <2>2. took[c] = 0 /\ Within(NotOK) /\ line_q' = <<>>
          /\ typed \notin {<<LineOf(c)>>, <<LineOf(c), BytesOf(c)>>}
      <3>1. took[c] = 0 /\ Within(NotOK) /\ Len(line_q) = 1
            /\ typed \notin {<<LineOf(c)>>, <<LineOf(c), BytesOf(c)>>}
        BY <1>0, <2>1 DEF BinInFlight
      <3>2. line_q' = <<>>
        BY <2>0, <2>1, <3>1
      <3> QED BY <3>1, <3>2
    <2>3. Within(NotOK)' /\ m'.pc # "off" /\ bin_entry' # "full"
      <3>1. CASE m' = [pc |-> "arm", call |-> c, todo |-> <<>>] /\ bin_entry' = "open"
        <4>1. m'.todo = <<>> /\ m'.pc = "arm"
          BY <3>1
        <4> QED BY <2>1, <2>2, <3>1, <4>1 DEF Within
      <3>2. CASE Printing(<<"ERROR">>, c) /\ UNCHANGED bin_entry
        <4>1. m'.pc = "print"
          BY <3>2 DEF Printing
        <4> QED BY <1>0, <2>1, <2>2, <3>2, <4>1, LinePlain, AnswersWithin
      <3> QED BY <1>1, <2>0, <3>1, <3>2, TakeKinds
    <2> QED BY <2>1, <2>2, <2>3 DEF BinInFlight, NotYetSent
  <1>2. CASE PromptHost
    <2>1. m'.pc = "entry" /\ m'.todo = m.todo /\ m.pc = "arm"
          /\ Emit(Line(">", m.call)) /\ UNCHANGED <<resp, rx, typed, line_q, bin_entry, took>>
      BY <1>2 DEF PromptHost, TypeOK
    <2>2. m.call = c
      BY <2>1 DEF InFlight, Busy
    <2>3. Within(NotOK) => Within(NotOK)'
      <3> SUFFICES ASSUME Within(NotOK) PROVE Within(NotOK)'
        OBVIOUS
      <3>1. m'.todo \in Seq(NotOK)
        BY <2>1 DEF Within
      <3> QED BY <1>0, <2>1, <2>2, <3>1, LinePlain, EmitWithin
    <2> QED BY <2>1, <2>3 DEF BinInFlight, NotYetSent
  <1>3. CASE EntryEnds
    <2>1. m.call = c /\ m.pc = "entry" /\ bin_entry' = "none" /\ UNCHANGED <<wire, resp, rx, typed, line_q, took>>
      BY <1>3 DEF EntryEnds, InFlight, Busy
    <2>2. \/ bin_entry = "full" /\ (Printing(<<"SEQ", "OK">>, c) \/ Printing(<<"ERROR">>, c))
          \/ Printing(<<"ERROR">>, c)
      BY <1>3, <2>1 DEF EntryEnds, SendUnicast
    <2>3. m'.pc = "print"
      BY <2>2 DEF Printing
    <2>4. Within(NotOK)' \/ took[c] = c
      <3>1. CASE bin_entry = "full"
        BY <3>1 DEF BinInFlight
      <3>2. CASE Printing(<<"ERROR">>, c)
        BY <1>0, <2>1, <3>2, LinePlain, AnswersWithin DEF BinInFlight
      <3> QED BY <2>2, <3>1, <3>2
    <2> QED BY <2>1, <2>3, <2>4 DEF BinInFlight, NotYetSent
  <1>4. CASE PrintNext
    <2>1. m.call = c /\ m.pc = "print"
      BY <1>4 DEF PrintNext, InFlight, Busy
    <2>2. /\ UNCHANGED <<typed, line_q, bin_entry, took>>
          /\ m' = [m EXCEPT !.todo = Tail(@)] \/ m' = Idle
      BY <1>4, <2>1 DEF PrintNext
    <2>3. m'.pc \in {"idle", "print"}
      <3>1. CASE m' = [m EXCEPT !.todo = Tail(@)]
        BY <2>1, <3>1 DEF TypeOK
      <3>2. CASE m' = Idle
        BY <3>2 DEF Idle
      <3> QED BY <2>2, <3>1, <3>2, Zenon
    <2>4. Within(NotOK) => Within(NotOK)'
      BY <1>4, PrintWithin
    <2>5. typed \notin {<<LineOf(c)>>, <<LineOf(c), BytesOf(c)>>} /\ line_q = <<>>
      BY <2>1 DEF BinInFlight
    <2> QED BY <2>2, <2>3, <2>4, <2>5 DEF BinInFlight, NotYetSent
  <1>5. ASSUME NEW k \in reports, Report(k)
        PROVE  BinInFlight(c)' /\ (NotYetSent(c) => NotYetSent(c)')
    <2>1. k \in Numbers
      BY DEF TypeOK
    <2>2. Emit(Line("report", k)) /\ UNCHANGED <<m, resp, rx, typed, line_q, bin_entry, took>>
      BY <1>5 DEF Report, EmitPrompt
    <2>3. Within(NotOK) => Within(NotOK)'
      <3> SUFFICES ASSUME Within(NotOK) PROVE Within(NotOK)'
        OBVIOUS
      <3>1. m'.todo \in Seq(NotOK)
        BY <2>2 DEF Within
      <3> QED BY <2>1, <2>2, <3>1, ReportAny, EmitWithin
    <2> QED BY <2>2, <2>3 DEF BinInFlight, NotYetSent
  <1>6. ~Boot
    BY DEF Boot, Off, BinInFlight
  <1> QED BY <1>1, <1>2, <1>3, <1>4, <1>5, <1>6, ReceiveBinInFlight DEF Module

LEMMA ReaderBinInFlight ==
  ASSUME NEW c, BinInFlight(c), Host
  PROVE  BinInFlight(c)' /\ (NotYetSent(c) => NotYetSent(c)')
  <1>1. Within(NotOK) => Within(NotOK)'
    BY ReaderWithin, NoLinePlain
  <1>2. UNCHANGED <<typed, line_q, bin_entry, took, m>>
    BY DEF Host, Read, OnLine, GetEvent, module, lines
  <1> QED BY <1>1, <1>2 DEF BinInFlight, NotYetSent

LEMMA PromptBinInFlight ==
  ASSUME NEW c, BinInFlight(c), NEW what \in Unasked, Prompt(what)
  PROVE  BinInFlight(c)' /\ (NotYetSent(c) => NotYetSent(c)')
  <1> USE DEF module, lines, shared, record
  <1>1. Within(NotOK) => Within(NotOK)'
    <2> SUFFICES ASSUME Within(NotOK) PROVE Within(NotOK)'
      OBVIOUS
    <2>1. m'.todo \in Seq(NotOK) /\ Emit(Line(what, 0)) /\ UNCHANGED <<resp, rx>>
      BY DEF Prompt, EmitPrompt, Within
    <2> QED BY <2>1, PromptAny, EmitWithin
  <1>2. UNCHANGED <<typed, line_q, bin_entry, took, m>>
    BY DEF Prompt
  <1> QED BY <1>1, <1>2 DEF BinInFlight, NotYetSent

-----------------------------------------------------------------------------
(* A fresh command is sent, and stays the last one.                        *)

LEMMA EmptyQuiet ==
  ASSUME TypeOK, Quiet, NEW L, \A line \in AnyLine : IsPrompt(line) => line \in L, NoLine \in L
  PROVE  m.todo \in Seq(L) /\ wire \in Seq(L) /\ rx.line \in L
  <1>1. \A k \in 1..Len(wire) : wire[k] \in L
    <2> SUFFICES ASSUME NEW k \in 1..Len(wire) PROVE wire[k] \in L
      OBVIOUS
    <2>1. wire[k] \in AnyLine
      BY DEF TypeOK
    <2>2. IsPrompt(wire[k])
      BY DEF Quiet
    <2> QED BY <2>1, <2>2
  <1>2. wire \in Seq(L)
    <2>1. wire \in Seq(AnyLine)
      BY DEF TypeOK
    <2> QED BY <1>1, <2>1
  <1>3. m.todo = <<>> /\ rx.line = NoLine
    BY DEF Quiet, Idle, RxIdle
  <1> QED BY <1>2, <1>3, EmptySeq

\* A command is sent: nothing else is on its way if it is fresh.
LEMMA FreshSend ==
  ASSUME IInv, NEW t \in Threads, NEW c, c = th[t].call, Send(t), Quiet
  PROVE  InFlight(c)' /\ ReadInFlight(c)' /\ BinInFlight(c)' /\ NotYetSent(c)'
  <1> USE DEF record, module, lines
  <1>1. /\ c \in 1..MaxCalls /\ took[c] = 0
    <2>1. th[t].pc = "lock"
      BY DEF Send, At
    <2>2. c \in 1..Len(calls) /\ c \notin Sent /\ Len(calls) <= MaxCalls /\ Len(calls) \in Nat
      BY <2>1 DEF IInv, HandInv, Sent, TypeOK
    <2> QED BY <2>2, Constants DEF IInv, SentInv
  <1>2. UNCHANGED <<wire, rx, m, line_q, junk, bin_entry, took>> /\ resp' = <<>>
    BY DEF Send, Drain
  <1>3. typed = <<>> /\ line_q = <<>> /\ ~junk /\ bin_entry = "none" /\ m = Idle
    BY DEF Quiet
  <1>4. typed' \in {<<>>, <<LineOf(c)>>}
    <2>1. typed' = Append(typed, LineOf(c)) \/ typed' = typed
      BY SendHand DEF IInv, LineOf
    <2> QED BY <1>3, <2>1, OneTyped
  <1>5. m'.pc = "idle"
    BY <1>2, <1>3 DEF Idle
  <1>6. Within(OwnLine(c))' /\ Within(NoPiece)' /\ Within(NotOK)'
    <2>1. ASSUME NEW L, \A line \in AnyLine : IsPrompt(line) => line \in L, NoLine \in L
          PROVE  Within(L)'
      <3>1. m.todo \in Seq(L) /\ wire \in Seq(L) /\ rx.line \in L
        BY <2>1, EmptyQuiet DEF IInv
      <3> QED BY <1>2, <3>1, EmptySeq DEF Within
    <2>2. \A line \in AnyLine : IsPrompt(line) => line \in OwnLine(c)
      BY DEF OwnLine
    <2>3. \A line \in AnyLine : IsPrompt(line) => line \in NoPiece
      BY DEF NoPiece, IsPrompt
    <2>4. \A line \in AnyLine : IsPrompt(line) => line \in NotOK
      BY DEF NotOK, IsPrompt
    <2> QED BY <2>1, <2>2, <2>3, <2>4, NoLineOwn, NoLinePlain
  <1>7. /\ typed' \in Seq([what : {"line", "bytes", "rest", "part"}, of : {c}])
        /\ typed' \in Seq([what : {"line"}, of : {c}])
    <2>1. LineOf(c) \in [what : {"line", "bytes", "rest", "part"}, of : {c}] /\ LineOf(c) \in [what : {"line"}, of : {c}]
      BY DEF LineOf
    <2>2. \A S : LineOf(c) \in S => <<LineOf(c)>> \in Seq(S)
      OBVIOUS
    <2> QED BY <1>4, <2>1, <2>2, EmptySeq
  <1>8. InFlight(c)'
    <2>1. line_q' \in Seq([of : {c}, whole : BOOLEAN])
      BY <1>2, <1>3, EmptySeq
    <2>2. m'.pc \notin Busy
      BY <1>5 DEF Busy
    <2> QED BY <1>6, <1>7, <2>1, <2>2 DEF InFlight
  <1>9. ReadInFlight(c)'
    <2>1. ~junk'
      BY <1>2, <1>3
    <2> QED BY <1>5, <1>6, <1>7, <2>1 DEF ReadInFlight
  <1>10. BinInFlight(c)' /\ NotYetSent(c)'
    <2>1. took'[c] = 0 /\ line_q' = <<>> /\ bin_entry' = "none"
      BY <1>1, <1>2, <1>3
    <2> QED BY <1>4, <1>5, <1>6, <2>1 DEF BinInFlight, NotYetSent
  <1> QED BY <1>8, <1>9, <1>10

\* What nobody but the module and the host's reader changes.
LEMMA FlightStays ==
  ASSUME NEW c, UNCHANGED <<typed, line_q, junk, bin_entry, took, m, wire, resp, rx>>
  PROVE  /\ InFlight(c) => InFlight(c)'
         /\ ReadInFlight(c) => ReadInFlight(c)'
         /\ BinInFlight(c) => BinInFlight(c)'
         /\ NotYetSent(c) => NotYetSent(c)'
  BY DEF InFlight, ReadInFlight, BinInFlight, NotYetSent, Within

\* Once the entry has taken the data it is closed to everything else.
LEMMA TookStays ==
  ASSUME TypeOK, ModuleInv, NEW c \in 1..MaxCalls, InFlight(c), BinInFlight(c), took[c] = c, Module
  PROVE  took'[c] = c
  <1>1. c # 0 /\ bin_entry # "open"
    BY DEF BinInFlight
  <1>2. UNCHANGED took
    <2>1. CASE Receive
      <3>1. ToLine(Head(typed)) \/ UNCHANGED took
        BY <1>1, <2>1, ReceiveKinds
      <3> QED BY <3>1 DEF ToLine
    <2>2. CASE Take \/ PromptHost \/ EntryEnds \/ PrintNext \/ Boot \/ \E k \in reports : Report(k)
      BY <2>2 DEF Take, PromptHost, EntryEnds, PrintNext, TurnOff, Boot, Report, lines
    <2> QED BY <2>1, <2>2 DEF Module
  <1> QED BY <1>2

\* Module and reader leave the thread as it is.
LEMMA FreshOther ==
  ASSUME IInv, NEW t \in Threads, NEW c \in 1..MaxCalls,
         Module \/ Host \/ \E what \in Unasked : Prompt(what)
  PROVE  FreshOf(t, c)'
  <1>1. UNCHANGED <<calls, th>>
    BY DEF Module, Receive, Take, PromptHost, EntryEnds, PrintNext, Boot, Report,
           Host, Read, OnLine, GetEvent, Prompt
  <1> SUFFICES ASSUME th[t].pc \in {"collect", "prompt", "end"}, th[t].fresh, th[t].call = c
               PROVE  FreshOf(t, c)'
    BY <1>1 DEF FreshOf
  <1>2. FreshOf(t, c)
    BY DEF IInv, FreshInv
  <1>3. InFlight(c) /\ (calls[c] = "read" => ReadInFlight(c)) /\ (calls[c] = "bin" => BinInFlight(c))
    BY <1>2 DEF FreshOf
  <1>4. c \in Numbers
    BY Constants DEF Numbers
  <1>5. /\ InFlight(c)'
        /\ calls[c] = "read" => ReadInFlight(c)'
        /\ calls[c] = "bin" => BinInFlight(c)' /\ (NotYetSent(c) => NotYetSent(c)')
                               /\ (took[c] = c => took'[c] = c)
    <2>1. CASE Module
      <3>1. InFlight(c)'
        BY <1>3, <1>4, <2>1, ModuleInFlight DEF IInv
      <3>2. calls[c] = "read" => ReadInFlight(c)'
        BY <1>3, <1>4, <2>1, ModuleReadInFlight DEF IInv
      <3>3. calls[c] = "bin" => BinInFlight(c)' /\ (NotYetSent(c) => NotYetSent(c)')
        BY <1>3, <2>1, ModuleBinInFlight DEF IInv
      <3>4. calls[c] = "bin" /\ took[c] = c => took'[c] = c
        BY <1>3, <2>1, TookStays DEF IInv
      <3> QED BY <3>1, <3>2, <3>3, <3>4
    <2>2. CASE Host
      <3>1. UNCHANGED took
        BY <2>2 DEF Host, Read, OnLine, GetEvent, module, lines
      <3> QED BY <1>3, <2>2, <3>1, ReaderInFlight, ReaderReadInFlight, ReaderBinInFlight
    <2>3. ASSUME NEW what \in Unasked, Prompt(what)
          PROVE  /\ InFlight(c)'
                 /\ calls[c] = "read" => ReadInFlight(c)'
                 /\ calls[c] = "bin" => BinInFlight(c)' /\ (NotYetSent(c) => NotYetSent(c)')
                                        /\ (took[c] = c => took'[c] = c)
      <3>1. UNCHANGED took
        BY <2>3 DEF Prompt, module, lines
      <3> QED BY <1>3, <2>3, <3>1, PromptInFlight, PromptReadInFlight, PromptBinInFlight
    <2> QED BY <2>1, <2>2, <2>3
  <1> QED BY <1>1, <1>2, <1>5 DEF FreshOf

-----------------------------------------------------------------------------
(* Every step keeps what a fresh command needs.                            *)

LEMMA TailWithin ==
  ASSUME NEW L, Within(L), resp # <<>>, resp' = Tail(resp), UNCHANGED <<m, wire, rx>>
  PROVE  Within(L)' /\ Head(resp) \in L
  BY TailType DEF Within

\* The caller takes a line.
LEMMA NextLineFlight ==
  ASSUME NEW c, resp # <<>>, resp' = Tail(resp), UNCHANGED <<line_q, junk, bin_entry, took, m, wire, rx>>
  PROVE  /\ InFlight(c) => Head(resp) \in OwnLine(c)
         /\ ReadInFlight(c) => Head(resp) \in NoPiece
         /\ BinInFlight(c) => Head(resp) \in NotOK \/ took[c] = c
         /\ UNCHANGED typed => /\ InFlight(c) => InFlight(c)'
                               /\ ReadInFlight(c) => ReadInFlight(c)'
                               /\ BinInFlight(c) => BinInFlight(c)'
                               /\ NotYetSent(c) => NotYetSent(c)'
  <1>1. \A L : Within(L) => Within(L)' /\ Head(resp) \in L
    BY TailWithin
  <1>2. /\ InFlight(c) => Head(resp) \in OwnLine(c)
        /\ ReadInFlight(c) => Head(resp) \in NoPiece
        /\ BinInFlight(c) => Head(resp) \in NotOK \/ took[c] = c
    BY TailWithin DEF InFlight, ReadInFlight, BinInFlight
  <1>3. ASSUME UNCHANGED typed
        PROVE  /\ InFlight(c) => InFlight(c)'
               /\ ReadInFlight(c) => ReadInFlight(c)'
               /\ BinInFlight(c) => BinInFlight(c)'
               /\ NotYetSent(c) => NotYetSent(c)'
    <2>1. InFlight(c) => InFlight(c)'
      BY <1>3, TailWithin DEF InFlight
    <2>2. ReadInFlight(c) => ReadInFlight(c)'
      BY <1>3, TailWithin DEF ReadInFlight
    <2>3. BinInFlight(c) => BinInFlight(c)'
      BY <1>3, TailWithin DEF BinInFlight
    <2>4. NotYetSent(c) => NotYetSent(c)'
      BY <1>3 DEF NotYetSent
    <2> QED BY <2>1, <2>2, <2>3, <2>4
  <1> QED BY <1>2, <1>3

\* The data follows the prompt.
LEMMA DataFlight ==
  ASSUME NEW c, InFlight(c), resp # <<>>, resp' = Tail(resp), UNCHANGED <<line_q, junk, bin_entry, took, m, wire, rx>>,
         typed' = Append(typed, BytesOf(c))
  PROVE  InFlight(c)' /\ (BinInFlight(c) /\ NotYetSent(c) => BinInFlight(c)')
  <1>1. InFlight(c)'
    <2> DEFINE C == [what : {"line", "bytes", "rest", "part"}, of : {c}]
    <2>1. BytesOf(c) \in C /\ typed \in Seq(C)
      BY DEF BytesOf, InFlight
    <2>2. typed' \in Seq(C)
      <3> HIDE DEF C
      <3> QED BY <2>1
    <2>3. Within(OwnLine(c))'
      BY TailWithin DEF InFlight
    <2> QED BY <2>2, <2>3 DEF InFlight
  <1>2. ASSUME BinInFlight(c), NotYetSent(c) PROVE BinInFlight(c)'
    <2>1. Within(NotOK) => Within(NotOK)'
      BY TailWithin
    <2>2. typed \in {<<>>, <<LineOf(c)>>} /\ took[c] = 0
      BY <1>2 DEF NotYetSent
    <2>3. \/ typed = <<>> /\ typed' = <<BytesOf(c)>>
          \/ typed = <<LineOf(c)>> /\ typed' = <<LineOf(c), BytesOf(c)>>
      BY <2>2, OneTyped, AppendSecond
    <2>4. <<BytesOf(c)>> \notin {<<LineOf(c)>>, <<LineOf(c), BytesOf(c)>>}
      BY LineNotBytes, SameTyped, HeadOfTwo
    <2> QED BY <1>2, <2>1, <2>2, <2>3, <2>4 DEF BinInFlight
  <1> QED BY <1>1, <1>2

LEMMA OwnTimeout == \A c : Own(Timeout, c) /\ Own(NoLine, c)
  BY DEF Own, Timeout, NoLine, Line

\* What is kept is a line of the command's own, and of a command that sends data its number.
LEMMA KeptOwn ==
  ASSUME NEW t \in Threads, NEW c, c = th[t].call, NEW line \in OwnLine(c), Own(th[t].got, c)
  PROVE  /\ Own(Kept(t, line), c)
         /\ calls[c] = "read" /\ th[t].got.what # "piece" /\ line \in NoPiece => Kept(t, line).what # "piece"
         /\ calls[c] # "read" /\ th[t].got.what \in {"none", "SEQ"} => Kept(t, line).what \in {"none", "SEQ"}
  <1>1. CASE Kept(t, line) = th[t].got
    BY <1>1
  <1>2. CASE Op(t) = "read" /\ ~IsPrompt(line) /\ Kept(t, line) = line
    BY <1>2 DEF OwnLine, NoPiece, Op
  <1>3. CASE Op(t) = "bin" /\ line.what = "SEQ" /\ Kept(t, line) = line
    BY <1>3 DEF OwnLine, Op, IsPrompt, Own
  <1> QED BY <1>1, <1>2, <1>3 DEF Kept

\* The thread's own steps.
LEMMA FreshOwn ==
  ASSUME IInv, NEW t \in Threads, NEW c \in 1..MaxCalls, HostStep(t)
  PROVE  FreshOf(t, c)'
  <1> USE DEF record, module, lines
  <1>0. FreshOf(t, c) /\ TypeOK
    BY DEF IInv, FreshInv
  <1>1. CASE Send(t)
    <2>1. /\ th[t].pc = "lock" /\ th[t].got = NoLine /\ th[t].end = NoLine
      BY <1>1 DEF Send, At, IInv, LockInv
    <2>2. /\ th'[t].call = th[t].call /\ th'[t].got = NoLine /\ th'[t].end \in {NoLine, Timeout}
          /\ th'[t].pc = "prompt" => calls[th[t].call] = "bin"
          /\ calls' = calls
      BY <1>0, <1>1, <2>1, SendHand DEF Op, Send
    <2>3. th'[t].fresh => Quiet
      <3>1. th'[t].fresh = Quiet
        BY <1>0, <1>1, SendHand
      <3> QED BY <3>1, Zenon
    <2>4. SUFFICES ASSUME th'[t].fresh, th[t].call = c
                   PROVE  FreshOf(t, c)'
      BY <2>2 DEF FreshOf
    <2>5. InFlight(c)' /\ ReadInFlight(c)' /\ BinInFlight(c)' /\ NotYetSent(c)'
      BY <1>1, <2>3, <2>4, FreshSend
    <2>6. Own(th'[t].got, c) /\ Own(th'[t].end, c) /\ th'[t].got.what = "none" /\ th'[t].end.what # "OK"
      BY <2>2, OwnTimeout DEF NoLine, Timeout, Line
    <2> QED BY <2>2, <2>5, <2>6 DEF FreshOf
  <1>2. CASE NextLine(t)
    <2> DEFINE line == Head(resp)
    <2>0. /\ resp # <<>> /\ resp' = Tail(resp)
          /\ UNCHANGED <<line_q, junk, bin_entry, took, m, wire, rx, calls>>
          /\ th[t].pc \in {"collect", "prompt"}
          /\ th'[t].call = th[t].call
      BY <1>0, <1>2, NextLineHand DEF NextLine, At
    <2>1. th'[t].fresh => th[t].fresh
      <3>1. th'[t].fresh = th[t].fresh
        BY <1>0, <1>2, NextLineHand
      <3> QED BY <3>1, Zenon
    <2> SUFFICES ASSUME th[t].fresh, th[t].call = c
                 PROVE  FreshOf(t, c)'
      BY <2>0, <2>1 DEF FreshOf
    <2>2. InFlight(c) /\ Own(th[t].got, c) /\ Own(th[t].end, c)
          /\ (calls[c] = "read" =>
               ReadInFlight(c) /\ th[t].got.what # "piece" /\ th[t].pc # "prompt")
          /\ (calls[c] # "read" => th[t].got.what \in {"none", "SEQ"})
          /\ (calls[c] = "bin" =>
               /\ BinInFlight(c)
               /\ th[t].end.what # "OK" \/ took[c] = c
               /\ th[t].pc = "prompt" => NotYetSent(c))
      BY <1>0, <2>0 DEF FreshOf
    <2>3. /\ line \in OwnLine(c) /\ (calls[c] = "read" => line \in NoPiece)
          /\ (calls[c] = "bin" => line \in NotOK \/ took[c] = c)
      BY <2>0, <2>2, NextLineFlight
    <2>4. CASE typed' = typed
      <3>1. /\ InFlight(c)' /\ (calls[c] = "read" => ReadInFlight(c)') /\ (calls[c] = "bin" => BinInFlight(c)')
            /\ (calls[c] = "bin" /\ NotYetSent(c) => NotYetSent(c)')
        BY <2>0, <2>2, <2>4, NextLineFlight
      <3>2. CASE th'[t].pc = "end" /\ th'[t].end = line /\ th'[t].got = th[t].got
                 /\ (line.what = "ERROR" \/ (line.what = "OK" /\ At(t, "collect")))
        <4>1. Own(line, c)
          BY <2>3, <3>2 DEF OwnLine, IsPrompt
        <4> QED BY <2>0, <2>2, <2>3, <3>1, <3>2, <4>1 DEF FreshOf, NotOK
      <3>3. CASE th'[t].pc = th[t].pc /\ th'[t].end = th[t].end /\ At(t, "collect") /\ th'[t].got = Kept(t, line)
        BY <2>0, <2>2, <2>3, <3>1, <3>3, KeptOwn DEF FreshOf, At
      <3>4. CASE th'[t].pc = "end" /\ th'[t].end = Timeout /\ th'[t].got = th[t].got
        <4>1. Own(th'[t].end, c) /\ th'[t].end.what # "OK"
          BY <3>4, OwnTimeout DEF Timeout, Line
        <4> QED BY <2>0, <2>2, <3>1, <3>4, <4>1 DEF FreshOf
      <3>5. CASE th' = th
        BY <2>0, <2>2, <3>1, <3>5 DEF FreshOf
      <3>6. \/ /\ th'[t].pc = "end" /\ th'[t].end = line /\ th'[t].got = th[t].got
               /\ line.what = "ERROR" \/ (line.what = "OK" /\ At(t, "collect"))
            \/ th'[t].pc = th[t].pc /\ th'[t].end = th[t].end /\ At(t, "collect") /\ th'[t].got = Kept(t, line)
            \/ th'[t].pc = "end" /\ th'[t].end = Timeout /\ th'[t].got = th[t].got
            \/ th' = th
            \/ typed' = Append(typed, BytesOf(c)) /\ th'[t].pc = "collect" /\ th'[t].end = th[t].end
               /\ th'[t].got = th[t].got /\ At(t, "prompt")
        BY <1>0, <1>2, NextLineHand DEF BytesOf
      <3>7. typed' # Append(typed, BytesOf(c))
        <4>1. Len(typed) \in Nat /\ Len(Append(typed, BytesOf(c))) = Len(typed) + 1
          BY <1>0 DEF TypeOK
        <4> QED BY <2>4, <4>1
      <3> QED BY <3>2, <3>3, <3>4, <3>5, <3>6, <3>7
    <2>5. CASE typed' = Append(typed, BytesOf(c)) /\ th'[t].pc = "collect" /\ th'[t].end = th[t].end
               /\ th'[t].got = th[t].got /\ At(t, "prompt")
      <3>1. InFlight(c)' /\ (calls[c] = "bin" => BinInFlight(c)') /\ calls[c] # "read"
        BY <2>0, <2>2, <2>5, DataFlight DEF At
      <3> QED BY <2>0, <2>2, <2>5, <3>1 DEF FreshOf
    <2> QED BY <1>0, <1>2, <2>4, <2>5, NextLineHand DEF BytesOf
  <1>3. CASE TimesOut(t)
    <2>1. /\ th'[t].call = th[t].call /\ th'[t].got = th[t].got /\ th'[t].pc = "end" /\ th'[t].end = Timeout
          /\ th[t].pc \in {"collect", "prompt"}
          /\ UNCHANGED <<typed, line_q, junk, bin_entry, took, m, wire, resp, rx, calls>>
      BY <1>0, <1>3, TimesOutHand DEF TimesOut, shared, At
    <2>2. th'[t].fresh => th[t].fresh
      <3>1. th'[t].fresh = th[t].fresh
        BY <1>0, <1>3, TimesOutHand
      <3> QED BY <3>1, Zenon
    <2>3. Own(th'[t].end, c) /\ th'[t].end.what # "OK"
      BY <2>1, OwnTimeout DEF Timeout, Line
    <2>4. /\ InFlight(c) => InFlight(c)'
          /\ ReadInFlight(c) => ReadInFlight(c)'
          /\ BinInFlight(c) => BinInFlight(c)'
      BY <2>1, FlightStays
    <2> QED BY <1>0, <2>1, <2>2, <2>3, <2>4 DEF FreshOf
  <1>4. CASE End(t) \/ Found(t) \/ GiveUp(t)
    <2>1. Begin(t, "ready") \/ WaitFor(t) \/ Return(t)
      BY <1>4 DEF End, Found, GiveUp
    <2>2. th'[t].pc \notin {"collect", "prompt", "end"}
      BY <1>0, <2>1, BeginHand, WaitHand, ReturnHand DEF AnyOp
    <2> QED BY <2>2 DEF FreshOf
  <1> QED BY <1>1, <1>2, <1>3, <1>4 DEF HostStep

\* Only the thread that holds the lock touches what is on the way to and from it.
LEMMA FreshApart ==
  ASSUME IInv, NEW t \in Threads, NEW u \in Threads \ {t}, NEW c \in 1..MaxCalls,
         HostStep(u) \/ \E op \in Ops[u] : Start(u, op)
  PROVE  FreshOf(t, c)'
  <1> USE DEF record, module, lines, shared
  <1>0. FreshOf(t, c) /\ TypeOK /\ LockInv /\ HandInv
    BY DEF IInv, FreshInv
  <1>1. th'[t] = th[t]
    <2>1. CASE HostStep(u)
      BY <1>0, <2>1, HostMoves
    <2>2. ASSUME NEW op \in Ops[u], Start(u, op) PROVE th'[t] = th[t]
      BY <1>0, <2>2, StartMoves, BeginHand
    <2> QED BY <2>1, <2>2
  <1> SUFFICES ASSUME th[t].pc \in {"collect", "prompt", "end"}, th[t].call = c
               PROVE  FreshOf(t, c)'
    BY <1>1 DEF FreshOf
  <1>2. cmd_lock = t
    BY <1>0 DEF LockInv
  <1>3. ~Send(u) /\ ~NextLine(u) /\ ~TimesOut(u) /\ ~End(u)
    <2>1. th[u].pc \notin {"collect", "prompt", "end"}
      BY <1>0, <1>2 DEF LockInv
    <2>2. t # "nobody"
      BY Constants
    <2> QED BY <1>2, <2>1, <2>2 DEF Send, LockFree, NextLine, TimesOut, End, At
  <1>4. UNCHANGED <<typed, line_q, junk, bin_entry, took, m, wire, resp, rx>>
    BY <1>3 DEF HostStep, Start, Found, GiveUp
  <1>5. calls'[c] = calls[c]
    <2>1. CASE UNCHANGED calls
      BY <2>1
    <2>2. ASSUME NEW op \in Ops[u], Start(u, op) PROVE calls'[c] = calls[c]
      <3>1. c \in 1..Len(calls)
        BY <1>0 DEF HandInv
      <3> QED BY <1>0, <2>2, <3>1, StartMoves, BeginHand
    <2> QED BY <1>3, <2>1, <2>2 DEF HostStep, Found, GiveUp
  <1>6. /\ InFlight(c) => InFlight(c)'
        /\ ReadInFlight(c) => ReadInFlight(c)'
        /\ BinInFlight(c) => BinInFlight(c)'
        /\ NotYetSent(c) => NotYetSent(c)'
    BY <1>4, FlightStays
  <1> QED BY <1>0, <1>1, <1>4, <1>5, <1>6 DEF FreshOf

LEMMA FreshStep ==
  ASSUME IInv, [Next]_vars
  PROVE  FreshInv'
  <1> SUFFICES ASSUME NEW t \in Threads, NEW c \in 1..MaxCalls PROVE FreshOf(t, c)'
    BY DEF FreshInv
  <1>1. ASSUME NEW u \in Threads, HostStep(u) PROVE FreshOf(t, c)'
    BY <1>1, FreshOwn, FreshApart
  <1>2. ASSUME NEW u \in Threads, NEW op \in Ops[u], Start(u, op) PROVE FreshOf(t, c)'
    <2>1. CASE u = t
      <3>1. th'[t].pc = "lock"
        BY <1>2, <2>1, StartMoves, BeginHand DEF IInv
      <3> QED BY <3>1 DEF FreshOf
    <2>2. CASE u # t
      BY <1>2, <2>2, FreshApart
    <2> QED BY <2>1, <2>2
  <1>3. CASE Module \/ Host \/ \E what \in Unasked : Prompt(what)
    BY <1>3, FreshOther
  <1>4. CASE UNCHANGED vars
    <2>1. UNCHANGED <<typed, line_q, junk, bin_entry, took, m, wire, resp, rx, calls, th>>
      BY <1>4 DEF vars, shared, record, lines, module
    <2>2. FreshOf(t, c)
      BY DEF IInv, FreshInv
    <2> QED BY <2>1, <2>2, FlightStays DEF FreshOf
  <1> QED BY <1>1, <1>2, <1>3, <1>4 DEF Next

-----------------------------------------------------------------------------
(* A call that waits for a report, and the invariant.                      *)

LEMMA HandNumber ==
  ASSUME TypeOK, HandInv, NEW t \in Threads, th[t].pc # "idle"
  PROVE  th[t].call \in 1..MaxCalls
  <1>1. Len(calls) \in Nat /\ Len(calls) <= MaxCalls
    BY DEF TypeOK
  <1>2. th[t].call \in 1..Len(calls)
    BY DEF HandInv
  <1> QED BY <1>1, <1>2, Constants

LEMMA WaitStep ==
  ASSUME IInv, [Next]_vars
  PROVE  WaitInv'
  <1>0. TypeOK /\ WaitInv
    BY DEF IInv
  <1> SUFFICES ASSUME NEW t \in Threads PROVE (th[t].pc = "wait" /\ th[t].fresh => th[t].got.of = th[t].call)'
    BY DEF WaitInv
  <1>1. CASE th'[t] = th[t]
    BY <1>0, <1>1 DEF WaitInv
  <1>2. CASE HostStep(t)
    <2>1. CASE End(t) /\ Awaits(t) /\ WaitFor(t)
      <3>1. /\ th'[t].call = th[t].call /\ th'[t].got = th[t].got
            /\ th[t].pc = "end" /\ th[t].got.what = "SEQ"
        BY <1>0, <2>1, WaitHand DEF End, At, Awaits
      <3>2. th'[t].fresh => th[t].fresh
        <4>1. th'[t].fresh = th[t].fresh
          BY <1>0, <2>1, WaitHand
        <4> QED BY <4>1, Zenon
      <3>3. th[t].call \in 1..MaxCalls
        BY <3>1, HandNumber DEF IInv
      <3>4. th[t].fresh => Own(th[t].got, th[t].call)
        BY <3>1, <3>3 DEF IInv, FreshInv, FreshOf
      <3> QED BY <3>1, <3>2, <3>4 DEF Own
    <2>2. CASE End(t) /\ (Begin(t, "ready") \/ Return(t))
      <3>1. th'[t].pc # "wait"
        BY <1>0, <2>2, BeginHand, ReturnHand DEF AnyOp
      <3> QED BY <3>1
    <2>3. CASE Send(t) \/ TimesOut(t) \/ Found(t) \/ GiveUp(t)
      <3>1. th'[t].pc # "wait"
        BY <1>0, <2>3, SendHand, TimesOutHand, ReturnHand DEF Found, GiveUp
      <3> QED BY <3>1
    <2>4. CASE NextLine(t)
      <3>1. th'[t].pc # "wait"
        BY <1>0, <2>4, NextLineHand DEF NextLine, At
      <3> QED BY <3>1
    <2> QED BY <1>2, <2>1, <2>2, <2>3, <2>4 DEF HostStep, End
  <1>3. ASSUME NEW u \in Threads, HostStep(u), u # t PROVE th'[t] = th[t]
    BY <1>0, <1>3, HostMoves
  <1>4. ASSUME NEW u \in Threads, NEW op \in Ops[u], Start(u, op)
        PROVE  th'[t] = th[t] \/ th'[t].pc = "lock"
    BY <1>0, <1>4, StartMoves, BeginHand
  <1>5. Module \/ Host \/ (\E what \in Unasked : Prompt(what)) \/ UNCHANGED vars => th' = th
    BY DEF Module, Receive, Take, PromptHost, EntryEnds, PrintNext, Boot, Report,
           Host, Read, OnLine, GetEvent, Prompt, vars
  <1>6. CASE th'[t].pc = "lock"
    BY <1>6
  <1> QED BY <1>1, <1>2, <1>3, <1>4, <1>5, <1>6 DEF Next

LEMMA InitInv == Init => IInv
  <1> SUFFICES ASSUME Init PROVE IInv
    OBVIOUS
  <1>1. TypeOK
    BY InitType
  <1>2. \A t \in Threads : th[t].pc = "idle"
    BY DEF Init, InHand
  <1>3. ModuleInv
    BY DEF Init, ModuleInv, Idle
  <1>4. LockInv
    <2>1. \A t \in Threads : t # "nobody"
      BY Constants
    <2> QED BY <1>2, <2>1 DEF Init, LockInv
  <1>5. HandInv /\ MarkInv /\ FreshInv /\ WaitInv
    BY <1>2 DEF HandInv, MarkInv, FreshInv, FreshOf, WaitInv
  <1>6. SentInv
    <2>1. NoLine \in SentLine
      BY NoLineType DEF NoLine, SentLine, Line
    <2>2. m.pc \notin Busy /\ m.todo = <<>> /\ rx.line = NoLine
      BY DEF Init, Idle, RxIdle, Busy
    <2> QED BY <2>1, <2>2, EmptySeq DEF Init, SentInv
  <1> QED BY <1>1, <1>3, <1>4, <1>5, <1>6 DEF IInv

LEMMA NextInv == IInv /\ [Next]_vars => IInv'
  <1> SUFFICES ASSUME IInv, [Next]_vars PROVE IInv'
    OBVIOUS
  <1> USE DEF IInv
  <1>1. TypeOK' /\ ModuleInv'
    BY NextType
  <1>2. FreshInv' /\ WaitInv'
    BY FreshStep, WaitStep
  <1>3. LockInv' /\ HandInv' /\ SentInv' /\ MarkInv'
    <2>1. ASSUME NEW t \in Threads, HostStep(t) \/ \E op \in Ops[t] : Start(t, op)
          PROVE  LockInv' /\ HandInv' /\ SentInv' /\ MarkInv'
      BY <2>1, HandStep, HostSent, HostLock, HostMark
    <2>2. CASE Host \/ Module \/ \E what \in Unasked : Prompt(what)
      <3>1. UNCHANGED <<calls, th, cmd_lock>>
        BY <2>2 DEF Module, Receive, Take, PromptHost, EntryEnds, PrintNext, Boot, Report,
                    Host, Read, OnLine, GetEvent, Prompt, shared
      <3>2. LockInv' /\ HandInv'
        BY <3>1 DEF LockInv, HandInv
      <3>3. SentInv'
        BY <2>2, ReaderSent, ModuleSent, PromptSent
      <3>4. history' = history \/ \E line \in AnyLine : history' = Append(history, line)
        <4>1. rx.line \in AnyLine
          BY DEF TypeOK
        <4>2. CASE Host
          <5>1. history' = history \/ history' = Append(history, rx.line)
            BY <4>2 DEF Host, Read, OnLine, SortLine, GetEvent
          <5> QED BY <4>1, <5>1
        <4>3. CASE Module \/ \E what \in Unasked : Prompt(what)
          BY <4>3 DEF Module, Receive, Take, PromptHost, EntryEnds, PrintNext, Boot, Report, Prompt, record
        <4> QED BY <2>2, <4>2, <4>3
      <3> QED BY <3>1, <3>2, <3>3, <3>4, MarkStays
    <2>3. CASE UNCHANGED vars
      <3>1. UNCHANGED <<calls, th, cmd_lock, history, typed, line_q, m, took, reports, wire, rx>>
        BY <2>3 DEF vars, shared, record, lines, module
      <3>2. LockInv' /\ HandInv' /\ MarkInv'
        BY <3>1 DEF LockInv, HandInv, MarkInv
      <3>3. SentInv'
        BY <3>1, SameSent DEF SentInv
      <3> QED BY <3>2, <3>3
    <2> QED BY <2>1, <2>2, <2>3 DEF Next
  <1> QED BY <1>1, <1>2, <1>3

LEMMA Invariant == Spec => []IInv
  BY InitInv, NextInv, PTL DEF Spec

\* Type correctness of the host's driver and of the module's end of the line: the hands of
\* the threads, the lines on their way, the prompts, for any threads, commands and queue.
THEOREM TypeCorrect == Spec => []TypeOK
  BY Invariant, PTL DEF IInv

\* cmd() on a quiet link: what _begin, _collect and the reader's _on_line give a command
\* that was sent after the link had become quiet is its own answer, whatever prompts come.
THEOREM OwnAnswerHolds == Spec => []OwnAnswer
  <1>1. IInv => OwnAnswer
    <2> SUFFICES ASSUME IInv, NEW t \in Threads, At(t, "end"), th[t].fresh
                 PROVE  /\ Own(th[t].end, th[t].call)
                        /\ th[t].end.what = "OK" => Own(th[t].got, th[t].call) /\ th[t].got.what # "piece"
      BY DEF OwnAnswer
    <2> DEFINE c == th[t].call
    <2>1. c \in 1..MaxCalls
      BY HandNumber DEF At, IInv
    <2>2. FreshOf(t, c)
      BY <2>1 DEF IInv, FreshInv
    <2> QED BY <2>2 DEF FreshOf, At
  <1> QED BY <1>1, Invariant, PTL

\* cmd_binary() on a quiet link: the prompt, the bytes and the OK it returns with are those
\* of its own entry, so the module has taken its data and not those of another command.
THEOREM OwnDataHolds == Spec => []OwnData
  <1>1. IInv => OwnData
    <2> SUFFICES ASSUME IInv, NEW t \in Threads, At(t, "end"), th[t].fresh, Op(t) = "bin", th[t].end.what = "OK"
                 PROVE  took[th[t].call] = th[t].call
      BY DEF OwnData
    <2> DEFINE c == th[t].call
    <2>1. c \in 1..MaxCalls
      BY HandNumber DEF At, IInv
    <2>2. FreshOf(t, c)
      BY <2>1 DEF IInv, FreshInv
    <2> QED BY <2>2 DEF FreshOf, At, Op
  <1> QED BY <1>1, Invariant, PTL

\* wait_for(): the mark that was taken before the command was sent is before the report on
\* that command in the history, so a report that has come is found whatever came first.
THEOREM ReportNotMissedHolds == Spec => ReportNotMissed
  <1> DEFINE Good == \A t \in Threads : At(t, "wait") /\ th[t].fresh /\ GiveUp(t) =>
                         Line("report", th[t].call) \notin ToSet(history)
  <1>1. IInv => Good
    <2> SUFFICES ASSUME IInv, NEW t \in Threads, At(t, "wait"), th[t].fresh, GiveUp(t),
                        Line("report", th[t].call) \in ToSet(history)
                 PROVE  FALSE
      OBVIOUS
    <2> DEFINE c == th[t].call
               k == th[t].mark
               after == SubSeq(history, k + 1, Len(history))
    <2>1. PICK i \in 1..Len(history) : history[i] = Line("report", c)
      BY DEF ToSet, IInv, TypeOK
    <2>2. th[t].got.of = c /\ k \in Nat /\ Len(history) \in Nat /\ history \in Seq(AnyLine)
      BY DEF IInv, WaitInv, At, TypeOK, AnyInHand
    <2>3. i > k
      <3>1. history[i].of = c
        BY <2>1 DEF Line
      <3>2. \A j \in 1..k : history[j].of < c
        BY DEF IInv, MarkInv, At
      <3>3. c \in Nat
        BY DEF IInv, HandInv, At
      <3> HIDE DEF c, k
      <3> QED BY <2>2, <3>1, <3>2, <3>3
    <2>4. after[i - k] = history[i] /\ i - k \in DOMAIN after
      <3> HIDE DEF k
      <3>1. i - k \in 1..Len(history) - k /\ k + 1 \in 1..Len(history) + 1
        BY <2>2, <2>3
      <3>2. Len(after) = Len(history) - k /\ \A j \in 1..Len(history) - k : after[j] = history[k + j]
        BY <2>2, <2>3
      <3>3. DOMAIN after = 1..Len(after)
        BY <2>2
      <3>4. k + (i - k) = i
        BY <2>2
      <3> QED BY <3>1, <3>2, <3>3, <3>4
    <2>5. Line("report", c) \in ToSet(after)
      BY <2>1, <2>4 DEF ToSet
    <2>6. ~InHistory(t)
      BY DEF GiveUp
    <2> QED BY <2>2, <2>5, <2>6 DEF InHistory
  <1>2. IInv => [Good]_vars
    BY <1>1
  <1> QED BY <1>2, Invariant, PTL DEF ReportNotMissed

-----------------------------------------------------------------------------
(* What sifting a sequence of lines for prompts does: the recursion Prompts. *)

LEMMA Induction ==
  ASSUME NEW T, 0 \in T, \A n \in Nat : n \in T => n + 1 \in T
  PROVE  Nat \subseteq T
  <1> DEFINE R == {p \in Nat \X Nat : p[1] < p[2]}
             Out == Nat \ T
  <1>1. IsWellFoundedOn(R, Nat)
    <2>1. IsWellFoundedOn(OpToRel(<, Nat), Nat)
      BY NatLessThanWellFounded
    <2>2. OpToRel(<, Nat) = R
      BY DEF OpToRel
    <2> QED BY <2>1, <2>2
  <1> HIDE DEF R
  <1> SUFFICES ASSUME Out # {} PROVE FALSE
    OBVIOUS
  <1>2. PICK n \in Out : \A k \in Out : <<k, n>> \notin R
    <2>1. Out \subseteq Nat
      OBVIOUS
    <2> HIDE DEF Out
    <2> QED BY <1>1, <2>1, WFMin
  <1>3. n \in Nat /\ n # 0
    OBVIOUS
  <1>4. n - 1 \in Nat /\ <<n - 1, n>> \in R
    BY <1>3 DEF R
  <1>5. n - 1 \in T
    BY <1>2, <1>4
  <1> QED BY <1>3, <1>4, <1>5

\* The equation that defines Prompts has a solution for every sequence of lines.
Sift(kept, line) == IF IsPrompt(line) THEN Append(kept, line) ELSE kept
Sifted(f, s, N)  == [n \in 0..N |-> IF n = 0 THEN <<>> ELSE Sift(f[n - 1], s[n])]

LEMMA SiftedExists ==
  ASSUME NEW s, NEW N \in Nat
  PROVE  \E f : f = Sifted(f, s, N)
  <1> DEFINE T == {n \in Nat : \E f : f = Sifted(f, s, n)}
  <1>1. 0 \in T
    <2> DEFINE f == [n \in 0..0 |-> <<>>]
    <2>1. f = Sifted(f, s, 0)
      BY DEF Sifted
    <2> QED BY <2>1
  <1>2. ASSUME NEW n \in Nat, n \in T PROVE n + 1 \in T
    <2>1. PICK f : f = Sifted(f, s, n)
      BY <1>2
    <2> DEFINE g == [k \in 0..n + 1 |-> IF k <= n THEN f[k] ELSE Sift(f[n], s[n + 1])]
    <2>2. ASSUME NEW k \in 0..n + 1
          PROVE  g[k] = IF k = 0 THEN <<>> ELSE Sift(g[k - 1], s[k])
      <3>1. CASE k <= n
        <4>1. f[k] = IF k = 0 THEN <<>> ELSE Sift(f[k - 1], s[k])
          BY <2>1, <3>1 DEF Sifted
        <4>2. k # 0 => g[k - 1] = f[k - 1]
          BY <3>1
        <4> QED BY <3>1, <4>1, <4>2
      <3>2. CASE k = n + 1
        BY <3>2
      <3> QED BY <3>1, <3>2
    <2>3. g = Sifted(g, s, n + 1)
      BY <2>2 DEF Sifted
    <2> QED BY <2>3
  <1> HIDE DEF T
  <1>3. Nat \subseteq T
    BY <1>1, <1>2, Induction
  <1> QED BY <1>3 DEF T

\* The function that Prompts(s) is the last value of.
First(s) == CHOOSE f : f = Sifted(f, s, Len(s))

LEMMA FirstDef ==
  ASSUME NEW s, Len(s) \in Nat
  PROVE  /\ Prompts(s) = First(s)[Len(s)]
         /\ First(s)[0] = <<>>
         /\ \A n \in 1..Len(s) : First(s)[n] = Sift(First(s)[n - 1], s[n])
  <1>1. Prompts(s) = First(s)[Len(s)]
    BY DEF Prompts, First, Sifted, Sift
  <1> DEFINE F == First(s)
  <1>2. F = Sifted(F, s, Len(s))
    BY SiftedExists DEF First
  <1> HIDE DEF F
  <1>3. \A n \in 0..Len(s) : F[n] = IF n = 0 THEN <<>> ELSE Sift(F[n - 1], s[n])
    BY <1>2 DEF Sifted
  <1>4. F[0] = <<>> /\ \A n \in 1..Len(s) : F[n] = Sift(F[n - 1], s[n])
    BY <1>3
  <1> QED BY <1>1, <1>4 DEF F

LEMMA SiftType ==
  ASSUME NEW S, NEW kept \in Seq(S), NEW e \in S
  PROVE  Sift(kept, e) \in Seq(S)
  BY AppendProperties DEF Sift

\* What is sifted from the first n lines is a sequence of lines, and does not depend on
\* what follows.
LEMMA ConcatAppend ==
  ASSUME NEW S, NEW s \in Seq(S), NEW t \in Seq(S), NEW e \in S
  PROVE  s \o Append(t, e) = Append(s \o t, e)
  <1>1. Append(t, e) = t \o <<e>> /\ <<e>> \in Seq(S)
    BY AppendIsConcat
  <1>2. s \o t \in Seq(S)
    BY ConcatProperties
  <1>3. Append(s \o t, e) = (s \o t) \o <<e>>
    BY <1>2, AppendIsConcat
  <1> QED BY <1>1, <1>3, ConcatAssociative

LEMMA FirstsType ==
  ASSUME NEW S, NEW s \in Seq(S)
  PROVE  \A n \in 0..Len(s) : First(s)[n] \in Seq(S)
  <1> DEFINE F == First(s)
             T == {n \in Nat : n <= Len(s) => F[n] \in Seq(S)}
  <1>0. Len(s) \in Nat /\ \A i \in 1..Len(s) : s[i] \in S
    OBVIOUS
  <1>1. F[0] = <<>> /\ \A n \in 1..Len(s) : F[n] = Sift(F[n - 1], s[n])
    BY <1>0, FirstDef
  <1> HIDE DEF F
  <1>2. 0 \in T
    BY <1>1, EmptySeq
  <1>3. ASSUME NEW n \in Nat, n \in T PROVE n + 1 \in T
    <2> SUFFICES ASSUME n + 1 <= Len(s) PROVE F[n + 1] \in Seq(S)
      OBVIOUS
    <2>1. F[n] \in Seq(S) /\ n + 1 \in 1..Len(s)
      BY <1>0, <1>3
    <2>2. F[n + 1] = Sift(F[n], s[n + 1])
      BY <1>1, <2>1
    <2> QED BY <1>0, <2>1, <2>2, SiftType
  <1> HIDE DEF T
  <1>4. Nat \subseteq T
    BY <1>2, <1>3, Induction
  <1>5. \A n \in 0..Len(s) : F[n] \in Seq(S)
    BY <1>0, <1>4 DEF T
  <1> QED BY <1>5 DEF F

LEMMA FirstOfMore ==
  ASSUME NEW S, NEW s \in Seq(S), NEW e \in S
  PROVE  \A n \in 0..Len(s) : First(Append(s, e))[n] = First(s)[n]
  <1> DEFINE F == First(s)
             a == Append(s, e)
             G == First(a)
             T == {n \in Nat : n <= Len(s) => G[n] = F[n]}
  <1>0. /\ Len(s) \in Nat /\ Len(a) = Len(s) + 1
        /\ \A i \in 1..Len(s) : a[i] = s[i]
    BY AppendProperties
  <1>1. F[0] = <<>> /\ \A n \in 1..Len(s) : F[n] = Sift(F[n - 1], s[n])
    BY <1>0, FirstDef
  <1>2. G[0] = <<>> /\ \A n \in 1..Len(a) : G[n] = Sift(G[n - 1], a[n])
    <2>1. Len(a) \in Nat
      BY <1>0
    <2> HIDE DEF a
    <2> QED BY <2>1, FirstDef
  <1> HIDE DEF F, G, a
  <1>3. 0 \in T
    BY <1>1, <1>2
  <1>4. ASSUME NEW n \in Nat, n \in T PROVE n + 1 \in T
    <2> SUFFICES ASSUME n + 1 <= Len(s) PROVE G[n + 1] = F[n + 1]
      OBVIOUS
    <2>1. G[n] = F[n] /\ n + 1 \in 1..Len(s) /\ n + 1 \in 1..Len(a) /\ (n + 1) - 1 = n
      BY <1>0, <1>4
    <2>2. F[n + 1] = Sift(F[n], s[n + 1]) /\ G[n + 1] = Sift(G[n], a[n + 1])
      BY <1>1, <1>2, <2>1
    <2> QED BY <1>0, <2>1, <2>2
  <1> HIDE DEF T
  <1>5. Nat \subseteq T
    BY <1>3, <1>4, Induction
  <1>6. \A n \in 0..Len(s) : G[n] = F[n]
    BY <1>0, <1>5 DEF T
  <1> QED BY <1>6 DEF F, G, a

LEMMA PromptsType ==
  ASSUME NEW S, NEW s \in Seq(S)
  PROVE  Prompts(s) \in Seq(S)
  <1>1. Len(s) \in Nat
    OBVIOUS
  <1> QED BY <1>1, FirstDef, FirstsType

LEMMA PromptsNone == Prompts(<<>>) = <<>>
  <1>1. Len(<<>>) = 0
    OBVIOUS
  <1>2. Prompts(<<>>) = First(<<>>)[Len(<<>>)] /\ First(<<>>)[0] = <<>>
    BY <1>1, FirstDef
  <1> QED BY <1>1, <1>2

\* One line more.
LEMMA PromptsAppend ==
  ASSUME NEW S, NEW s \in Seq(S), NEW e \in S
  PROVE  Prompts(Append(s, e)) = Sift(Prompts(s), e)
  <1> DEFINE a == Append(s, e)
             N == Len(s)
  <1>1. N \in Nat /\ Len(a) = N + 1 /\ a[N + 1] = e
    BY AppendProperties
  <1>2. Prompts(s) = First(s)[N]
    BY <1>1, FirstDef
  <1>3. First(a)[N] = First(s)[N]
    BY <1>1, FirstOfMore
  <1>4. Prompts(a) = First(a)[N + 1] /\ First(a)[N + 1] = Sift(First(a)[N], a[N + 1])
    <2> HIDE DEF a, N
    <2>1. Len(a) \in Nat /\ N + 1 \in 1..Len(a) /\ (N + 1) - 1 = N
      BY <1>1
    <2> QED BY <1>1, <2>1, FirstDef
  <1> HIDE DEF a, N
  <1>5. Prompts(a) = Sift(Prompts(s), e)
    BY <1>1, <1>2, <1>3, <1>4
  <1> QED BY <1>5 DEF a

\* One line before.
LEMMA PromptsCons ==
  ASSUME NEW S, NEW x \in S, NEW s \in Seq(S)
  PROVE  Prompts(<<x>> \o s) = Sift(<<>>, x) \o Prompts(s)
  <1> DEFINE p == Sift(<<>>, x)
             T == {n \in Nat : \A w \in Seq(S) : Len(w) = n => Prompts(<<x>> \o w) = p \o Prompts(w)}
  <1>0. p \in Seq(S) /\ <<x>> \in Seq(S)
    <2>1. p \in Seq(S)
      BY SiftType, EmptySeq
    <2>2. <<x>> \in Seq(S)
      OBVIOUS
    <2> QED BY <2>1, <2>2
  <1>1. 0 \in T
    <2> SUFFICES Prompts(<<x>> \o <<>>) = p \o Prompts(<<>>)
      <3>1. \A w \in Seq(S) : Len(w) = 0 => w = <<>>
        OBVIOUS
      <3> QED BY <3>1
    <2>1. <<x>> \o <<>> = <<x>> /\ p \o <<>> = p
      BY <1>0, ConcatEmptySeq
    <2>2. Append(<<>>, x) = <<x>>
      BY OneTyped
    <2>3. Prompts(Append(<<>>, x)) = p
      BY PromptsAppend, PromptsNone, EmptySeq
    <2> QED BY <2>1, <2>2, <2>3, PromptsNone
  <1>2. ASSUME NEW n \in Nat, n \in T PROVE n + 1 \in T
    <2> SUFFICES ASSUME NEW w \in Seq(S), Len(w) = n + 1 PROVE Prompts(<<x>> \o w) = p \o Prompts(w)
      OBVIOUS
    <2>1. PICK v \in Seq(S), e \in S : w = Append(v, e) /\ Len(v) = n
      <3> DEFINE v == SubSeq(w, 1, n)
      <3>1. v \in Seq(S) /\ Len(v) = n /\ \A i \in 1..n : v[i] = w[i]
        BY SubSeqProperties
      <3>2. w[n + 1] \in S
        OBVIOUS
      <3> HIDE DEF v
      <3>3. /\ Append(v, w[n + 1]) \in Seq(S) /\ Len(Append(v, w[n + 1])) = n + 1
            /\ \A i \in 1..n : Append(v, w[n + 1])[i] = v[i]
            /\ Append(v, w[n + 1])[n + 1] = w[n + 1]
        BY <3>1, <3>2, AppendProperties
      <3>4. \A i \in 1..Len(w) : Append(v, w[n + 1])[i] = w[i]
        BY <3>1, <3>3
      <3>5. Append(v, w[n + 1]) = w
        BY <3>3, <3>4, SeqEqual
      <3> QED BY <3>1, <3>2, <3>5
    <2>2. Prompts(<<x>> \o v) = p \o Prompts(v)
      BY <1>2, <2>1
    <2>3. <<x>> \o v \in Seq(S) /\ Prompts(v) \in Seq(S)
      BY <1>0, ConcatProperties, PromptsType
    <2>4. <<x>> \o Append(v, e) = Append(<<x>> \o v, e)
      BY <1>0, ConcatAppend
    <2>5. Prompts(Append(<<x>> \o v, e)) = Sift(p \o Prompts(v), e)
      BY <2>2, <2>3, PromptsAppend
    <2>6. Prompts(w) = Sift(Prompts(v), e)
      BY <2>1, PromptsAppend
    <2>7. Sift(p \o Prompts(v), e) = p \o Sift(Prompts(v), e)
      <3> HIDE DEF p
      <3>1. p \o Append(Prompts(v), e) = Append(p \o Prompts(v), e)
        BY <1>0, <2>3, ConcatAppend
      <3> QED BY <3>1 DEF Sift
    <2> HIDE DEF p
    <2> QED BY <2>1, <2>4, <2>5, <2>6, <2>7
  <1> HIDE DEF T
  <1>3. Nat \subseteq T
    BY <1>1, <1>2, Induction
  <1> QED BY <1>3 DEF T

-----------------------------------------------------------------------------
(* The module prints answers, and prompts only when they come.             *)

\* What the module has to print is no prompt.
Answer == {line \in AnyLine : ~IsPrompt(line)}
AnswersInv == m.todo \in Seq(Answer)

\* What the listeners have had and will have.
Delivered == seen \o events \o Prompts(<<rx.line>> \o wire)

LEMMA AnswerLine ==
  ASSUME NEW c \in Numbers, NEW what \in {"echo", "piece", ">", "value", "SEQ", "OK", "ERROR"}
  PROVE  Line(what, c) \in Answer
  BY DEF Answer, AnyLine, Line, IsPrompt

LEMMA PrintsAnswers ==
  ASSUME NEW what, NEW c \in Numbers, Printing(what, c),
         what \in {<<"SEQ", "OK">>, <<"ERROR">>, <<"value", "OK">>, <<"OK">>}
  PROVE  m'.todo \in Seq(Answer)
  <1>1. \A k \in 1..Len(what) : Line(what[k], c) \in Answer
    BY AnswerLine
  <1>2. Len(what) \in Nat
    OBVIOUS
  <1> QED BY <1>1, <1>2 DEF Answers, Printing

LEMMA HeadTailConcat ==
  ASSUME NEW S, NEW s \in Seq(S), s # <<>>
  PROVE  <<Head(s)>> \o Tail(s) = s
  <1> DEFINE h == <<Head(s)>>
             r == Tail(s)
             c == h \o r
  <1>1. /\ Head(s) \in S /\ r \in Seq(S) /\ Len(r) = Len(s) - 1
        /\ \A i \in 1..Len(r) : r[i] = s[i + 1]
    BY HeadTailProperties
  <1>2. h \in Seq(S) /\ Len(h) = 1 /\ h[1] = s[1] /\ Len(s) \in Nat
    BY <1>1
  <1> HIDE DEF h, r
  <1>3. /\ c \in Seq(S) /\ Len(c) = Len(h) + Len(r)
        /\ \A i \in 1..Len(h) + Len(r) : c[i] = IF i <= Len(h) THEN h[i] ELSE r[i - Len(h)]
    <2>1. h \in Seq(S) /\ r \in Seq(S)
      BY <1>1, <1>2
    <2> QED BY <2>1, ConcatProperties, Zenon DEF c
  <1> HIDE DEF c
  <1>4. Len(c) = Len(s) /\ \A i \in 1..Len(c) : c[i] = s[i]
    BY <1>1, <1>2, <1>3
  <1>5. c = s
    BY <1>3, <1>4, SeqEqual
  <1> QED BY <1>5 DEF c, h, r

LEMMA AnswersStep ==
  ASSUME TypeOK, ModuleInv, AnswersInv, [Next]_vars
  PROVE  AnswersInv'
  <1>1. CASE Take
    <2> DEFINE c == Head(line_q).of
               L == [of : Numbers, whole : BOOLEAN]
    <2>1. c \in Numbers
      <3>1. Head(line_q) \in L
        <4>1. line_q \in Seq(L) /\ line_q # <<>>
          BY <1>1 DEF Take, TypeOK
        <4> HIDE DEF L
        <4> QED BY <4>1
      <3> QED BY <3>1
    <2>2. \/ m' = [pc |-> "arm", call |-> c, todo |-> <<>>]
          \/ Printing(<<"ERROR">>, c) \/ Printing(<<"value", "OK">>, c) \/ Printing(<<"OK">>, c)
      BY <1>1, Zenon DEF Take
    <2>3. CASE m' = [pc |-> "arm", call |-> c, todo |-> <<>>]
      <3>1. m'.todo = <<>>
        BY <2>3
      <3> QED BY <3>1, EmptySeq DEF AnswersInv
    <2>4. CASE Printing(<<"ERROR">>, c) \/ Printing(<<"value", "OK">>, c) \/ Printing(<<"OK">>, c)
      <3> HIDE DEF c
      <3> QED BY <2>1, <2>4, PrintsAnswers DEF AnswersInv
    <2> QED BY <2>2, <2>3, <2>4
  <1>2. CASE PromptHost
    BY <1>2 DEF PromptHost, AnswersInv, TypeOK
  <1>3. CASE EntryEnds
    <2>1. \/ Printing(<<"SEQ", "OK">>, m.call) \/ Printing(<<"ERROR">>, m.call)
      BY <1>3 DEF EntryEnds, SendUnicast
    <2>2. m.call \in Numbers
      BY DEF TypeOK
    <2> QED BY <2>1, <2>2, PrintsAnswers DEF AnswersInv
  <1>4. CASE PrintNext
    <2>1. m' = [m EXCEPT !.todo = Tail(@)] \/ m' = Off \/ m' = Idle
      BY <1>4, Zenon DEF PrintNext, TurnOff
    <2>2. m.todo # <<>>
      BY <1>4 DEF PrintNext, ModuleInv
    <2>3. CASE m' = [m EXCEPT !.todo = Tail(@)]
      <3>1. m'.todo = Tail(m.todo)
        BY <2>3 DEF TypeOK
      <3> QED BY <2>2, <3>1, TailType DEF AnswersInv
    <2>4. CASE m' = Off \/ m' = Idle
      <3>1. m'.todo = <<>>
        BY <2>4 DEF Off, Idle
      <3> QED BY <3>1, EmptySeq DEF AnswersInv
    <2> QED BY <2>1, <2>3, <2>4, Zenon
  <1>5. CASE Boot
    <2>1. m'.todo = <<>>
      BY <1>5 DEF Boot, Idle
    <2> QED BY <2>1, EmptySeq DEF AnswersInv
  <1>6. CASE UNCHANGED m
    BY <1>6 DEF AnswersInv
  <1>7. ASSUME NEW t \in Threads, HostStep(t) \/ \E op \in Ops[t] : Start(t, op) PROVE UNCHANGED m
    BY <1>7 DEF HostStep, Start, Send, NextLine, TimesOut, End, Found, GiveUp, module
  <1>8. Receive \/ (\E c \in reports : Report(c)) \/ Host \/ (\E what \in Unasked : Prompt(what)) \/ UNCHANGED vars
        => UNCHANGED m
    BY DEF Receive, Report, Host, Read, OnLine, GetEvent, Prompt, vars, module
  <1> QED BY <1>1, <1>2, <1>3, <1>4, <1>5, <1>6, <1>7, <1>8 DEF Next, Module

-----------------------------------------------------------------------------
(* EventsDelivered: each step adds to both sides, or to neither.           *)

\* The module prints a line.
LEMMA EmitDelivered ==
  ASSUME TypeOK, NEW line \in AnyLine, Emit(line), UNCHANGED <<seen, events, rx>>
  PROVE  Delivered' = Sift(Delivered, line)
  <1> DEFINE A == AnyLine
             way == <<rx.line>> \o wire
  <1>1. rx.line \in A /\ wire \in Seq(A) /\ seen \in Seq(A) /\ events \in Seq(A) /\ line \in A
    BY DEF TypeOK
  <1>2. <<rx.line>> \in Seq(A)
    BY <1>1
  <1> HIDE DEF A
  <1>3. way \in Seq(A)
    BY <1>1, <1>2, ConcatProperties
  <1>4. <<rx.line>> \o Append(wire, line) = Append(way, line)
    BY <1>1, <1>2, ConcatAppend
  <1>5. Prompts(Append(way, line)) = Sift(Prompts(way), line) /\ Prompts(way) \in Seq(A)
    BY <1>1, <1>3, PromptsAppend, PromptsType
  <1>6. Delivered' = seen \o events \o Prompts(Append(way, line))
    BY <1>4 DEF Delivered, Emit
  <1>7. Delivered = seen \o events \o Prompts(way)
    BY DEF Delivered
  <1> HIDE DEF way
  <1>8. CASE IsPrompt(line)
    <2>1. seen \o events \in Seq(A)
      BY <1>1, ConcatProperties
    <2>2. (seen \o events) \o Append(Prompts(way), line) = Append(seen \o events \o Prompts(way), line)
      BY <1>1, <1>5, <2>1, ConcatAppend
    <2> QED BY <1>5, <1>6, <1>7, <1>8, <2>2 DEF Sift
  <1>9. CASE ~IsPrompt(line)
    BY <1>5, <1>6, <1>7, <1>9 DEF Sift
  <1> QED BY <1>8, <1>9

\* The reader and the event thread pass the prompts on.
LEMMA ReaderDelivered ==
  ASSUME TypeOK, Host
  PROVE  Delivered' = Delivered
  <1> DEFINE A == AnyLine
  <1>1. /\ rx.line \in A /\ wire \in Seq(A) /\ seen \in Seq(A) /\ events \in Seq(A)
        /\ NoLine \in A
    BY NoLineType DEF TypeOK
  <1>2. \A x \in A : \A w \in Seq(A) : Prompts(<<x>> \o w) = Sift(<<>>, x) \o Prompts(w)
    BY PromptsCons
  <1>3. Sift(<<>>, NoLine) = <<>>
    BY DEF Sift, IsPrompt, NoLine, Line
  <1>4. \A w \in Seq(A) : Prompts(w) \in Seq(A)
    BY PromptsType
  <1>5. \A s \in Seq(A) : <<>> \o s = s
    BY ConcatEmptySeq
  <1> HIDE DEF A
  <1>6. \A w \in Seq(A) : Prompts(<<NoLine>> \o w) = Prompts(w)
    <2> SUFFICES ASSUME NEW w \in Seq(A) PROVE Prompts(<<NoLine>> \o w) = Prompts(w)
      OBVIOUS
    <2>1. Prompts(<<NoLine>> \o w) = Sift(<<>>, NoLine) \o Prompts(w)
      BY <1>1, <1>2
    <2>2. <<>> \o Prompts(w) = Prompts(w)
      BY <1>4, <1>5
    <2> QED BY <1>3, <2>1, <2>2
  <1>7. CASE Read
    <2>1. rx.line = NoLine /\ wire # <<>> /\ rx'.line = Head(wire) /\ wire' = Tail(wire) /\ UNCHANGED <<seen, events>>
      BY <1>7 DEF Read, RxIdle
    <2>2. <<Head(wire)>> \o Tail(wire) = wire
      BY <1>1, <2>1, HeadTailConcat
    <2> QED BY <1>1, <1>6, <2>1, <2>2 DEF Delivered
  <1>8. CASE OnLine
    <2>1. rx'.line = NoLine /\ UNCHANGED <<seen, wire>>
      BY <1>8 DEF OnLine, RxIdle
    <2>2. events' = Sift(events, rx.line)
      BY <1>8 DEF OnLine, SortLine, Sift
    <2>3. Delivered' = seen \o Sift(events, rx.line) \o Prompts(wire)
      BY <1>1, <1>6, <2>1, <2>2 DEF Delivered
    <2>4. Delivered = seen \o events \o (Sift(<<>>, rx.line) \o Prompts(wire))
      BY <1>1, <1>2 DEF Delivered
    <2>5. seen \o Sift(events, rx.line) = (seen \o events) \o Sift(<<>>, rx.line)
      <3>1. seen \o events \in Seq(A)
        BY <1>1, ConcatProperties
      <3>2. CASE IsPrompt(rx.line)
        <4>1. seen \o Append(events, rx.line) = Append(seen \o events, rx.line)
          BY <1>1, ConcatAppend
        <4>2. Append(seen \o events, rx.line) = (seen \o events) \o <<rx.line>>
          BY <1>1, <3>1, AppendIsConcat
        <4>3. Append(<<>>, rx.line) = <<rx.line>>
          BY OneTyped
        <4> QED BY <3>2, <4>1, <4>2, <4>3 DEF Sift
      <3>3. CASE ~IsPrompt(rx.line)
        <4>1. (seen \o events) \o <<>> = seen \o events
          BY <3>1, ConcatEmptySeq
        <4> QED BY <3>3, <4>1 DEF Sift
      <3> QED BY <3>2, <3>3
    <2>6. ((seen \o events) \o Sift(<<>>, rx.line)) \o Prompts(wire)
          = (seen \o events) \o (Sift(<<>>, rx.line) \o Prompts(wire))
      <3>1. seen \o events \in Seq(A) /\ Sift(<<>>, rx.line) \in Seq(A) /\ Prompts(wire) \in Seq(A)
        BY <1>1, <1>4, ConcatProperties, SiftType, EmptySeq
      <3> DEFINE x == seen \o events
                 y == Sift(<<>>, rx.line)
                 z == Prompts(wire)
      <3>2. x \in Seq(A) /\ y \in Seq(A) /\ z \in Seq(A)
        BY <3>1
      <3> HIDE DEF x, y, z
      <3>3. (x \o y) \o z = x \o (y \o z)
        BY <3>2, ConcatAssociative
      <3> QED BY <3>3 DEF x, y, z
    <2> QED BY <2>3, <2>4, <2>5, <2>6
  <1>9. CASE GetEvent
    <2>1. events # <<>> /\ seen' = Append(seen, Head(events)) /\ events' = Tail(events) /\ UNCHANGED <<rx, wire>>
      BY <1>9 DEF GetEvent
    <2>2. Append(seen, Head(events)) \o Tail(events) = seen \o events
      <3>1. Head(events) \in A /\ Tail(events) \in Seq(A) /\ <<Head(events)>> \o Tail(events) = events
        BY <1>1, <2>1, HeadTailProperties, HeadTailConcat
      <3>2. <<Head(events)>> \in Seq(A) /\ Append(seen, Head(events)) = seen \o <<Head(events)>>
        BY <1>1, <3>1, AppendIsConcat
      <3>3. (seen \o <<Head(events)>>) \o Tail(events) = seen \o (<<Head(events)>> \o Tail(events))
        BY <1>1, <3>1, <3>2, ConcatAssociative
      <3> QED BY <3>1, <3>2, <3>3
    <2> QED BY <2>1, <2>2 DEF Delivered
  <1> QED BY <1>7, <1>8, <1>9 DEF Host

LEMMA ModuleDelivered ==
  ASSUME TypeOK, ModuleInv, AnswersInv, EventsDelivered, Module
  PROVE  EventsDelivered'
  <1> USE DEF record, bounds
  <1>0. UNCHANGED <<seen, events, rx>>
    BY DEF Module, Receive, Take, PromptHost, EntryEnds, PrintNext, Boot, Report
  <1>1. EventsDelivered <=> printed = Delivered
    BY DEF EventsDelivered, Delivered
  <1>2. EventsDelivered' <=> printed' = Delivered'
    BY DEF EventsDelivered, Delivered
  <1>3. CASE UNCHANGED <<wire, printed>>
    BY <1>0, <1>1, <1>2, <1>3 DEF Delivered
  <1>4. ASSUME NEW line \in Answer, Emit(line), UNCHANGED printed PROVE EventsDelivered'
    <2>1. line \in AnyLine /\ ~IsPrompt(line)
      BY DEF Answer
    <2>2. Delivered' = Delivered
      BY <1>0, <1>4, <2>1, EmitDelivered DEF Sift
    <2> QED BY <1>1, <1>2, <1>4, <2>2
  <1>5. CASE Receive
    <2> DEFINE msg == Head(typed)
    <2>1. UNCHANGED printed
      BY <1>5 DEF Receive
    <2>2. msg.of \in Numbers
      <3>1. typed \in Seq(AnyChunk) /\ typed # <<>>
        BY <1>5 DEF Receive, TypeOK, AnyChunk
      <3>2. msg \in AnyChunk
        BY <3>1
      <3> QED BY <3>2 DEF AnyChunk
    <2>3. UNCHANGED wire \/ ToLine(msg)
      BY <1>5, ReceiveKinds
    <2> HIDE DEF msg
    <2>4. UNCHANGED wire \/ Emit(Line("echo", msg.of)) \/ Emit(Line("piece", msg.of))
      BY <2>3, Zenon DEF ToLine, Emit
    <2> QED BY <1>3, <1>4, <2>1, <2>2, <2>4, AnswerLine
  <1>6. CASE Take \/ EntryEnds \/ Boot
    BY <1>3, <1>6 DEF Take, EntryEnds, Boot
  <1>7. CASE PromptHost
    <2>1. m.call \in Numbers /\ Emit(Line(">", m.call)) /\ UNCHANGED printed
      BY <1>7 DEF PromptHost, TypeOK
    <2> QED BY <1>4, <2>1, AnswerLine
  <1>8. CASE PrintNext
    <2>1. m.todo # <<>> /\ Emit(Head(m.todo)) /\ UNCHANGED printed
      BY <1>8 DEF PrintNext, ModuleInv
    <2>2. Head(m.todo) \in Answer
      BY <2>1, TailType DEF AnswersInv
    <2> QED BY <1>4, <2>1, <2>2
  <1>9. ASSUME NEW c \in reports, Report(c) PROVE EventsDelivered'
    <2> DEFINE line == Line("report", c)
    <2>1. line \in AnyLine /\ IsPrompt(line)
      BY DEF TypeOK, AnyLine, Line, IsPrompt
    <2>2. Emit(line) /\ printed' = Append(printed, line)
      BY <1>9 DEF Report, EmitPrompt
    <2>3. Delivered' = Append(Delivered, line)
      BY <1>0, <2>1, <2>2, EmitDelivered DEF Sift
    <2> QED BY <1>1, <1>2, <2>2, <2>3
  <1> QED BY <1>5, <1>6, <1>7, <1>8, <1>9 DEF Module

\* The listeners get every prompt once and in order.
THEOREM EventsDeliveredHolds == Spec => []EventsDelivered
  <1> DEFINE Inv == AnswersInv /\ EventsDelivered
  <1>1. Init => Inv
    <2> SUFFICES ASSUME Init PROVE Inv
      OBVIOUS
    <2>1. m.todo = <<>> /\ rx.line = NoLine
      BY DEF Init, Idle, RxIdle
    <2>2. Prompts(<<NoLine>> \o <<>>) = Sift(<<>>, NoLine) \o Prompts(<<>>)
      BY PromptsCons, NoLineType, EmptySeq
    <2>3. Sift(<<>>, NoLine) = <<>>
      BY DEF Sift, IsPrompt, NoLine, Line
    <2>4. <<>> \o <<>> = <<>>
      OBVIOUS
    <2> QED BY <2>1, <2>2, <2>3, <2>4, PromptsNone, EmptySeq DEF Init, AnswersInv, EventsDelivered
  <1>2. TypeOK /\ ModuleInv /\ Inv /\ [Next]_vars => Inv'
    <2> SUFFICES ASSUME TypeOK, ModuleInv, Inv, [Next]_vars PROVE Inv'
      OBVIOUS
    <2>1. EventsDelivered <=> printed = Delivered
      BY DEF EventsDelivered, Delivered
    <2>2. EventsDelivered' <=> printed' = Delivered'
      BY DEF EventsDelivered, Delivered
    <2>3. CASE Host
      <3>1. UNCHANGED printed
        BY <2>3 DEF Host, Read, OnLine, GetEvent, bounds
      <3> QED BY <2>1, <2>2, <2>3, <3>1, ReaderDelivered, AnswersStep
    <2>4. CASE Module
      BY <2>4, ModuleDelivered, AnswersStep
    <2>5. ASSUME NEW what \in Unasked, Prompt(what) PROVE Inv'
      <3> DEFINE line == Line(what, 0)
      <3>1. line \in AnyLine /\ IsPrompt(line)
        BY Constants, BoundsAssumption DEF AnyLine, Line, IsPrompt, Numbers
      <3>2. Emit(line) /\ printed' = Append(printed, line) /\ UNCHANGED <<seen, events, rx>>
        BY <2>5 DEF Prompt, EmitPrompt, record
      <3>3. Delivered' = Append(Delivered, line)
        BY <3>1, <3>2, EmitDelivered DEF Sift
      <3> QED BY <2>1, <2>2, <3>2, <3>3, AnswersStep
    <2>6. ASSUME NEW t \in Threads, HostStep(t) \/ \E op \in Ops[t] : Start(t, op) PROVE Inv'
      <3>1. UNCHANGED <<seen, events, rx, wire, printed>>
        BY <2>6 DEF HostStep, Start, Send, NextLine, TimesOut, End, Found, GiveUp, record, bounds
      <3> QED BY <2>1, <2>2, <3>1, AnswersStep DEF Delivered
    <2>7. CASE UNCHANGED vars
      <3>1. UNCHANGED <<seen, events, rx, wire, printed>>
        BY <2>7 DEF vars, record, bounds
      <3> QED BY <2>1, <2>2, <3>1, AnswersStep DEF Delivered
    <2> QED BY <2>3, <2>4, <2>5, <2>6, <2>7 DEF Next
  <1>3. IInv => TypeOK /\ ModuleInv
    BY DEF IInv
  <1> QED BY <1>1, <1>2, <1>3, Invariant, PTL DEF Spec
==============================================================================
