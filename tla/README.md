# Verification of the Zigbee AT firmware

TLA+ models of the firmware in `app/src` (paths below are relative to the
repository's root), the TLC runs that check them on small instances, and TLAPS
proofs of the properties that matter most, for every value of the constants.

    tlc -config X.cfg MCX.tla        a run, X.cfg with the MC module of its name
    tlapm X_proofs.tla               the proofs about module X (Sreg's: JoinControl_proofs)

`PROJECT.json` lists components, runs, theorems, the lines of source each
definition stands for, the hazards of the code with the properties aimed at
them, and a plausible bug for every property that TLC shows it to catch.

## 1. The system

The nRF54L15 runs an AT command firmware over ZBOSS and Zephyr; a host (Python,
`host/`) drives it over a UART. One core, several threads:

| Actor | Priority | What it runs |
|---|---|---|
| main thread | 7 | `main`: settings, UART, `zbc_init`, `at_cmd_start`, then it ends |
| AT thread | 7 | `at_cmd_thread`: takes a line, executes it, prints the answer |
| RX thread | 6 | `rx_thread`: what was received, echo, lines, binary entry; enables RX again |
| ZBOSS thread | higher | `zboss_signal_handler`, buffer callbacks, alarms, received frames |
| system workqueue | higher | `reboot_fn` |
| UART interrupt | - | `uart_cb`: end of a transfer, received bytes, buffer requests |

So the ZBOSS thread preempts the AT thread anywhere, and never the other way
round: between two steps of the AT thread any number of handlers may run, and a
handler is one step unless it blocks. It blocks where it prints (`at_print` waits
for `tx_lock` and for room in the ring) and where it writes flash; there the AT
thread does run, and the models split the handler.

### Components

**Network life cycle** (`zb_core.c`, `at_cmd.c`, `main.c`). State: `stored_role`,
`stack_started`, the handshake `op`, `op_result`, `op_done`, the pending command,
`reboot_work`; in flash `at/zb/role`, `at/zb/pend` and ZBOSS's NVRAM. Operations:
`AT+EN`, `AT+JN`, `AT+JPAN`, `AT+DASSL`, `AT&F`, `ATZ`, the signals of ZBOSS, boot.
Hard: the AT thread times out while ZBOSS completes; signals of an earlier attempt
come during the next; the node is removed while it answers; power fails between
two flash writes. Correct when every command ends, no answer is mixed up, and RAM,
flash and NVRAM agree about the network.

**UART transmit** (`at_uart.c`). State: the ring, `tx_lock`, `tx_idle`, the running
transfer. Three threads print; the interrupt continues the transfer. Hard: the
wakeup race between `tx_flush` and the interrupt, lines longer than the ring.
Correct when lines are atomic, in order, complete, and none is stuck.

**UART receive** (`at_uart.c`). State: slab blocks with reference counts, the queue of
reports, `rx_disabled`. Hard: blocks that the driver has left and the thread has not
read; full queue; RX that stops at any moment. Correct when no block is reused
early or lost and RX comes back.

**Line and binary entry** (`at_uart.c`, `at_cmd.c`). State: `rx_line`, `rx_overflow`,
`line_q`, `bin_need`, `bin_have`, `bin_done`. Hard: bytes at any moment of
`at_uart_read_binary`, its timeout included. Correct when an entry gets its bytes and
no other and a line is executed as typed or refused.

**Message transmit** (`zb_msg.c`). State: `slots`, `slots_used`, `in_flight`,
`in_flight_count`, `next_seq`. The AT thread submits, ZBOSS sends and reports. Hard:
two threads count with increments that are undone, every call of the stack can fail,
buffers are used again. Correct when nothing leaks and every unicast is reported once.

**Address discovery and match requests** (`zb_msg.c`). State: `disc_ieee`,
`disc_result`, `disc_done`, `match_pending`: static variables that one thread
writes and the other reads later. Hard: late answers to earlier requests. Correct
when an address is that of the node asked for and every command ends.

**Join control** (`zb_core.c`, `zb_secpol.c`). State: the S0A bits, the alarms of
`permit_join_refresh`, the Trust Centre's policy, what ZBOSS has open. Operations:
`sreg_written`, `join_policy_apply`, `permit_join_refresh`, the STEERING and
PERMIT_JOIN_STATUS signals. Hard: the chain of alarms that keeps the network open must
not break when a steering cannot start; closings and openings are messages that wait
for buffers; S0A is half written when it is read. Correct when the network is open, or
closed, as S0A says once S0A is settled.

**S-registers** (`sreg.c`). State: the table `regs` and `at/s/*` in flash. Written in
place by the AT thread while others read; AT&F deletes the settings one by one. Correct
when what was answered OK outlives a reset, nothing half written does, and an AT&F that
the power interrupts does not leave the keys behind a default password.

**Host link** (`host/etrx/protocol.py`, `port.py`). State: `_pending`, the response
queue, the history of prompts, the queue of events, `_cmd_lock`. Callers, a reader
thread and an event thread, whose listeners send commands too, share them. Operations:
`cmd`, `cmd_binary`, `wait_ready`, `reset`, `wait_for`, the reader's `_on_line`. Hard: the
host gives up and the module does not know, so that answers come late and an entry
stays open; prompts come at any moment; `_pending` is read without its lock. Correct when
a command that is sent to a quiet link ends with its own answer, every prompt
reaches the listeners once, no report is missed, and every call ends.

**Message receive and prompts** format one line each and keep no state the properties
tell apart. Of the **parser and hex helpers** the fields and lists of `AT+MATCHREQ` are
modelled, the one parser that writes at a computed place. The host scripts are
sequential over the host link. ZBOSS and Zephyr are external: modelled by what the
firmware sees of them.

### How they interact

The RX thread hands lines to the AT thread by `line_q`; commands call into `zb_core.c`
and `zb_msg.c`, which ask the ZBOSS thread by callbacks (`ZB_SCHEDULE_APP_CALLBACK`,
`zb_buf_get_out_delayed`) and wait on a semaphore (`op_done`, `disc_done`) or return at
once (`submit`, `cmd_matchreq`). ZBOSS answers by signals and callbacks that write the
shared variables and print. All print through `at_print_parts`. `LineStream` is what
the others may assume of it; the other modules take a print as one atomic step, and
as a place where the ZBOSS thread can wait.

## 2. The modules

| Module | Models | Abstract specification |
|---|---|---|
| `ZbCore` | the network life cycle, the dispatcher loop, boot, reset, power failure | `Membership` |
| `UartTx` | the transmit side of the UART | `LineStream` |
| `UartRx` | the receive side of the UART, from driver to thread | |
| `LineEntry` | lines and binary entry, RX thread against AT thread | |
| `MsgTx` | `submit`, `tx_send`, `tx_done`, `report` | `Delivery` |
| `Zdo` | `discover`, and AT+MATCHREQ with the parsing of its line | |
| `Sreg` | the S-registers in RAM and flash: writes, AT&F, boot | |
| `JoinControl` | join control over `Sreg`, which it EXTENDS: S0A against the alarms, signals and messages that apply it | |
| `HostLink` | the host's driver, composed with the module's end of the line | |

A thread's place in its code is a variable (`pc`, `at_pc`, `zb`); each step between two
points where another actor can interfere is an action. `Mut...` operators are not part
of a model: each is the bug that shows a property to be able to fail.

**ZbCore.** `flash_role`, `flash_pend`, `nvram` survive `Reset`, everything else is
`RamInit` again. `at_pc` goes through `run_op` (`run_wait`, `run_timeout`), through
`leave_network` (`leave`, `leave_begin`, `leave_wait`, `leave_timeout`) and through the
clearing of the role (`clear`, `clear_flash`, `wipe`). `zb_todo` holds what is left of
the handler that ZBOSS is running while a flash write blocks it. Commands are the
five that change this state; AT+JN stands for AT+JPAN, which differs in its channel
mask only. ZBOSS (`Stacks`) raises the signals it may raise where `zb_core.c` started
it; it may also refuse, lose its parent, be removed, be asked to rejoin, or never
confirm a reset. Errors of the settings subsystem are not modelled. The wait for the
UART where the handler prints `LeftPAN` is not a step of its own: the flash write
just before it already lets the AT thread run. `complete` does not ask whose operation it
ends, and so a completion may meet an operation that is not its own; `NoStaleCompletion`
says which one cannot: one left in the semaphore, or the failure of a start. `Membership` is the promise of the
commands: one at a time, its answer about itself; OK to a start only after a network of
the role asked for was recorded and saved, OK to a leave only after the record was
deleted; one role in a boot; a reset finds what was saved. `Role` is the role in RAM,
or the one in flash until `zbc_init` has read it, so reading it is no step of
`Membership`; `Done` says where the AT thread has been told that the command has
succeeded, or has seen to it. The promise is weak on purpose while the node leaves
(`Save`): the write of a handler may come between, see `ZbCore_leave`.

**UartTx.** A byte is its writer, line and place, so loss, repetition and reorder are
visible. `ring_buf_put` is two steps, claim and publish; the interrupt can come
between them. `tx_flush` is a test of `tx_idle` and a start. `failed` only records
that `uart_tx` has failed. The refinement maps `printed` to the lines begun and `todo`
to the ring and what the holder of `tx_lock` has not copied yet.

**UartRx.** The driver's `cur` and `nxt` block, `fill` and `ready`; reports are offsets
into blocks. `Ref`, `Unref` and `Alloc` are the counts. The thread's five points are its
loop; `enable` and `clear` are apart because RX can stop between them: in run `UartRx`
it may not (`StopInWindow` FALSE), in `UartRx_deaf` it may. The driver may refuse a block it
asked for, and may refuse to start with one (`Refused`): the block goes back at once.

**LineEntry.** A received byte goes to `BinByte` or `LineByte`; bytes are known by their
number. A line that begins with `BinKey` stands for AT+SENDUCASTB with good parameters;
`Execute` may take any time, as resolving an address does. The time between the
timeout of `k_sem_take` and the taking of `bin_lock` is the state `disarm`.

**MsgTx.** The AT thread is at a step of `submit` or about to print; `wanted` are the
buffers asked for, `carried` what the stack has of us. `Tracked` needs no bound on the
stack's buffers. `told` is what the host reads of each unicast. What the commands
parse, and the payload, are left out. `Delivery` is the promise as the host sees it: a
unicast is refused, and answered ERROR and nothing else, or it is on its way with a limited
number of others, answered SEQ and OK, and reported once, before its answer or
after. `Fate` says where a unicast is in `Delivery` by the place the firmware has it in:
in the AT thread's hands, in a slot that waits for a buffer, with the stack, or in the
handler that reports it.

**Zdo.** An address is the node it belongs to. `asked` are the nodes the stack has ever
asked for: an answer of any of them may come at any time, any number of times. Copying
the EUI64 is one step (8 bytes are copied, a half-copied one matching a third node is
left out); copying a match request is two, one for the profile and one for the clusters.
A line is its fields, a field its length and the value `at_parse_hex_n` reads of it, -1
when it reads none; `Lines` is any set of them. `parse_cluster_list` writes the second
list behind the first: `Parsed` is that concatenation, of a line that is well formed; a
malformed one changes nothing but the answer. `AsTyped` writes what was broadcast as a
line again, independently of the parser. The stack may refuse a match request
(`ZB_ZDO_INVALID_TSN`): nothing is broadcast then, and `refused` says so of the last one.

**Sreg.** A value is the set of its bits, `Digits` says which of them are written together:
`strcpy` goes digit by digit, and another thread, or the power, can come between two. A
setting is written or deleted whole, as NVS does. A register that is read-only has no
values. `OrderAssumption` is a fact about the table in the code: no register
that the password protects comes after it. `echo` stands for `rx_echo`. A write that is
refused changes nothing and is no step. `reboot` is the time from the answer of AT&F to
the reset.

**JoinControl.** It EXTENDS `Sreg`: its steps of the AT thread are those of `Sreg`, which
leave `joins` alone, except that the answer schedules `join_policy_apply` (`SregWritten`).
`cbs` is the scheduler's queue, `sigs` the signals on their way to the handler, `bufs` the
requests that wait for a buffer. Role ZR stands for every role but the coordinator's.
`alarms` counts the alarms of `permit_join_refresh`; an alarm may fire at any time.
ZBOSS (external) ends a steering by opening the network or not, may have no buffer for a
request that closes (`AskToClose`), may refuse every request (`RefreshFails`,
`CloseRefused`), and lets an opening lapse. A peer may open the network at any time, of a
router or of the coordinator, the Trust Centre included; `by_peer` remembers that the
Trust Centre was opened so. `refused` remembers what was to be closed and could not be, as
the code does not ask again. `recorded` is whether `stored_role` is set: a router that
joins without a record, after AT+JN gave up, does not call `network_up`, so nothing
applies its S0A then. The leave of AT&F is in `ZbCore`; here the node is either out of the
network after it or not.

**HostLink.** A line is what it is and the command it belongs to, by its number: this is
what the host cannot see, and what `OwnAnswer` is about. `read` stands for the commands with
a value and an OK (`sreg_get`), `bin` for the unicasts (SEQ, OK, a report; `senducastb`
with its data), `ready` for `AT`, `reset` for ATZ and the `wait_ready` after it. The echo is
dropped when its text is that of the pending command; two commands of one
operation have the same text. `Send` is lock, drain, `_pending` and write in one: what the
reader puts between the drain and the write could as well come after it. A failed
write writes nothing. `Read` and `OnLine` are apart because the reader uses the
`_pending` it has read after the command may have ended; the history and the
queue of events change in one step, which the listeners cannot tell from two. On
the module's side there are the queue of lines, the loop of `at_cmd_thread`,
`at_uart_read_binary`, the echo and the reset, with the details of `LineEntry` and `UartTx`
left to those modules: an entry that stayed open takes any part of the next
command line, and a line that has lost its beginning is refused. Prompts that come
in the middle of an echo, and resets of the module's own accord, are left out.

## 3. The runs

| Run | Bounds | What it shows |
|---|---|---|
| `ZbCore_safety` | roles ZR and ZED, all commands, queue of 1, 2 signals on the way, power cuts, a host that does not wait | the handshake loses no answer, the semaphore carries none over, no failed start ends a leave; RAM, flash and NVRAM agree; refinement of `Membership` |
| `ZbCore_live` | the same, no power cut, a host that waits | every command ends, a removed node restarts, a deferred command runs |
| `UartTx` | lines of 4, 1 and 2 bytes over a ring of 3, two lines per writer, failing and aborted transfers | one transfer at a time, refinement of `LineStream`, no lost wakeup |
| `MsgTx` | 2 slots, 2 in flight, 2 buffers, 3 unicasts, 1 broadcast | counts, slots and entries; refinement of `Delivery`; every numbered unicast is reported |
| `UartRx` | 3 blocks of 2 bytes, 3 reports, 10 bytes, 2 errors, a driver that refuses blocks and starts | references, reports, recovery |
| `HostLink` | 1 caller and the listener, 2 commands, 1 of them with data, 1 JPAN unasked, queue of 1 | own answers and data, prompts, reports, every call ends |
| `LineEntry` | lines of 2 keys, queue of 2, entries of 1 and 2 bytes, 8 bytes | entries, lines, answers |
| `Zdo` | 2 nodes, 3 attempts, 2 resolves, 2 match requests of 8 lines, lists of at most 2 | answers, attempts, last request as typed unless refused |
| `Sreg` | 6 registers: the password and two it protects, S12, a volatile one and its source; two digits | durability, no mixture, AT&F |
| `JoinControl` | S0A, the one register the host writes, with bits 5 and 0 in two digits, coordinator or router, 1 pending entry when the host or a peer adds another, requests without a buffer or refused | open or closed as S0A says |

Two runs find what a document of the repository says violated:

| Run | What happens |
|---|---|
| `ZbCore_leave` | a network that is resumed after a boot, while AT+DASSL or AT&F clears the role, is recorded again; the node resets into the network it has left |
| `UartRx_deaf` | RX that stops between `rx_enable` and the clearing of `rx_disabled` stays off |

Their instances are the smallest that show it; `findings` in `PROJECT.json` quotes the
documents. More of what the code does may surprise a reader of README.md. The
properties are stated so that they do not claim the contrary, and the hazards in
`PROJECT.json` say so:

- a send that fails at once prints NACK before SEQ and OK (`zb_msg.c:316`); the driver
  loses nothing by it (`ReportNotMissed`);
- the OK of AT+EN, whose handler may be held up in its flash write until AT+EN has timed
  out, ends an AT+DASSL or AT&F that begins meanwhile (`zb_core.c:98`, `zb_core.c:426`): the
  node then answers OK and resets before ZBOSS has confirmed that it left;
- a second AT+MATCHREQ overwrites the first while it waits for a buffer (`zb_msg.c:497`), and
  one that the stack refuses has been answered OK all the same (`zb_msg.c:532`);
- a coordinator with bit 5 of S0A set that another node opens stays open until the opening
  lapses or S0A is written, as the handler of the signal looks at bit 0 only
  (`zb_core.c:489`), while README.md:134 says that the Trust Centre then accepts no new
  node. `TcStaysClosed` excepts such an opening (`by_peer`) and is about the node's own;
- S0A bit 0 may wait up to 150 s on a coordinator (`zb_core.c:434`);
- a join that succeeds after AT+JN has answered ERROR is not recorded, and ATZ does
  not rejoin that network (`zb_core.c:445`, README.md:73); nor is S0A applied to it, so that
  bit 0 does not close such a router until it is written, or a peer opens the network;
- a late answer is taken for that of the next command (`protocol.py:166`), and an
  entry that the host has given up takes the beginning of the next command line
  (`protocol.py:191`). That line is then refused, so that `wait_ready`, which repeats only
  after a timeout, may raise `EtrxError`, or return and leave OKs on the way. Hence
  `OwnAnswer` and `OwnData` are about commands sent to a quiet link.

### Why the bounds are enough

- Two signals on the way and one queued line suffice for each pair of a late event
  with the next command; three would only add combinations of pairs.
- A ring shorter than the longest line makes every line wrap and wait; the second
  line of a writer starts from every state the first can leave.
- With as many buffers as entries and one message more than slots, each limit of
  MsgTx is reached: no free slot, too many in flight, a buffer used again.
- Blocks of two bytes have a pause inside and an end; three reports are fewer than
  three blocks can make, so the queue fills.
- Eight bytes hold two whole entries of two bytes, so that the first can time out
  while it completes; or a line that overflows and is corrected.
- Two resolves are an earlier request and its late answer; a third adds another pair.
  The lines of match requests have lists that are empty, full, too long, and too short
  for their count, fields that are no numbers, and fields left over.
- Two commands are one that is given up and the next, which its late answer, its
  open entry or its repetition meets; `reset` and `ready` send the second by
  themselves. One JPAN is the only prompt that a pending command takes too; reports
  come besides.
- Two digits are an old value, a mixture and a new one; the bits of S0A that are chosen
  are in different digits, the one that is written first being that of bit 5.
- One entry pending, when another is added, gives each pair of a closing with an
  opening, and of a signal with a write of S0A; handlers add theirs without bound. The host
  writes S0A alone (`HostRegs`): the answer to a write of another register changes nothing in
  `JoinControl`, and the proofs are for every `HostRegs`.

What does not depend on the bounds is proved, see below. `MsgTx` numbers are kept below
their wrap at 256. `Quiets = {FALSE}` in run `MsgTx` takes quiet unicasts out, which
differ only in printing nothing; the proofs have both.

Deadlock is checked in the runs of `ZbCore`, `Sreg` and `JoinControl`. Elsewhere the bounds
end every behaviour, so CHECK_DEADLOCK is FALSE; that nothing stops too early is what the liveness properties
say.

### Fairness

Weak fairness of the threads and of the interrupt: the kernel schedules every ready
thread, a blocked one whose semaphore is given or whose timeout has passed becomes
ready, and the threads of higher priority block in the end. Timeouts are steps of
their thread, so this includes the timers.

- `ZbCore`: main, AT thread, handlers, workqueue. Nothing is assumed of the ZBOSS stack.
- `UartTx`: writers; a transfer that was started ends at some time, whole or aborted.
- `UartRx`: the thread and the served interrupts; bytes need not come. Strongly, that the
  driver, asked again and again to start RX with a free block, does so at some time
  (`RxStarts`): the thread asks every `RX_RETRY_DELAY`. The errors are
  bounded, so `RxRecovers` does not promise to win against a line that always fails.
- `LineEntry`: the AT thread only. The host may send nothing.
- `HostLink`: the threads of the host, whose `get` has a timeout, the AT thread, and what is
  typed arrives. A caller need not call.
- `JoinControl`: the handler of signals and the buffers, weakly; strongly that a refresh
  which is tried again and again starts a steering at some time and that a steering
  repeated for ever opens the network at some time: ZBOSS does not refuse for ever.
  Nothing of the AT thread, as `KeptOpen` is about a node that is left alone.
- `MsgTx`: both threads, a buffer for each slot that waits, and an end for each message
  with the stack, by acknowledgement or by its own timeout (about a minute, README.md).

## 4. What is proved

Each `X_proofs` has an inductive invariant `IInv`, the lemmas that each action
preserves it, and the theorems. Assumptions are the named ASSUMEs of the modules: sizes
are positive, the sets of model values do not contain the names of special values.

**ZbCore_proofs**: `TypeOK`, `NoStaleCompletion`, `WaitedOpAnswered`,
`NvramErasedOnlyWhenOff`, `NoResumeDuringStart`, `RoleMatchesNetwork`, `FlashMirrorsRam`,
`OkMeansRecorded`, `MembershipKept`. The argument: `op`
is not `NONE` only while its thread is between `run_op`'s start and its end or timeout,
`complete` clears it in the same step that gives the semaphore, and `run_op` resets the
semaphore before it sets `op`; that a failed start ends no leave takes more: until the
signal of its forming has been handled, and while its handler holds up an error, no role
is recorded, so that no leave gets past its first test (`StartApart`); a stack that runs was started in this boot either from a
recorded network, whose role is that of NVRAM, or after NVRAM was erased. RAM and flash
differ only while a write is left to do (`TodoShape`, `Mirror`). For OK: the handler
records the role before it completes the operation, and only a removal clears it
again, which leaves the restart pending (`FirstStartFirst`, `OpHasWaiter`,
`StartedHasRole`, `Answered`). For the refinement: each place of the AT thread belongs to
some commands, and has an answer or not (`CmdInv`); the stack's role is one that the start
in hand asked for, and an operation that forms a network is a coordinator's (`OwnRole`);
so an error on its way to a start is one of its own (`CodeInv`), and an OK on its way
has a role recorded (`OkInv`), which flash has by then, as the write comes first in
`zb_todo` (`Mirror`). From these, and that nothing speaks of another role than the stack's
(`RolesAgree`), each step maps to a step of `Membership` or leaves its variables unchanged:
`MainPromise`, `AtPromise`, `HandlerPromise`, `JobPromise`, `StackPromise`.

**UartTx_proofs**: `TypeOK`, `OneTransfer`, `PrintIsAtomic`. The token of the semaphore
is in one place: in `tx_idle`, with a transfer, or with one writer that is about to start
one. The holder of `tx_lock` is the only writer not idle, and what it has claimed fits.
From this each step maps to a step of `LineStream` or leaves its variables unchanged.

**MsgTx_proofs**: `TypeOK`, `Tracked`, `NothingLeaks`, `TooManyIsTrue`, `DeliveryImplemented`.
The count is the number of entries, plus the unicasts that wait for a buffer, plus one
while the AT thread has counted and not yet asked or undone (`CountInv`); a used slot has
exactly one owner, the AT thread, the queue for buffers, or the handler (`SlotsInv`). For the
refinement: every unicast is in one place (`NumbersInv`, `PlaceInv`), what the host has
read of it fits the place (`ToldInv`), and each step moves one unicast to a next
place, or leaves them where they are. That an admitted one finds room under the limit of
`Delivery` follows from the count (`RoomToAdmit`).

**UartRx_proofs**: `TypeOK`, `ReportsIntact`, `NoBlockLost`. The count of a block is one for the
driver, when it has the block, plus one for each report about it that is queued or
being processed; a block with a count is not in the slab. So it is not filled again
while a report is left, and it is back when the driver and the reports are gone.

**LineEntry_proofs**: `TypeOK`, `EntryIntact`, `TimeoutIsTrue`, `WrittenWhileAsked`,
`LinesAsTyped`. From the request to the end of the wait an entry either lacks bytes, has no completion and
holds all that came since it began, or is complete and its completion is there
(`EntryInv`); outside, no byte is asked for. Without the reset of the semaphore, the
second case could hold a completion of an earlier entry: that is why `pc = "arm"`
must imply that the semaphore is empty. For
`LinesAsTyped`, the line in hand is what was typed since the last CR, edited, or it has
overrun and stays refused (`TypedInv`); `EditsAppend` says that one more key edits what the
others have left. `Edits` is a recursive function: that it is one, for every length, is
shown from the least length at which it is not (`Induction`, from `WFMin` of the library).

**Zdo_proofs**: `TypeOK`, `AnswerIsForAsked`, `UnreachableIsTrue`, `LastMatchStands`. After the copy
of the EUI64 only the target's answers are accepted, so after the clearing, which must
come second, `disc_result` is the target's or unknown; and it is the target's from its first
answer on (`DiscoverInv`). A request stays in `match_pending` from its copy to its send
unless a newer one comes (`MatchInv`), and what the parser reads of a well-formed line,
written again, is that line, for any fields (`ListRead`, `ParsedAsTyped`).

**JoinControl_proofs**, of `Sreg` first: `TypeOK`, `Durable`, `SavedAsTyped`,
`PasswordFallsLast`. During a write the digits copied so far are those of the new
value and the rest those of the stored one (`CopyInv`), so what is saved is whole; during
AT&F the settings before place `n` of the table are gone (`DeleteInv`), and the
password's place is after all it protects (`OrderAssumption`).

Then, of `JoinControl`: `JoinTypeOK`, `ChainAlive`, `TcStaysClosed`, `LocalStaysClosed`,
`PolicyFollows`. These are inductive with the invariant of `Sreg` and the types of the
queues beside them (`JoinInv`): nothing is promised of a state that is not settled
(`Unsettled`), every step but `join_policy_apply` that leads to a settled state starts
from one (`SettledBefore`), and `join_policy_apply` establishes the promises anew
(`ApplyStep`). What a queue still holds after a step is the matter of `InAppend`, `InTail`,
`LastAppend` and `LastTail`. Every step is one
of `Sreg` or leaves its variables unchanged, so `Sreg`'s invariant carries over (`NextOK`).

**HostLink_proofs**: `TypeOK`, `OwnAnswer`, `OwnData`, `ReportNotMissed`, `EventsDelivered`. What
the properties say of the end of a command is not inductive: the invariant has to say
what is on its way since `Send`. A thread that has `_cmd_lock` is the one between its
command and its end (`LockInv`), and commands in hand have numbers of their own
(`HandInv`), which nothing typed, queued or printed carries before they are sent
(`SentInv`). A command that found the link quiet is `fresh`: from then on all that is
typed, queued, taken or printed, but for the prompts, is its own (`InFlight`); a `read`
meets no binary entry, so no piece of an echo is taken for its value (`ReadInFlight`);
OK to a `bin` comes of an entry that its own bytes have filled (`BinInFlight`). No other
thread types in between, because of the lock (`FreshOther`), and what the
reader and the module do keeps it (`FreshOwn`). For reports: what was recorded up to the
mark is about earlier commands (`MarkInv`), and the number that is waited for is the
command's own (`WaitInv`). `EventsDelivered` needs what `Prompts`, a recursive function, does
with a line put behind a sequence (`PromptsAppend`) or before it (`PromptsCons`), and that
answers are no prompts (`AnswersInv`).

The type invariants, `NvramErasedOnlyWhenOff`, `NoResumeDuringStart` and `OkMeansRecorded` are
proved and not checked by a run: they hold for every value of the constants.

**Only model-checked**: all liveness (`CommandEnds`, `RemovedNodeRestarts`,
`DeferredCommandRuns`, `LinesGoOut`, `EveryUnicastReported`, `RxRecovers`, `LinesAnswered`,
`KeptOpen`, `CallsEnd`): TLAPS does not handle fairness. Every safety property of
the passing runs is stated by a theorem.

## 5. Plan

Done, in this order: `ZbCore`, `UartTx` with `LineStream`, `MsgTx`, `UartRx`, `LineEntry`, `Zdo`,
`Sreg`, `JoinControl` over `Sreg`; then `HostLink`, `Delivery`, the parser in `Zdo`, and
the proofs about `UartRx` and of `DeliveryImplemented`, `FlashMirrorsRam`,
`OkMeansRecorded`; then those of `LinesAsTyped` and about `HostLink`; then `Membership` and its refinement.

What is left, the most useful first:

1. Abstract specifications for what has none: open or closed, for `JoinControl`; a
   report for each byte, for `UartRx`.
2. `HostLink` over `LineEntry` in place of its own short form of the module's end.

## 6. Not modelled, and why

- Parsing but for `AT+MATCHREQ`, formatting, the text of prompts: pure functions of one line.
- The echo's content; that it is written is in `UartTx`.
- `ATI`, `AT+N`, `AT+TOKDUMP`, register reads: they change no state.
- Received frames (`data_indication`): one prompt for one frame, no state kept.
- Real time: the 20 ms that `at_reboot` gives the UART, the 2 ms pause that makes the
  driver report, the length of timeouts. A timeout may pass at any time.
- Flash wear, failing settings, failing initialisation: the firmware ignores or
  stops, and there is nothing left to say.
- Host scripts, build and flash scripts, hardware tests.
