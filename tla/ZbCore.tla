------------------------------- MODULE ZbCore -------------------------------
(***************************************************************************)
(* The network life cycle of the AT node: src/app/src/zb_core.c with the   *)
(* dispatcher loop and the reset of at_cmd.c and the boot order of main.c. *)
(*                                                                         *)
(* Three actors share the variables: the AT thread, which executes one     *)
(* command line at a time and blocks on op_done; the ZBOSS thread, which   *)
(* runs zboss_signal_handler, one signal at a time, and preempts the AT    *)
(* thread anywhere; and the system workqueue, which runs reboot_fn.  Flash *)
(* (the settings role and pend, and ZBOSS's own NVRAM) survives a reset.   *)
(*                                                                         *)
(* The ZBOSS stack is external: its actions say which signals it may raise *)
(* and when it counts as joined, as zb_core.c uses it.                     *)
(***************************************************************************)
EXTENDS Naturals, Sequences

CONSTANTS
    JoinRoles,   \* roles AT+JN and AT+JPAN can ask for (S0A bits F-E)
    Cmds,        \* the commands the host types
    LineQDepth,  \* LINE_Q_DEPTH: lines waiting for the AT thread
    MaxSignals,  \* bound: signals ZBOSS has raised and not delivered yet
    PowerCuts,   \* bound: may the power fail?
    HostWaits    \* does the host wait for the node to be idle before it types?

AllCmds == {"EN", "JN", "DASSL", "F", "Z"}  \* JN stands for AT+JPAN too

ASSUME JoinRolesAssumption == JoinRoles \subseteq {"ZR", "ZED"}
ASSUME CmdsAssumption      == Cmds \subseteq AllCmds
ASSUME BoundsAssumption    == LineQDepth \in Nat \ {0} /\ MaxSignals \in Nat
ASSUME SwitchesAssumption  == PowerCuts \in BOOLEAN /\ HostWaits \in BOOLEAN

VARIABLES
    flash_role,    \* settings "at/zb/role"
    flash_pend,    \* settings "at/zb/pend": a command line, or "none"
    nvram,         \* the role in ZBOSS NVRAM, "NONE" when it holds no network
    main_pc, pending_cmd,     \* zbc_init in the main thread, the line it loaded
    stored_role, stack_started, op, op_result, op_done,
    reboot_work,   \* reboot_work is scheduled
    line_q,        \* lines waiting for the AT thread
    at_pc, current, result,   \* the AT thread, its command, the answer's code
    stack,         \* where ZBOSS is
    net_role,      \* zb_get_network_role()
    sigs,          \* signals raised by ZBOSS, not handled yet
    reset_cb,      \* zb_bdb_reset_via_local_action is scheduled
    zb_todo        \* what is left of the handler now running in the ZBOSS thread

flash == <<flash_role, flash_pend, nvram>>
opv   == <<op, op_result, op_done>>
atv   == <<at_pc, current, result>>
zbv   == <<stack, net_role, sigs, reset_cb>>
mainv == <<main_pc, pending_cmd>>
vars  == <<flash, mainv, stored_role, stack_started, opv, reboot_work, line_q,
           atv, zbv, zb_todo>>

Roles   == {"NONE", "ZC"} \cup JoinRoles
Ops     == {"NONE", "FORM", "JOIN", "LEAVE", "FACTORY"}
Results == {"OK", "CANNOT_FORM", "CANNOT_JOIN", "NO_NETWORK", "IN_PAN", "NOT_JOINED"}
Stacks  == {"off", "starting", "ready", "forming", "steering", "up", "rejoining"}
SigIds  == {"FIRST_START", "REBOOT", "FORMATION", "STEERING", "LEAVE", "LEAVE_REJOIN"}
Sigs    == [sig : SigIds, ok : BOOLEAN]
Save(role)      == [do |-> "save", arg |-> role]
Completion(res) == [do |-> "complete", arg |-> res]
Restart         == [do |-> "reboot", arg |-> "NONE"]
Jobs    == {Save(r) : r \in Roles} \cup {Completion(r) : r \in Results} \cup {Restart}
AtPcs   == {"idle", "exec", "run_wait", "run_timeout", "leave", "leave_begin",
            "leave_wait", "leave_timeout", "clear", "clear_flash", "wipe",
            "leave_answer", "defer", "reboot", "answer"}

\* No two values of one variable have different types.
TypeOK ==
    /\ flash_role \in Roles /\ nvram \in Roles /\ stored_role \in Roles
    /\ flash_pend \in AllCmds \cup {"none"}
    /\ main_pc \in {"init", "delete", "inject", "run"}
    /\ pending_cmd \in AllCmds \cup {"none"}
    /\ stack_started \in BOOLEAN /\ reboot_work \in BOOLEAN /\ reset_cb \in BOOLEAN
    /\ op \in Ops /\ op_result \in Results \cup {"none"} /\ op_done \in {0, 1}
    /\ line_q \in Seq(AllCmds) /\ Len(line_q) <= LineQDepth
    /\ at_pc \in AtPcs /\ current \in AllCmds \cup {"none"}
    /\ result \in Results \cup {"none"}
    /\ stack \in Stacks /\ net_role \in Roles
    /\ sigs \in Seq(Sigs) /\ zb_todo \in Seq(Jobs)

RamInit ==
    /\ main_pc = "init" /\ pending_cmd = "none" /\ stored_role = "NONE" /\ stack_started = FALSE
    /\ op = "NONE" /\ op_result = "none" /\ op_done = 0
    /\ reboot_work = FALSE /\ line_q = <<>>
    /\ at_pc = "idle" /\ current = "none" /\ result = "none"
    /\ stack = "off" /\ net_role = "NONE" /\ sigs = <<>>
    /\ reset_cb = FALSE /\ zb_todo = <<>>

Init == flash_role = "NONE" /\ flash_pend = "none" /\ nvram = "NONE" /\ RamInit

\* Every reset leaves RAM as at power-up and flash as it was.
Reset ==
    /\ main_pc' = "init" /\ pending_cmd' = "none" /\ stored_role' = "NONE" /\ stack_started' = FALSE
    /\ op' = "NONE" /\ op_result' = "none" /\ op_done' = 0
    /\ reboot_work' = FALSE /\ line_q' = <<>>
    /\ at_pc' = "idle" /\ current' = "none" /\ result' = "none"
    /\ stack' = "off" /\ net_role' = "NONE" /\ sigs' = <<>>
    /\ reset_cb' = FALSE /\ zb_todo' = <<>>
    /\ UNCHANGED flash

Joined == stack_started /\ stack = "up"        \* zbc_joined

-----------------------------------------------------------------------------
(* Boot: zbc_init in the main thread.  main and the AT thread have one     *)
(* priority, so the AT thread runs only where main blocks: in the flash    *)
(* write of settings_delete.                                               *)

StartRecorded ==
    /\ stack_started' = TRUE
    /\ stack' = "starting"
    /\ net_role' = flash_role

MutRunPendIfNoRole == flash_pend # "none" /\ flash_role = "NONE"
RunPend == flash_pend # "none"

ZbcInit ==
    /\ main_pc = "init"
    /\ stored_role' = flash_role
    /\ pending_cmd' = flash_pend
    /\ \/ /\ RunPend
          /\ main_pc' = "delete"
          /\ UNCHANGED <<stack_started, stack, net_role>>
       \/ /\ ~RunPend /\ flash_role # "NONE"
          /\ main_pc' = "run"
          /\ StartRecorded
       \/ /\ ~RunPend /\ flash_role = "NONE"
          /\ main_pc' = "run"
          /\ UNCHANGED <<stack_started, stack, net_role>>
    /\ UNCHANGED <<flash, opv, reboot_work, line_q, atv, sigs, reset_cb, zb_todo>>

DeletePend ==
    /\ main_pc = "delete"
    /\ flash_pend' = "none"
    /\ main_pc' = "inject"
    /\ UNCHANGED <<flash_role, nvram, pending_cmd, stored_role, stack_started, opv,
                   reboot_work, line_q, atv, zbv, zb_todo>>

\* A queue that is full drops the line, typed or injected.
PutLine(c) == line_q' = IF Len(line_q) < LineQDepth THEN Append(line_q, c) ELSE line_q

InjectLine ==
    /\ main_pc = "inject"
    /\ PutLine(pending_cmd)
    /\ main_pc' = "run"
    /\ UNCHANGED <<flash, pending_cmd, stored_role, stack_started, opv, reboot_work,
                   atv, zbv, zb_todo>>

MainThread == ZbcInit \/ DeletePend \/ InjectLine

-----------------------------------------------------------------------------
(* The handshake on op, op_result and the semaphore op_done.               *)

MutBeginOpNoReset(new_op) == op' = new_op /\ UNCHANGED <<op_result, op_done>>
BeginOp(new_op) ==
    /\ op_done' = 0            \* k_sem_reset
    /\ op' = new_op
    /\ UNCHANGED op_result

MutCompleteNoGive(res) ==
    IF op # "NONE"
      THEN op_result' = res /\ op' = "NONE" /\ UNCHANGED op_done
      ELSE UNCHANGED opv
Complete(res) ==
    IF op # "NONE"
      THEN op_result' = res /\ op' = "NONE" /\ op_done' = 1
      ELSE UNCHANGED opv

TakeDone == op_done = 1 /\ op_done' = 0 /\ UNCHANGED <<op, op_result>>

AbandonOp == op' = "NONE" /\ UNCHANGED <<op_result, op_done>>

-----------------------------------------------------------------------------
(* The AT thread.  In "exec" it is about to run the handler of current; in *)
(* "answer" it is about to print the answer and take the next line.        *)

Goto(from, to) == at_pc = from /\ at_pc' = to

Answer(res) == at_pc' = "answer" /\ result' = res

TakeLine ==
    /\ main_pc # "init"
    /\ line_q # <<>>
    /\ Goto("idle", "exec")
    /\ current' = Head(line_q) /\ line_q' = Tail(line_q)
    /\ UNCHANGED <<flash, mainv, stored_role, stack_started, opv, reboot_work, result,
                   zbv, zb_todo>>

StartCmd == at_pc = "exec" /\ current \in {"EN", "JN"}

StartRefused ==
    /\ StartCmd /\ stored_role # "NONE"
    /\ Answer("IN_PAN")
    /\ UNCHANGED <<flash, mainv, stored_role, stack_started, opv, reboot_work, line_q,
                   current, zbv, zb_todo>>

MustDefer == stack_started

StartDeferred ==
    /\ StartCmd /\ stored_role = "NONE" /\ MustDefer
    /\ at_pc' = "defer"
    /\ UNCHANGED <<flash, mainv, stored_role, stack_started, opv, reboot_work, line_q,
                   current, result, zbv, zb_todo>>

DeferToNextBoot ==
    /\ Goto("defer", "reboot")
    /\ flash_pend' = current
    /\ UNCHANGED <<flash_role, nvram, mainv, stored_role, stack_started, opv,
                   reboot_work, line_q, current, result, zbv, zb_todo>>

MutKeepNvram == UNCHANGED nvram
EraseNvram == nvram' = "NONE"

\* prepare_new_network and run_op up to the wait: ZBOSS is off until its end.
StartNetwork ==
    /\ StartCmd /\ stored_role = "NONE" /\ ~MustDefer
    /\ EraseNvram
    /\ net_role' \in IF current = "EN" THEN {"ZC"} ELSE JoinRoles
    /\ BeginOp(IF current = "EN" THEN "FORM" ELSE "JOIN")
    /\ stack_started' = TRUE
    /\ stack' = IF stack_started THEN stack ELSE "starting"
    /\ at_pc' = "run_wait"
    /\ UNCHANGED <<flash_role, flash_pend, mainv, stored_role, reboot_work, line_q,
                   current, result, sigs, reset_cb, zb_todo>>

RunOpDone ==
    /\ at_pc = "run_wait"
    /\ TakeDone
    /\ Answer(op_result)
    /\ UNCHANGED <<flash, mainv, stored_role, stack_started, reboot_work, line_q,
                   current, zbv, zb_todo>>

MutNoLeaveTimeout ==
    /\ op_done = 0
    /\ Goto("run_wait", "run_timeout")
    /\ UNCHANGED <<flash, mainv, stored_role, stack_started, opv, reboot_work, line_q,
                   current, result, zbv, zb_todo>>

\* k_sem_take returns an error; the ZBOSS thread may still run before the next line.
WaitTimesOut ==
    /\ op_done = 0
    /\ \/ Goto("run_wait", "run_timeout")
       \/ Goto("leave_wait", "leave_timeout")
    /\ UNCHANGED <<flash, mainv, stored_role, stack_started, opv, reboot_work, line_q,
                   current, result, zbv, zb_todo>>

RunOpTimeout ==
    /\ at_pc = "run_timeout"
    /\ AbandonOp
    /\ Answer(IF current = "EN" THEN "CANNOT_FORM" ELSE "NO_NETWORK")
    /\ UNCHANGED <<flash, mainv, stored_role, stack_started, reboot_work, line_q,
                   current, zbv, zb_todo>>

\* cmd_dassl and cmd_factory, up to the call of leave_network.
LeaveCmd ==
    /\ at_pc = "exec" /\ current \in {"DASSL", "F"}
    /\ \/ /\ stored_role # "NONE"
          /\ at_pc' = "leave" /\ UNCHANGED result
       \/ /\ stored_role = "NONE" /\ current = "DASSL"
          /\ Answer("NOT_JOINED")
       \/ /\ stored_role = "NONE" /\ current = "F"
          /\ at_pc' = "wipe" /\ UNCHANGED result
    /\ UNCHANGED <<flash, mainv, stored_role, stack_started, opv, reboot_work, line_q,
                   current, zbv, zb_todo>>

\* The test of zbc_joined; the ZBOSS thread may run between it and what follows.
LeaveTest ==
    /\ at_pc = "leave"
    /\ at_pc' = IF Joined THEN "leave_begin" ELSE "clear"
    /\ UNCHANGED <<flash, mainv, stored_role, stack_started, opv, reboot_work, line_q,
                   current, result, zbv, zb_todo>>

LeaveBegin ==
    /\ Goto("leave_begin", "leave_wait")
    /\ BeginOp(IF current = "F" THEN "FACTORY" ELSE "LEAVE")
    /\ reset_cb' = TRUE
    /\ UNCHANGED <<flash, mainv, stored_role, stack_started, reboot_work, line_q,
                   current, result, stack, net_role, sigs, zb_todo>>

LeaveDone ==
    /\ Goto("leave_wait", "clear")
    /\ TakeDone
    /\ UNCHANGED <<flash, mainv, stored_role, stack_started, reboot_work, line_q,
                   current, result, zbv, zb_todo>>

LeaveTimeout ==
    /\ Goto("leave_timeout", "clear")
    /\ AbandonOp
    /\ UNCHANGED <<flash, mainv, stored_role, stack_started, reboot_work, line_q,
                   current, result, zbv, zb_todo>>

\* role_save(ZBC_ROLE_NONE): RAM first, then flash.
ClearRole ==
    /\ Goto("clear", "clear_flash")
    /\ stored_role' = "NONE"
    /\ UNCHANGED <<flash, mainv, stack_started, opv, reboot_work, line_q, current,
                   result, zbv, zb_todo>>

ClearFlashRole ==
    /\ at_pc = "clear_flash"
    /\ flash_role' = "NONE"
    /\ at_pc' = IF current = "F" THEN "wipe" ELSE "leave_answer"
    /\ UNCHANGED <<flash_pend, nvram, mainv, stored_role, stack_started, opv,
                   reboot_work, line_q, current, result, zbv, zb_todo>>

\* AT&F: the pending line and the S-registers (not modelled) go.
Wipe ==
    /\ Goto("wipe", "leave_answer")
    /\ flash_pend' = "none"
    /\ UNCHANGED <<flash_role, nvram, mainv, stored_role, stack_started, opv,
                   reboot_work, line_q, current, result, zbv, zb_todo>>

\* at_print_result(AT_OK) inside the handler, then at_reboot.
AnswerOkAndReboot ==
    /\ \/ Goto("leave_answer", "reboot")
       \/ current = "Z" /\ Goto("exec", "reboot")
    /\ result' = "OK"
    /\ UNCHANGED <<flash, mainv, stored_role, stack_started, opv, reboot_work, line_q,
                   current, zbv, zb_todo>>

PrintResult ==
    /\ Goto("answer", "idle")
    /\ result' = "none" /\ current' = "none"
    /\ UNCHANGED <<flash, mainv, stored_role, stack_started, opv, reboot_work, line_q,
                   zbv, zb_todo>>

SysReboot == at_pc = "reboot" /\ Reset

AtThread ==
    \/ TakeLine \/ StartRefused \/ StartDeferred \/ DeferToNextBoot \/ StartNetwork
    \/ RunOpDone \/ WaitTimesOut \/ RunOpTimeout
    \/ LeaveCmd \/ LeaveTest \/ LeaveBegin \/ LeaveDone \/ LeaveTimeout
    \/ ClearRole \/ ClearFlashRole \/ Wipe
    \/ AnswerOkAndReboot \/ PrintResult \/ SysReboot

-----------------------------------------------------------------------------
(* The ZBOSS thread: zboss_signal_handler.  Its flash writes may block, so *)
(* what follows a write is a step of its own, kept in zb_todo.             *)

IsZc == net_role = "ZC"

On(ids) ==
    /\ zb_todo = <<>> /\ sigs # <<>>
    /\ Head(sigs).sig \in ids
    /\ sigs' = Tail(sigs)

SignalOk == Head(sigs).ok

MutRoleSaveLast(role, rest) == stored_role' = role /\ zb_todo' = rest \o <<Save(role)>>
MutRoleSaveRamOnly(role, rest) == stored_role' = role /\ zb_todo' = rest
RoleSave(role, rest) ==
    /\ stored_role' = role
    /\ zb_todo' = <<Save(role)>> \o rest

NetworkUp(rest) ==
    \/ stored_role # net_role /\ RoleSave(net_role, rest)
    \/ stored_role = net_role /\ zb_todo' = rest /\ UNCHANGED stored_role

\* zigbee_default_signal_handler (external) keeps a node that is out trying to rejoin.
DefaultHandler == stack' = IF stack = "ready" THEN "rejoining" ELSE stack

UnchangedByHandlers ==
    UNCHANGED <<flash, mainv, stack_started, reboot_work, line_q, atv, net_role, reset_cb>>

OnFirstStart ==
    /\ On({"FIRST_START"})
    /\ \/ /\ op \in {"FORM", "JOIN"}
          /\ \/ /\ SignalOk
                /\ stack' = IF op = "FORM" THEN "forming" ELSE "steering"
                /\ UNCHANGED opv
             \/ /\ Complete(IF op = "FORM" THEN "CANNOT_FORM" ELSE "CANNOT_JOIN")
                /\ UNCHANGED stack
          /\ UNCHANGED <<stored_role, zb_todo>>
       \/ /\ op \notin {"FORM", "JOIN"}
          /\ RoleSave("NONE", <<>>)
          /\ UNCHANGED <<opv, stack>>
    /\ UnchangedByHandlers

OnDeviceReboot ==
    /\ On({"REBOOT"})
    /\ \/ SignalOk /\ NetworkUp(<<>>) /\ UNCHANGED stack
       \/ ~SignalOk /\ ~IsZc /\ DefaultHandler /\ UNCHANGED <<stored_role, zb_todo>>
       \/ ~SignalOk /\ IsZc /\ UNCHANGED <<stack, stored_role, zb_todo>>
    /\ UNCHANGED opv
    /\ UnchangedByHandlers

OnFormation ==
    /\ On({"FORMATION"})
    /\ \/ SignalOk /\ NetworkUp(<<Completion("OK")>>) /\ UNCHANGED opv
       \/ ~SignalOk /\ Complete("CANNOT_FORM") /\ UNCHANGED <<stored_role, zb_todo>>
    /\ UNCHANGED stack
    /\ UnchangedByHandlers

\* On the coordinator steering opens the network: the alarms it sets are not modelled.
OnSteering ==
    /\ On({"STEERING"})
    /\ LET up == SignalOk /\ stack = "up" IN
       \/ IsZc /\ UNCHANGED <<opv, stored_role, zb_todo, stack>>
       \/ /\ ~IsZc /\ op = "JOIN"
          /\ \/ up /\ NetworkUp(<<Completion("OK")>>) /\ UNCHANGED opv
             \/ ~up /\ Complete("CANNOT_JOIN") /\ UNCHANGED <<stored_role, zb_todo>>
          /\ UNCHANGED stack
       \/ /\ ~IsZc /\ op # "JOIN" /\ stored_role # "NONE"
          /\ IF SignalOk THEN UNCHANGED stack ELSE DefaultHandler
          /\ \/ up /\ NetworkUp(<<>>)
             \/ ~up /\ UNCHANGED <<stored_role, zb_todo>>
          /\ UNCHANGED opv
       \/ /\ ~IsZc /\ op # "JOIN" /\ stored_role = "NONE"
          /\ UNCHANGED <<opv, stored_role, zb_todo, stack>>
    /\ UnchangedByHandlers

Removed == RoleSave("NONE", <<Restart>>)

OnLeave ==
    /\ On({"LEAVE", "LEAVE_REJOIN"})
    /\ \/ /\ op = "JOIN"
          /\ RoleSave("NONE", <<Completion("CANNOT_JOIN")>>)
          /\ UNCHANGED <<opv, stack>>
       \/ /\ op \in {"LEAVE", "FACTORY"}
          /\ Complete("OK")
          /\ UNCHANGED <<stored_role, zb_todo, stack>>
       \/ /\ op \in {"NONE", "FORM"}
          /\ \/ /\ SignalOk /\ Head(sigs).sig = "LEAVE_REJOIN"
                /\ DefaultHandler /\ UNCHANGED <<stored_role, zb_todo>>
             \/ /\ SignalOk /\ Head(sigs).sig = "LEAVE" /\ stored_role # "NONE"
                /\ Removed /\ UNCHANGED stack
             \/ /\ ~SignalOk \/ (Head(sigs).sig = "LEAVE" /\ stored_role = "NONE")
                /\ UNCHANGED <<stored_role, zb_todo, stack>>
          /\ UNCHANGED opv
    /\ UnchangedByHandlers

\* The rest of a handler, once its flash write has returned.
NextJob(what) == zb_todo # <<>> /\ Head(zb_todo).do = what /\ zb_todo' = Tail(zb_todo)

FlushRole ==
    /\ NextJob("save")
    /\ flash_role' = Head(zb_todo).arg
    /\ UNCHANGED <<flash_pend, nvram, mainv, stored_role, stack_started, opv,
                   reboot_work, line_q, atv, zbv>>

FinishOp ==
    /\ NextJob("complete")
    /\ Complete(Head(zb_todo).arg)
    /\ UNCHANGED <<flash, mainv, stored_role, stack_started, reboot_work, line_q,
                   atv, zbv>>

ScheduleReboot ==
    /\ NextJob("reboot")
    /\ reboot_work' = TRUE
    /\ UNCHANGED <<flash, mainv, stored_role, stack_started, opv, line_q, atv, zbv>>

SignalHandler == OnFirstStart \/ OnDeviceReboot \/ OnFormation \/ OnSteering \/ OnLeave

ZbossThread == SignalHandler \/ FlushRole \/ FinishOp \/ ScheduleReboot

\* reboot_fn in the system workqueue, 200 ms after the handler scheduled it.
MutRebootWhenIdle == reboot_work /\ at_pc = "idle" /\ Reset
RebootWork == reboot_work /\ Reset

-----------------------------------------------------------------------------
(* The ZBOSS stack (external).  It and the signal handler share one thread. *)

Raise(signals, stk, network) ==
    /\ zb_todo = <<>>
    /\ Len(sigs) + Len(signals) <= MaxSignals
    /\ sigs' = sigs \o signals
    /\ stack' = stk /\ nvram' = network
    /\ UNCHANGED <<flash_role, flash_pend, mainv, stored_role, stack_started, opv,
                   reboot_work, line_q, atv, net_role, reset_cb, zb_todo>>

Signal(id, ok) == [sig |-> id, ok |-> ok]

StackStarts(ok) ==
    /\ stack = "starting"
    /\ \/ nvram = "NONE" /\ Raise(<<Signal("FIRST_START", ok)>>, "ready", "NONE")
       \/ /\ nvram # "NONE"
          /\ Raise(<<Signal("REBOOT", ok)>>, IF ok THEN "up" ELSE "ready", nvram)

NetworkFormed(ok) ==
    /\ stack = "forming"
    /\ IF ok THEN Raise(<<Signal("FORMATION", TRUE)>>, "up", net_role)
             ELSE Raise(<<Signal("FORMATION", FALSE)>>, "ready", nvram)

SteeringEnds(ok) ==
    /\ stack \in {"steering", "rejoining"}
    /\ IF ok THEN Raise(<<Signal("STEERING", TRUE)>>, "up", net_role)
             ELSE Raise(<<Signal("STEERING", FALSE)>>, "ready", nvram)

\* Joined and left again: the link key exchange with the Trust Centre failed.
KeyExchangeFails ==
    /\ stack = "steering"
    /\ \/ Raise(<<Signal("LEAVE", TRUE)>>, "ready", "NONE")
       \/ Raise(<<Signal("LEAVE", TRUE), Signal("STEERING", FALSE)>>, "ready", "NONE")

RemovedByPeer == stack = "up" /\ Raise(<<Signal("LEAVE", TRUE)>>, "ready", "NONE")

AskedToRejoin ==
    /\ stack = "up" /\ ~IsZc
    /\ Raise(<<Signal("LEAVE_REJOIN", TRUE)>>, "ready", nvram)

ParentLost == stack = "up" /\ ~IsZc /\ Raise(<<>>, "rejoining", nvram)

\* zb_bdb_reset_via_local_action: it may be confirmed, fail, or never be confirmed.
LocalReset ==
    /\ zb_todo = <<>> /\ reset_cb
    /\ reset_cb' = FALSE
    /\ \/ /\ Len(sigs) < MaxSignals
          /\ sigs' = Append(sigs, Signal("LEAVE", TRUE))
          /\ stack' = "ready" /\ nvram' = "NONE"
       \/ /\ Len(sigs) < MaxSignals
          /\ sigs' = Append(sigs, Signal("LEAVE", FALSE))
          /\ UNCHANGED <<stack, nvram>>
       \/ UNCHANGED <<sigs, stack, nvram>>
    /\ UNCHANGED <<flash_role, flash_pend, mainv, stored_role, stack_started, opv,
                   reboot_work, line_q, atv, net_role, zb_todo>>

ZbossStack ==
    \/ \E ok \in BOOLEAN : StackStarts(ok) \/ NetworkFormed(ok) \/ SteeringEnds(ok)
    \/ KeyExchangeFails \/ RemovedByPeer \/ AskedToRejoin \/ ParentLost \/ LocalReset

-----------------------------------------------------------------------------
(* The host and the supply.                                                *)

HostIdle == main_pc = "run" /\ at_pc = "idle" /\ line_q = <<>>

HostTypes(c) ==
    /\ HostWaits => HostIdle
    /\ PutLine(c)
    /\ UNCHANGED <<flash, mainv, stored_role, stack_started, opv, reboot_work, atv, zbv,
                   zb_todo>>

PowerLoss == PowerCuts /\ Reset

Next ==
    \/ MainThread \/ AtThread \/ ZbossThread \/ RebootWork \/ ZbossStack
    \/ \E c \in Cmds : HostTypes(c)
    \/ PowerLoss

Spec == Init /\ [][Next]_vars

\* The kernel runs every ready thread, and every wait has a timeout.
FairSpec ==
    Spec /\ WF_vars(MainThread) /\ WF_vars(AtThread) /\ WF_vars(ZbossThread)
         /\ WF_vars(RebootWork)

-----------------------------------------------------------------------------
(* Properties.                                                             *)

\* A thread blocked on op_done has an operation somebody can complete, or the
\* completion is there already: no answer of ZBOSS is lost (run_op, leave_network).
WaitedOpAnswered ==
    at_pc \in {"run_wait", "leave_wait"} => op # "NONE" \/ op_done = 1

\* What is over does not end what comes next.  An operation begins with the semaphore
\* empty, also when the one before it was completed just after its timeout (k_sem_reset
\* in run_op and leave_network).  And no failure of a start ends a later AT+DASSL or AT&F,
\* though complete() does not ask whose operation it ends: the signal that a network was
\* formed or not has been handled before a leave can begin, and no handler that is held
\* up in its flash write has an error to give.  Its OK it may have: a leave that begins
\* while network_up writes flash is ended by the OK of the start, which this does not deny.
StartReports == \E i \in 1..Len(sigs) : sigs[i].sig = "FORMATION"
FailureHeldUp ==
    \E i \in 1..Len(zb_todo) : zb_todo[i].do = "complete" /\ zb_todo[i].arg # "OK"
NoStaleCompletion ==
    /\ op # "NONE" => op_done = 0
    /\ op \in {"LEAVE", "FACTORY"} => ~StartReports /\ ~FailureHeldUp

\* A new network never competes with an old one: while AT+EN or AT+JN is in progress
\* ZBOSS is not resuming a network from its NVRAM (the erase in prepare_new_network).
NoResumeDuringStart ==
    op \in {"FORM", "JOIN"} =>
        \A i \in 1..Len(sigs) : sigs[i].sig # "REBOOT"

\* OK to AT+EN or AT+JN means that the network is recorded, unless the node has been
\* removed from it since and is on its way to the reset that says so.
OkMeansRecorded ==
    at_pc = "answer" /\ result = "OK" =>
        \/ stored_role # "NONE"
        \/ reboot_work
        \/ \E i \in 1..Len(zb_todo) : zb_todo[i] = Restart

\* The recorded role is the role of the network in ZBOSS NVRAM, whatever roles
\* the node had before and wherever the power failed.
RoleMatchesNetwork ==
    stored_role # "NONE" /\ nvram # "NONE" => stored_role = nvram

\* Outside the write itself and a leave in progress, flash records what RAM says: a
\* reset at that point does not change the node's mind about being in a network.
SavePending == \E i \in 1..Len(zb_todo) : zb_todo[i].do = "save"
Leaving ==
    current \in {"DASSL", "F"} /\ at_pc \in {"clear_flash", "wipe", "leave_answer", "reboot"}
FlashMirrorsRam ==
    main_pc # "init" /\ ~SavePending /\ ~Leaving => flash_role = stored_role

\* The AT thread never erases ZBOSS NVRAM under a running stack, nor while a network
\* is recorded (start_network).
NvramErasedOnlyWhenOff ==
    [][at_pc = "exec" /\ at_pc' = "run_wait" => stack = "off" /\ stored_role = "NONE"]_vars

\* Every command line that is taken is answered or ends in a reset, whatever
\* ZBOSS does with it (the timeouts of run_op and leave_network).
CommandEnds == at_pc # "idle" ~> at_pc = "idle"

\* A node that another node removes restarts (LeftPAN and reboot_work).
RemovedNodeRestarts ==
    (\E i \in 1..Len(zb_todo) : zb_todo[i] = Restart) ~> main_pc = "init"

\* A command stored for the next boot is executed in it, if the power stays on
\* and the host waits for the answer.
DeferredCommandRuns ==
    \A c \in {"EN", "JN"} : flash_pend = c ~> at_pc = "exec" /\ current = c

\* The node has given up its network when AT+DASSL or AT&F has answered OK and resets
\* (README.md: "Leave the network"; tests/hil/test_network.py).
LeaveForgetsNetwork ==
    at_pc = "reboot" /\ current \in {"DASSL", "F"} => stored_role = "NONE"

\* The commands keep the promise of Membership, whatever ZBOSS does and wherever the
\* power fails: an answer is about its own command, the record is true when it is
\* given, and no boot acts in two roles (run_op, network_up, role_save, prepare_new_network).
Role == IF main_pc = "init" THEN flash_role ELSE stored_role   \* before zbc_init has read it
Done ==
    \/ at_pc = "run_wait" /\ op_done = 1 /\ op_result = "OK"
    \/ current = "DASSL" /\ at_pc = "leave_answer"
    \/ current = "F" /\ at_pc \in {"wipe", "leave_answer"}
Promise == INSTANCE Membership WITH
    role <- Role, saved <- flash_role, started <- net_role, cmd <- current, made <- Done,
    answer <- result
MembershipKept == Promise!Spec
=============================================================================
