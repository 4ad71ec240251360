---------------------------- MODULE JoinControl ----------------------------
(***************************************************************************)
(* Who may join: the part of src/app/src/zb_core.c that keeps a network    *)
(* open or closed as the bits of S0A say, over the registers of Sreg.      *)
(*                                                                         *)
(* The AT thread writes S0A digit by digit, saves it and then has the      *)
(* ZBOSS thread apply it, which does so at its next callback; alarms       *)
(* (permit_join_refresh) open the coordinator's network again before it    *)
(* closes by itself.  Every handler of the ZBOSS thread is one step.       *)
(* Opening and closing are messages that need a buffer: the stack serves   *)
(* them in the order in which they were asked for (external), and may      *)
(* refuse each of them.  Other nodes open the network too.                 *)
(***************************************************************************)
EXTENDS Sreg

CONSTANTS
    MainReg,     \* S0A
    HostRegs,    \* bound: the registers that the host writes
    MaxPending   \* bound: entries in the queues when the host or a peer adds to them

ASSUME MainRegAssumption == MainReg \in Protected \cap Numeric
ASSUME BoundsAssumption == HostRegs \subseteq Regs /\ MaxPending \in Nat \ {0}

S0A_BLOCK_JOIN_LOCAL   == 0
S0A_NO_UNSECURE_REJOIN == 3
S0A_ENCRYPT_NWK_KEY    == 4
S0A_BLOCK_JOIN_TC      == 5

VARIABLES
    joined, role,
    recorded,     \* is the network recorded (stored_role)?
    cbs,          \* callbacks of the ZBOSS scheduler
    sigs,         \* signals of the stack on their way to the handler
    bufs,         \* what waits for a buffer
    steering,     \* BDB steering in progress on the coordinator
    alarms,       \* alarms of permit_join_refresh: one of 150 s, those of 5 s
    local_open, tc_open,  \* do this node, and the Trust Centre, accept new nodes?
    tc_policy,    \* the bits of S0A that the Trust Centre's policy follows
    by_peer,      \* was it another node that opened the Trust Centre last?
    refused       \* what closing was refused of, unless it has been closed since

node   == <<joined, role, recorded>>
queues == <<cbs, sigs, bufs>>
opens  == <<local_open, tc_open, by_peer, refused>>
joins  == <<node, queues, steering, alarms, opens, tc_policy>>
vars   == <<sregs, joins>>

NoAlarm == [renew |-> 0, retry |-> 0]
PolicyBits == {S0A_BLOCK_JOIN_LOCAL, S0A_NO_UNSECURE_REJOIN, S0A_ENCRYPT_NWK_KEY}

Off ==
    /\ joined = FALSE /\ role = "none" /\ recorded = FALSE /\ cbs = <<>> /\ sigs = <<>> /\ bufs = <<>>
    /\ steering = FALSE /\ alarms = NoAlarm /\ local_open = FALSE /\ tc_open = FALSE
    /\ tc_policy = {} /\ by_peer = FALSE /\ refused = {}

JoinInit == Init /\ Off

In(x, q) == \E i \in 1..Len(q) : q[i] = x

Blocks(bit) == bit \in val[MainReg]   \* sreg_bit

-----------------------------------------------------------------------------
(* The AT thread and the host.                                             *)

\* Bounds: a peer or a new network adds to queues that hold less than MaxPending, and
\* the host writes HostRegs when no callback waits and no more than that of the rest.
Room      == Len(cbs) + Len(sigs) + Len(bufs) < MaxPending
WriteRoom == cbs = <<>> /\ Len(sigs) + Len(bufs) <= MaxPending

AtWrites ==
    /\ Commands \/ Quiet
    /\ pc = "idle" => WriteRoom /\ reg' \in HostRegs
    /\ UNCHANGED joins

\* sreg_written.
ApplyNow == reg = MainReg /\ joined

SregWritten ==
    /\ Answer
    /\ cbs' = IF ApplyNow THEN Append(cbs, "apply") ELSE cbs
    /\ UNCHANGED <<node, sigs, bufs, steering, alarms, opens, tc_policy>>

\* AT&F: the leave, if it is confirmed in time, and the reset of the registers.
CmdFactory ==
    /\ FactoryReset
    /\ joined' \in {FALSE, joined} /\ recorded' = FALSE
    /\ UNCHANGED <<role, queues, steering, alarms, opens, tc_policy>>

\* The network may have been left before.
Restart ==
    /\ SregInit
    /\ recorded' \in {FALSE, recorded}
    /\ joined' = FALSE /\ role' = "none" /\ cbs' = <<>> /\ sigs' = <<>> /\ bufs' = <<>>
    /\ steering' = FALSE /\ alarms' = NoAlarm /\ local_open' = FALSE /\ tc_open' = FALSE
    /\ tc_policy' = {} /\ by_peer' = FALSE /\ refused' = {}

-----------------------------------------------------------------------------
(* The ZBOSS thread.                                                       *)

\* The policy attributes that join_policy_apply sets.
MutPolicyAtStart == tc_policy
Policy == val[MainReg] \cap PolicyBits

\* zb_buf_get_out_delayed, whose failure is ignored.
AskToClose(message, what) ==
    \/ bufs' = Append(bufs, message) /\ refused' = refused \ what
    \/ UNCHANGED bufs /\ refused' = refused \cup what

ApplyCoordinator ==
    /\ joined /\ role = "ZC"
    /\ tc_policy' = Policy /\ alarms' = NoAlarm
    /\ \/ /\ Blocks(S0A_BLOCK_JOIN_TC)
          /\ AskToClose("close_network", {"local", "tc"}) /\ cbs' = Tail(cbs)
       \/ /\ ~Blocks(S0A_BLOCK_JOIN_TC)
          /\ cbs' = Append(Tail(cbs), "refresh") /\ UNCHANGED <<bufs, refused>>

CloseLocal ==
    IF Blocks(S0A_BLOCK_JOIN_LOCAL)
    THEN AskToClose("close_local", {"local"}) ELSE UNCHANGED <<bufs, refused>>

ApplyRouter ==
    /\ joined /\ role = "ZR"
    /\ CloseLocal /\ cbs' = Tail(cbs) /\ UNCHANGED <<tc_policy, alarms>>

ApplyOff == ~joined /\ cbs' = Tail(cbs) /\ UNCHANGED <<bufs, refused, tc_policy, alarms>>

JoinPolicyApply ==
    /\ cbs # <<>> /\ Head(cbs) = "apply"
    /\ ApplyCoordinator \/ ApplyRouter \/ ApplyOff
    /\ UNCHANGED <<sregs, node, sigs, steering, local_open, tc_open, by_peer>>

\* permit_join_refresh is called by the scheduler, or by an alarm: what is left of them.
AlarmsLeft ==
    {[alarms EXCEPT !.renew = 0] : i \in 1..alarms.renew} \cup
    {[alarms EXCEPT !.retry = @ - 1] : i \in 1..alarms.retry}
Due(left) ==
    \/ cbs # <<>> /\ Head(cbs) = "refresh" /\ cbs' = Tail(cbs) /\ left = alarms
    \/ cbs' = cbs /\ left \in AlarmsLeft

MutNotBlocked == TRUE
NotBlocked == ~Blocks(S0A_BLOCK_JOIN_TC)
MutGiveUp(left) == left
TryAgain(left) == [left EXCEPT !.retry = @ + 1]

RefreshUnchanged == UNCHANGED <<sregs, node, sigs, opens, tc_policy>>
RefreshStarts ==
    \E left \in {alarms} \cup AlarmsLeft :
        /\ Due(left) /\ NotBlocked /\ ~steering
        /\ steering' = TRUE /\ bufs' = Append(bufs, "open") /\ alarms' = left
        /\ RefreshUnchanged
RefreshFails ==
    \E left \in {alarms} \cup AlarmsLeft :
        /\ Due(left) /\ NotBlocked
        /\ alarms' = TryAgain(left) /\ UNCHANGED <<steering, bufs>> /\ RefreshUnchanged
RefreshBlocked ==
    \E left \in {alarms} \cup AlarmsLeft :
        /\ Due(left) /\ ~NotBlocked
        /\ alarms' = left /\ UNCHANGED <<steering, bufs>> /\ RefreshUnchanged
PermitJoinRefresh == RefreshStarts \/ RefreshFails \/ RefreshBlocked

\* zboss_signal_handler.
SetAlarm(a) == a  \* the other alarms are cancelled
AfterSteering(ok) == IF ok THEN [NoAlarm EXCEPT !.renew = 1] ELSE [NoAlarm EXCEPT !.retry = 1]

MutPermitIgnored == UNCHANGED <<bufs, refused>>
WhenOpened == CloseLocal

Signal ==
    /\ sigs # <<>> /\ sigs' = Tail(sigs)
    /\ \/ /\ Head(sigs) = "UP"
          /\ recorded' = TRUE /\ cbs' = Append(cbs, "apply")
          /\ UNCHANGED <<bufs, refused, alarms>>
       \/ /\ Head(sigs) = "PERMIT"
          /\ WhenOpened /\ UNCHANGED <<recorded, cbs, alarms>>
       \/ \E ok \in BOOLEAN :
            /\ Head(sigs) = IF ok THEN "STEERING_OK" ELSE "STEERING_FAIL"
            /\ alarms' = SetAlarm(AfterSteering(ok)) /\ UNCHANGED <<recorded, cbs, bufs, refused>>
    /\ UNCHANGED <<sregs, joined, role, steering, local_open, tc_open, by_peer, tc_policy>>

-----------------------------------------------------------------------------
(* The stack and the network (external).                                   *)

\* A network is formed, resumed or joined; its signal makes the handler call network_up,
\* except after a join that AT+JN has given up waiting for.
NetworkStarts(r) ==
    /\ ~joined /\ role \in {"none", r} /\ Room
    /\ joined' = TRUE /\ role' = r /\ tc_policy' = {}
    /\ \/ sigs' = Append(sigs, "UP")
       \/ r = "ZR" /\ ~recorded /\ UNCHANGED sigs
    /\ UNCHANGED <<sregs, recorded, cbs, bufs, steering, alarms, opens>>

ParentLost ==
    /\ joined /\ role = "ZR" /\ joined' = FALSE
    /\ UNCHANGED <<sregs, role, recorded, queues, steering, alarms, opens, tc_policy>>

NextBuf(what) ==
    /\ bufs # <<>> /\ Head(bufs) = what /\ bufs' = Tail(bufs)
    /\ UNCHANGED <<sregs, node, cbs, alarms, tc_policy>>

\* The end of a steering, which opens the network, or not.
Opens ==
    /\ NextBuf("open") /\ steering' = FALSE
    /\ local_open' = TRUE /\ tc_open' = TRUE /\ by_peer' = FALSE /\ UNCHANGED refused
    /\ sigs' = Append(Append(sigs, "PERMIT"), "STEERING_OK")
OpenFails ==
    /\ NextBuf("open") /\ steering' = FALSE
    /\ sigs' = Append(sigs, "STEERING_FAIL") /\ UNCHANGED opens

\* permit_join_send.  A closing before a steering does not make up for one after it that
\* was refused.
CloseSent ==
    /\ \/ /\ NextBuf("close_network") /\ local_open' = FALSE /\ tc_open' = FALSE
          /\ by_peer' = FALSE
          /\ refused' = IF In("open", bufs') THEN refused \ {"local"} ELSE {}
       \/ /\ NextBuf("close_local") /\ local_open' = FALSE
          /\ refused' = refused \ {"local"} /\ UNCHANGED <<tc_open, by_peer>>
    /\ UNCHANGED <<sigs, steering>>
CloseRefused ==
    /\ \/ NextBuf("close_network") /\ refused' = {"local", "tc"}
       \/ NextBuf("close_local") /\ refused' = refused \cup {"local"}
    /\ UNCHANGED <<sigs, steering, local_open, tc_open, by_peer>>

\* The 180 s of an opening end.
Lapse ==
    /\ local_open \/ tc_open
    /\ local_open' = FALSE /\ tc_open' = FALSE /\ by_peer' = FALSE
    /\ refused' = IF In("open", bufs) THEN refused ELSE {}
    /\ UNCHANGED <<sregs, node, queues, steering, alarms, tc_policy>>

\* Another node opens the network, the Trust Centre included.
PeerOpens ==
    /\ joined /\ Room
    /\ local_open' = TRUE
    /\ IF role = "ZC" THEN tc_open' = TRUE /\ by_peer' = TRUE ELSE UNCHANGED <<tc_open, by_peer>>
    /\ sigs' = Append(sigs, "PERMIT")
    /\ UNCHANGED <<sregs, node, cbs, bufs, steering, alarms, tc_policy, refused>>

-----------------------------------------------------------------------------

AtThread == AtWrites \/ SregWritten
Zboss    == JoinPolicyApply \/ PermitJoinRefresh \/ Signal
Buffers  == Opens \/ OpenFails \/ CloseSent \/ CloseRefused
Network  == \/ \E r \in {"ZC", "ZR"} : NetworkStarts(r)
            \/ ParentLost \/ Lapse \/ PeerOpens

JoinNext == AtThread \/ CmdFactory \/ Restart \/ Zboss \/ Buffers \/ Network

JoinSpec == JoinInit /\ [][JoinNext]_vars

\* The ZBOSS thread runs, buffers are freed, and the stack does not refuse for ever.  No
\* more is assumed, of the AT thread for one: KeptOpen needs no more.
FairSpec ==
    /\ JoinSpec
    /\ WF_sigs(Signal) /\ WF_bufs(Buffers) /\ SF_steering(RefreshStarts) /\ SF_bufs(Opens)

-----------------------------------------------------------------------------
(* Properties.                                                             *)

JoinTypeOK ==
    /\ TypeOK
    /\ joined \in BOOLEAN /\ recorded \in BOOLEAN /\ role \in {"none", "ZC", "ZR"}
    /\ cbs \in Seq({"apply", "refresh"})
    /\ sigs \in Seq({"UP", "PERMIT", "STEERING_OK", "STEERING_FAIL"})
    /\ bufs \in Seq({"open", "close_network", "close_local"})
    /\ steering \in BOOLEAN /\ alarms \in [renew : {0, 1}, retry : Nat]
    /\ local_open \in BOOLEAN /\ tc_open \in BOOLEAN /\ by_peer \in BOOLEAN
    /\ tc_policy \subseteq PolicyBits /\ refused \subseteq {"local", "tc"}

\* S0A is not being written, nor reset, and nothing that will apply it is due.
Settled ==
    /\ joined /\ pc \in {"idle", "copy", "written"} /\ (pc = "idle" \/ reg # MainReg)
    /\ ~In("apply", cbs) /\ ~In("UP", sigs)
Coordinator == Settled /\ role = "ZC"

\* While S0A bit 5 is clear the coordinator is always about to open the network again:
\* no failure, no cancelled alarm and no write of S0A breaks the chain of alarms.
ChainAlive ==
    Coordinator /\ ~Blocks(S0A_BLOCK_JOIN_TC) =>
        \/ steering \/ alarms # NoAlarm \/ In("refresh", cbs)
        \/ In("STEERING_OK", sigs) \/ In("STEERING_FAIL", sigs)

\* Once bit 5 is set and applied, what closes the Trust Centre comes after everything that
\* opens it, or nothing of this node will open it and it is closed, unless closing it could
\* not be asked for or was refused, or another node has opened it since (join_policy_apply,
\* permit_join_refresh): the handler of the signal that it is open looks at bit 0 only, so
\* an opening by another node lasts until it lapses or S0A is written, whatever README.md:134
\* says of bit 5 ("accepts no new node, whatever its parent").
ClosingLast ==
    \E i \in 1..Len(bufs) :
        bufs[i] = "close_network" /\ \A j \in i..Len(bufs) : bufs[j] # "open"
Shut == "tc" \in refused \/ ClosingLast \/ (~In("open", bufs) /\ (~tc_open \/ by_peer))
TcStaysClosed == Coordinator /\ Blocks(S0A_BLOCK_JOIN_TC) => Shut

\* Once bit 0 is set and applied a router accepts no new node, whoever opens the network,
\* except while the message that closes it is on its way, and so does a coordinator with
\* bit 5 set.  Of a router whose join AT+JN has given up nothing is said until it is recorded:
\* its S0A is not applied when it joins.  With bit 5 clear a coordinator may wait for its
\* next opening: the alarm of 5 s that would apply bit 0 is cancelled by the end of a
\* steering begun before.
Closing == In("close_local", bufs) \/ In("close_network", bufs) \/ In("PERMIT", sigs)
LocalStaysClosed ==
    /\ Settled /\ recorded /\ Blocks(S0A_BLOCK_JOIN_LOCAL)
    /\ role = "ZC" => Blocks(S0A_BLOCK_JOIN_TC)
    => ~local_open \/ "local" \in refused \/ Closing

\* The policy of the Trust Centre follows S0A: a half written value that was applied is
\* applied again (join_policy_apply, sreg_written).
PolicyFollows == Coordinator => tc_policy = val[MainReg] \cap PolicyBits

\* A coordinator that is left alone with bit 5 clear opens its network again and again.
KeptOpen ==
    <>[](Coordinator /\ ~Blocks(S0A_BLOCK_JOIN_TC)) => []<>tc_open
=============================================================================
