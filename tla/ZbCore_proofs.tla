--------------------------- MODULE ZbCore_proofs ---------------------------
(***************************************************************************)
(* Safety of ZbCore for every set of join roles and every bound: types,    *)
(* the handshake on op_done, the use of the stack and of its NVRAM, what   *)
(* flash records, what OK to AT+EN and AT+JN means, and that the commands  *)
(* keep the promise of Membership.                                         *)
(***************************************************************************)
EXTENDS ZbCore, TLAPS

-----------------------------------------------------------------------------
(* Types.  They are inductive once zbc_init is known to inject a line only *)
(* when it loaded one.                                                     *)

LineLoaded == main_pc \in {"delete", "inject"} => pending_cmd # "none"
TypeInv == TypeOK /\ LineLoaded

\* The pieces of a handler that are not in zb_todo keep their types.
LEMMA OnType ==
  ASSUME TypeOK, NEW ids, On(ids)
  PROVE  sigs' \in Seq(Sigs) /\ Head(sigs) \in Sigs /\ zb_todo = <<>>
  BY DEF On, TypeOK

LEMMA CompleteType ==
  ASSUME TypeOK, NEW res \in Results, Complete(res)
  PROVE  op' \in Ops /\ op_result' \in Results \cup {"none"} /\ op_done' \in {0, 1}
  BY DEF Complete, TypeOK, Ops, opv

LEMMA JobType ==
  /\ \A r \in Roles : Save(r) \in Jobs
  /\ \A r \in Results : Completion(r) \in Jobs
  /\ Restart \in Jobs
  BY DEF Jobs

\* What a job carries is of the kind it needs.
LEMMA JobArg ==
  ASSUME NEW j \in Jobs
  PROVE  /\ j.do = "save" => j.arg \in Roles /\ j = Save(j.arg)
         /\ j.do = "complete" => j.arg \in Results
  BY DEF Jobs, Save, Completion, Restart

LEMMA RoleSaveType ==
  ASSUME NEW role \in Roles, NEW rest \in Seq(Jobs), RoleSave(role, rest)
  PROVE  stored_role' \in Roles /\ zb_todo' \in Seq(Jobs)
  <1>1. <<Save(role)>> \in Seq(Jobs)
    BY JobType
  <1> QED BY <1>1 DEF RoleSave

LEMMA NetworkUpType ==
  ASSUME TypeOK, NEW rest \in Seq(Jobs), NetworkUp(rest)
  PROVE  stored_role' \in Roles /\ zb_todo' \in Seq(Jobs)
  BY RoleSaveType DEF NetworkUp, TypeOK

LEMMA DefaultHandlerType ==
  ASSUME TypeOK, DefaultHandler
  PROVE  stack' \in Stacks
  BY DEF DefaultHandler, TypeOK, Stacks

\* A handler preserves the types when it does for what it changes.
LEMMA HandlerType ==
  ASSUME TypeInv, UnchangedByHandlers,
         sigs' \in Seq(Sigs), zb_todo' \in Seq(Jobs), stored_role' \in Roles, stack' \in Stacks,
         op' \in Ops, op_result' \in Results \cup {"none"}, op_done' \in {0, 1}
  PROVE  TypeInv'
  BY DEF UnchangedByHandlers, TypeInv, TypeOK, LineLoaded, flash, mainv, atv

LEMMA ResultsMembers ==
  /\ {"OK", "CANNOT_FORM", "CANNOT_JOIN"} \subseteq Results
  /\ "NONE" \in Roles
  /\ <<>> \in Seq(Jobs)
  /\ <<Completion("OK")>> \in Seq(Jobs)
  /\ <<Completion("CANNOT_JOIN")>> \in Seq(Jobs)
  /\ <<Restart>> \in Seq(Jobs)
  <1>1. {"OK", "CANNOT_FORM", "CANNOT_JOIN"} \subseteq Results
    BY DEF Results
  <1>2. "NONE" \in Roles
    BY DEF Roles
  <1> QED BY <1>1, <1>2, JobType

LEMMA ResetType == ASSUME TypeInv, Reset PROVE TypeInv'
  <1> USE DEF TypeInv, TypeOK, Reset
  <1>1. (flash_role \in Roles /\ nvram \in Roles /\ stored_role \in Roles /\ net_role \in Roles)'
    BY DEF Roles, flash
  <1>2. (op \in Ops /\ stack \in Stacks /\ at_pc \in AtPcs /\ op_done \in {0, 1})'
    BY DEF Ops, Stacks, AtPcs
  <1>3. (/\ flash_pend \in AllCmds \cup {"none"} /\ current \in AllCmds \cup {"none"}
         /\ pending_cmd \in AllCmds \cup {"none"})'
    BY DEF flash
  <1>4. (line_q \in Seq(AllCmds) /\ Len(line_q) <= LineQDepth)'
    BY BoundsAssumption
  <1>5. (sigs \in Seq(Sigs) /\ zb_todo \in Seq(Jobs))'
    OBVIOUS
  <1>6. (/\ stack_started \in BOOLEAN /\ reboot_work \in BOOLEAN /\ reset_cb \in BOOLEAN
         /\ op_result \in Results \cup {"none"} /\ result \in Results \cup {"none"}
         /\ main_pc \in {"init", "delete", "inject", "run"})'
    OBVIOUS
  <1>7. LineLoaded'
    BY DEF LineLoaded
  <1> QED BY <1>1, <1>2, <1>3, <1>4, <1>5, <1>6, <1>7

LEMMA InitType == Init => TypeInv
  <1> SUFFICES ASSUME Init PROVE TypeInv
    OBVIOUS
  <1> USE DEF Init, RamInit
  <1>1. flash_role \in Roles /\ nvram \in Roles /\ stored_role \in Roles /\ net_role \in Roles
    BY DEF Roles
  <1>2. op \in Ops /\ stack \in Stacks /\ at_pc \in AtPcs /\ op_done \in {0, 1}
    BY DEF Ops, Stacks, AtPcs
  <1>3. line_q \in Seq(AllCmds) /\ Len(line_q) <= LineQDepth
    BY BoundsAssumption
  <1>4. sigs \in Seq(Sigs) /\ zb_todo \in Seq(Jobs)
    OBVIOUS
  <1>5. LineLoaded
    BY DEF LineLoaded
  <1> QED BY <1>1, <1>2, <1>3, <1>4, <1>5 DEF TypeInv, TypeOK

LEMMA MainType == ASSUME TypeInv, MainThread PROVE TypeInv'
  <1> USE BoundsAssumption DEF TypeInv, TypeOK, LineLoaded, flash, opv, atv, zbv
  <1>1. CASE ZbcInit
    <2>1. stack' \in Stacks /\ stack_started' \in BOOLEAN /\ net_role' \in Roles
      BY <1>1 DEF ZbcInit, StartRecorded, Stacks
    <2>2. main_pc' \in {"init", "delete", "inject", "run"} /\ LineLoaded'
      BY <1>1 DEF ZbcInit, RunPend
    <2> QED BY <1>1, <2>1, <2>2 DEF ZbcInit
  <1>2. CASE DeletePend
    BY <1>2 DEF DeletePend
  <1>3. CASE InjectLine
    BY <1>3 DEF InjectLine, PutLine
  <1> QED BY <1>1, <1>2, <1>3 DEF MainThread

LEMMA AtType == ASSUME TypeInv, AtThread PROVE TypeInv'
  <1> USE BoundsAssumption DEF TypeInv, TypeOK, LineLoaded, AtPcs, flash, mainv, opv, atv, zbv
  <1>1. CASE TakeLine
    BY <1>1 DEF TakeLine, Goto
  <1>2. CASE StartRefused
    BY <1>2 DEF StartRefused, StartCmd, Answer, Results
  <1>3. CASE StartDeferred
    BY <1>3 DEF StartDeferred, StartCmd
  <1>4. CASE DeferToNextBoot
    BY <1>4 DEF DeferToNextBoot, Goto
  <1>5. CASE StartNetwork
    BY <1>5 DEF StartNetwork, StartCmd, EraseNvram, BeginOp, Roles, Ops, Stacks
  <1>6. CASE RunOpDone
    BY <1>6 DEF RunOpDone, TakeDone, Answer
  <1>7. CASE WaitTimesOut
    BY <1>7 DEF WaitTimesOut, Goto
  <1>8. CASE RunOpTimeout
    BY <1>8 DEF RunOpTimeout, AbandonOp, Answer, Ops, Results
  <1>9. CASE LeaveCmd
    BY <1>9 DEF LeaveCmd, Answer, Results
  <1>10. CASE LeaveTest
    BY <1>10 DEF LeaveTest
  <1>11. CASE LeaveBegin
    BY <1>11 DEF LeaveBegin, Goto, BeginOp, Ops
  <1>12. CASE LeaveDone
    BY <1>12 DEF LeaveDone, Goto, TakeDone
  <1>13. CASE LeaveTimeout
    BY <1>13 DEF LeaveTimeout, Goto, AbandonOp, Ops
  <1>14. CASE ClearRole
    BY <1>14 DEF ClearRole, Goto, Roles
  <1>15. CASE ClearFlashRole
    BY <1>15 DEF ClearFlashRole, Roles
  <1>16. CASE Wipe
    BY <1>16 DEF Wipe, Goto
  <1>17. CASE AnswerOkAndReboot
    BY <1>17 DEF AnswerOkAndReboot, Goto, Results
  <1>18. CASE PrintResult
    BY <1>18 DEF PrintResult, Goto
  <1>19. CASE SysReboot
    BY <1>19, ResetType DEF SysReboot
  <1> QED BY <1>1, <1>2, <1>3, <1>4, <1>5, <1>6, <1>7, <1>8, <1>9, <1>10, <1>11, <1>12, <1>13, <1>14, <1>15, <1>16, <1>17, <1>18, <1>19 DEF AtThread

LEMMA ZbossType == ASSUME TypeInv, ZbossThread PROVE TypeInv'
  <1>1. CASE OnFirstStart
    <2>1. stored_role' \in Roles /\ zb_todo' \in Seq(Jobs)
      BY <1>1, RoleSaveType, ResultsMembers DEF OnFirstStart, TypeInv, TypeOK
    <2>2. stack' \in Stacks
      BY <1>1 DEF OnFirstStart, TypeInv, TypeOK, Stacks
    <2>3. op' \in Ops /\ op_result' \in Results \cup {"none"} /\ op_done' \in {0, 1}
      BY <1>1, CompleteType, ResultsMembers DEF OnFirstStart, TypeInv, TypeOK, opv
    <2> QED BY <1>1, <2>1, <2>2, <2>3, OnType, HandlerType DEF OnFirstStart, TypeInv
  <1>2. CASE OnDeviceReboot
    <2>1. stored_role' \in Roles /\ zb_todo' \in Seq(Jobs)
      BY <1>2, NetworkUpType, ResultsMembers DEF OnDeviceReboot, TypeInv, TypeOK
    <2>2. stack' \in Stacks
      BY <1>2, DefaultHandlerType DEF OnDeviceReboot, TypeInv, TypeOK
    <2> QED BY <1>2, <2>1, <2>2, OnType, HandlerType DEF OnDeviceReboot, TypeInv, TypeOK, opv
  <1>3. CASE OnFormation
    <2>1. stored_role' \in Roles /\ zb_todo' \in Seq(Jobs)
      BY <1>3, NetworkUpType, ResultsMembers DEF OnFormation, TypeInv, TypeOK
    <2>2. op' \in Ops /\ op_result' \in Results \cup {"none"} /\ op_done' \in {0, 1}
      BY <1>3, CompleteType, ResultsMembers DEF OnFormation, TypeInv, TypeOK, opv
    <2> QED BY <1>3, <2>1, <2>2, OnType, HandlerType DEF OnFormation, TypeInv, TypeOK
  <1>4. CASE OnSteering
    <2>1. stored_role' \in Roles /\ zb_todo' \in Seq(Jobs)
      BY <1>4, NetworkUpType, ResultsMembers DEF OnSteering, TypeInv, TypeOK
    <2>2. stack' \in Stacks
      BY <1>4, DefaultHandlerType DEF OnSteering, TypeInv, TypeOK
    <2>3. op' \in Ops /\ op_result' \in Results \cup {"none"} /\ op_done' \in {0, 1}
      BY <1>4, CompleteType, ResultsMembers DEF OnSteering, TypeInv, TypeOK, opv
    <2> QED BY <1>4, <2>1, <2>2, <2>3, OnType, HandlerType DEF OnSteering, TypeInv
  <1>5. CASE OnLeave
    <2>1. stored_role' \in Roles /\ zb_todo' \in Seq(Jobs)
      BY <1>5, RoleSaveType, ResultsMembers DEF OnLeave, Removed, TypeInv, TypeOK
    <2>2. stack' \in Stacks
      BY <1>5, DefaultHandlerType DEF OnLeave, TypeInv, TypeOK
    <2>3. op' \in Ops /\ op_result' \in Results \cup {"none"} /\ op_done' \in {0, 1}
      BY <1>5, CompleteType, ResultsMembers DEF OnLeave, TypeInv, TypeOK, opv
    <2> QED BY <1>5, <2>1, <2>2, <2>3, OnType, HandlerType DEF OnLeave, TypeInv
  <1>6. CASE FlushRole
    <2>1. Head(zb_todo) \in Jobs /\ zb_todo' \in Seq(Jobs)
      BY <1>6 DEF FlushRole, NextJob, TypeInv, TypeOK
    <2> QED BY <1>6, <2>1, JobArg
        DEF FlushRole, NextJob, TypeInv, TypeOK, LineLoaded, mainv, opv, atv, zbv
  <1>7. CASE FinishOp
    <2>1. Head(zb_todo) \in Jobs /\ zb_todo' \in Seq(Jobs)
      BY <1>7 DEF FinishOp, NextJob, TypeInv, TypeOK
    <2>2. op' \in Ops /\ op_result' \in Results \cup {"none"} /\ op_done' \in {0, 1}
      BY <1>7, <2>1, JobArg, CompleteType DEF FinishOp, NextJob, TypeInv
    <2> QED BY <1>7, <2>1, <2>2
        DEF FinishOp, TypeInv, TypeOK, LineLoaded, flash, mainv, atv, zbv
  <1>8. CASE ScheduleReboot
    BY <1>8 DEF ScheduleReboot, NextJob, TypeInv, TypeOK, LineLoaded, flash, mainv, opv, atv, zbv
  <1> QED BY <1>1, <1>2, <1>3, <1>4, <1>5, <1>6, <1>7, <1>8 DEF ZbossThread, SignalHandler

\* What the stack raises is typed whatever it raises.
LEMMA RaiseType ==
  ASSUME TypeInv, NEW signals \in Seq(Sigs), NEW stk \in Stacks, NEW network \in Roles,
         Raise(signals, stk, network)
  PROVE  TypeInv'
  BY DEF Raise, TypeInv, TypeOK, LineLoaded, mainv, opv, atv

LEMMA SignalType ==
  ASSUME NEW id \in SigIds, NEW ok \in BOOLEAN
  PROVE  Signal(id, ok) \in Sigs /\ <<Signal(id, ok)>> \in Seq(Sigs)
  BY DEF Signal, Sigs

LEMMA StackType == ASSUME TypeInv, ZbossStack PROVE TypeInv'
  <1> USE DEF SigIds, Stacks
  <1>0. nvram \in Roles /\ net_role \in Roles /\ "NONE" \in Roles
    BY DEF TypeInv, TypeOK, Roles
  <1>1. ASSUME NEW ok \in BOOLEAN, StackStarts(ok) PROVE TypeInv'
    BY <1>0, <1>1, SignalType, RaiseType DEF StackStarts
  <1>2. ASSUME NEW ok \in BOOLEAN, NetworkFormed(ok) PROVE TypeInv'
    BY <1>0, <1>2, SignalType, RaiseType DEF NetworkFormed
  <1>3. ASSUME NEW ok \in BOOLEAN, SteeringEnds(ok) PROVE TypeInv'
    BY <1>0, <1>3, SignalType, RaiseType DEF SteeringEnds
  <1>4. CASE KeyExchangeFails
    <2> DEFINE left == Signal("LEAVE", TRUE)
               failed == Signal("STEERING", FALSE)
    <2>1. left \in Sigs /\ failed \in Sigs
      BY SignalType
    <2>2. Raise(<<left>>, "ready", "NONE") \/ Raise(<<left, failed>>, "ready", "NONE")
      BY <1>4 DEF KeyExchangeFails
    <2> HIDE DEF left, failed
    <2>3. <<left>> \in Seq(Sigs) /\ <<left, failed>> \in Seq(Sigs)
      BY <2>1
    <2>4. "ready" \in Stacks
      OBVIOUS
    <2> HIDE DEF Stacks, SigIds
    <2> QED BY <1>0, <2>2, <2>3, <2>4, RaiseType
  <1>5. CASE RemovedByPeer
    BY <1>0, <1>5, SignalType, RaiseType DEF RemovedByPeer
  <1>6. CASE AskedToRejoin
    BY <1>0, <1>6, SignalType, RaiseType DEF AskedToRejoin
  <1>7. CASE ParentLost
    <2>1. <<>> \in Seq(Sigs) /\ "rejoining" \in Stacks
      OBVIOUS
    <2> QED BY <1>0, <1>7, <2>1, RaiseType, Zenon DEF ParentLost
  <1>8. CASE LocalReset
    <2>1. \A s \in Sigs : Append(sigs, s) \in Seq(Sigs)
      BY DEF TypeInv, TypeOK
    <2>2. sigs' \in Seq(Sigs) /\ stack' \in Stacks /\ nvram' \in Roles /\ reset_cb' \in BOOLEAN
      BY <1>0, <1>8, <2>1, SignalType DEF LocalReset, TypeInv, TypeOK
    <2> QED BY <1>8, <2>2 DEF LocalReset, TypeInv, TypeOK, LineLoaded, mainv, opv, atv
  <1> QED BY <1>1, <1>2, <1>3, <1>4, <1>5, <1>6, <1>7, <1>8 DEF ZbossStack

LEMMA HostType == ASSUME TypeInv, NEW c \in Cmds, HostTypes(c) PROVE TypeInv'
  BY CmdsAssumption, BoundsAssumption
     DEF HostTypes, PutLine, TypeInv, TypeOK, LineLoaded, flash, mainv, opv, atv, zbv

LEMMA StutterType == ASSUME TypeInv, UNCHANGED vars PROVE TypeInv'
  BY DEF vars, TypeInv, TypeOK, LineLoaded, flash, mainv, opv, atv, zbv

LEMMA NextType == TypeInv /\ [Next]_vars => TypeInv'
  <1> SUFFICES ASSUME TypeInv, [Next]_vars PROVE TypeInv'
    OBVIOUS
  <1>1. CASE RebootWork \/ PowerLoss
    BY <1>1, ResetType DEF RebootWork, PowerLoss
  <1> QED BY <1>1, MainType, AtType, ZbossType, StackType, HostType, StutterType DEF Next

\* Every variable keeps its type, for all roles and bounds.
THEOREM TypeCorrect == Spec => []TypeOK
  <1>1. TypeInv => TypeOK
    BY DEF TypeInv
  <1> QED BY <1>1, InitType, NextType, PTL DEF Spec

-----------------------------------------------------------------------------
(* The handshake of run_op and leave_network with complete().              *)

CleanStart == op # "NONE" => op_done = 0
Handshake == CleanStart /\ WaitedOpAnswered

\* Whatever does not move the AT thread may only complete the operation.
LEMMA CompleteHandshake ==
  ASSUME Handshake, NEW res, Complete(res) \/ UNCHANGED opv, at_pc' = at_pc
  PROVE  Handshake'
  BY DEF Handshake, CleanStart, WaitedOpAnswered, Complete, opv

LEMMA ResetHandshake == ASSUME Reset PROVE Handshake'
  BY DEF Reset, Handshake, CleanStart, WaitedOpAnswered

LEMMA AtHandshake == ASSUME Handshake, AtThread PROVE Handshake'
  <1> USE DEF Handshake, CleanStart, WaitedOpAnswered
  <1>1. CASE TakeLine
    BY <1>1 DEF TakeLine, Goto, opv
  <1>2. CASE StartRefused
    BY <1>2 DEF StartRefused, StartCmd, Answer, opv
  <1>3. CASE StartDeferred
    BY <1>3 DEF StartDeferred, StartCmd, opv
  <1>4. CASE DeferToNextBoot
    BY <1>4 DEF DeferToNextBoot, Goto, opv
  <1>5. CASE StartNetwork
    BY <1>5 DEF StartNetwork, StartCmd, BeginOp
  <1>6. CASE RunOpDone
    BY <1>6 DEF RunOpDone, TakeDone, Answer
  <1>7. CASE WaitTimesOut
    BY <1>7 DEF WaitTimesOut, Goto, opv
  <1>8. CASE RunOpTimeout
    BY <1>8 DEF RunOpTimeout, AbandonOp, Answer
  <1>9. CASE LeaveCmd
    BY <1>9 DEF LeaveCmd, Answer, opv
  <1>10. CASE LeaveTest
    BY <1>10 DEF LeaveTest, opv
  <1>11. CASE LeaveBegin
    BY <1>11 DEF LeaveBegin, Goto, BeginOp
  <1>12. CASE LeaveDone
    BY <1>12 DEF LeaveDone, Goto, TakeDone
  <1>13. CASE LeaveTimeout
    BY <1>13 DEF LeaveTimeout, Goto, AbandonOp
  <1>14. CASE ClearRole
    BY <1>14 DEF ClearRole, Goto, opv
  <1>15. CASE ClearFlashRole
    BY <1>15 DEF ClearFlashRole, opv
  <1>16. CASE Wipe
    BY <1>16 DEF Wipe, Goto, opv
  <1>17. CASE AnswerOkAndReboot
    BY <1>17 DEF AnswerOkAndReboot, Goto, opv
  <1>18. CASE PrintResult
    BY <1>18 DEF PrintResult, Goto, opv
  <1>19. CASE SysReboot
    BY <1>19 DEF SysReboot, Reset
  <1> QED BY <1>1, <1>2, <1>3, <1>4, <1>5, <1>6, <1>7, <1>8, <1>9, <1>10, <1>11, <1>12, <1>13, <1>14, <1>15, <1>16, <1>17, <1>18, <1>19 DEF AtThread

LEMMA OtherHandshake ==
  ASSUME Handshake, MainThread \/ ZbossThread \/ ZbossStack \/ (\E c \in Cmds : HostTypes(c))
  PROVE  Handshake'
  <1>1. CASE MainThread
    <2>1. UNCHANGED opv /\ at_pc' = at_pc
      BY <1>1 DEF MainThread, ZbcInit, DeletePend, InjectLine, atv
    <2> QED BY <2>1, CompleteHandshake
  <1>2. CASE ZbossThread
    <2>1. at_pc' = at_pc
      BY <1>2 DEF ZbossThread, SignalHandler, OnFirstStart, OnDeviceReboot, OnFormation,
                  OnSteering, OnLeave, UnchangedByHandlers, FlushRole, FinishOp,
                  ScheduleReboot, atv
    <2>2. UNCHANGED opv \/ \E res : Complete(res)
      BY <1>2 DEF ZbossThread, SignalHandler, OnFirstStart, OnDeviceReboot, OnFormation,
                  OnSteering, OnLeave, FlushRole, FinishOp, ScheduleReboot
    <2> QED BY <2>1, <2>2, CompleteHandshake
  <1>3. CASE ZbossStack
    <2>1. UNCHANGED opv /\ at_pc' = at_pc
      BY <1>3 DEF ZbossStack, StackStarts, NetworkFormed, SteeringEnds, KeyExchangeFails,
                  RemovedByPeer, AskedToRejoin, ParentLost, LocalReset, Raise, atv
    <2> QED BY <2>1, CompleteHandshake
  <1>4. CASE \E c \in Cmds : HostTypes(c)
    <2>1. UNCHANGED opv /\ at_pc' = at_pc
      BY <1>4 DEF HostTypes, atv
    <2> QED BY <2>1, CompleteHandshake
  <1> QED BY <1>1, <1>2, <1>3, <1>4

LEMMA NextHandshake == Handshake /\ [Next]_vars => Handshake'
  <1> SUFFICES ASSUME Handshake, [Next]_vars PROVE Handshake'
    OBVIOUS
  <1>1. CASE RebootWork \/ PowerLoss
    BY <1>1, ResetHandshake DEF RebootWork, PowerLoss
  <1>2. CASE UNCHANGED vars
    BY <1>2, CompleteHandshake DEF vars, atv
  <1> QED BY <1>1, <1>2, AtHandshake, OtherHandshake DEF Next

\* The AT thread never waits for an operation that nobody is going to complete.
THEOREM WaitedOpAnsweredHolds == Spec => []WaitedOpAnswered
  <1>1. Init => Handshake
    BY DEF Init, RamInit, Handshake, CleanStart, WaitedOpAnswered
  <1>2. Handshake => WaitedOpAnswered
    BY DEF Handshake
  <1> QED BY <1>1, <1>2, NextHandshake, PTL DEF Spec

-----------------------------------------------------------------------------
(* The use of the stack and of its NVRAM.                                  *)

\* Until the stack is started nothing of it is going on, and main comes first.
NothingBeforeStart ==
  /\ ~stack_started =>
       /\ stack = "off" /\ sigs = <<>> /\ zb_todo = <<>> /\ ~reset_cb /\ op = "NONE"
       /\ at_pc \notin {"leave_begin", "leave_wait", "leave_timeout", "run_wait", "run_timeout"}
  /\ main_pc = "init" => ~stack_started /\ at_pc = "idle" /\ stored_role = "NONE"

LEMMA ResetBeforeStart == ASSUME Reset PROVE NothingBeforeStart'
  BY DEF Reset, NothingBeforeStart

LEMMA AtBeforeStart == ASSUME TypeInv, NothingBeforeStart, AtThread PROVE NothingBeforeStart'
  <1> USE DEF NothingBeforeStart, mainv, opv, zbv
  <1>1. CASE TakeLine
    BY <1>1 DEF TakeLine, Goto
  <1>2. CASE StartRefused
    BY <1>2 DEF StartRefused, StartCmd, Answer
  <1>3. CASE StartDeferred
    BY <1>3 DEF StartDeferred, StartCmd
  <1>4. CASE DeferToNextBoot
    BY <1>4 DEF DeferToNextBoot, Goto
  <1>5. CASE StartNetwork
    BY <1>5 DEF StartNetwork, StartCmd, BeginOp, MustDefer
  <1>6. CASE RunOpDone
    BY <1>6 DEF RunOpDone, TakeDone, Answer
  <1>7. CASE WaitTimesOut
    BY <1>7 DEF WaitTimesOut, Goto
  <1>8. CASE RunOpTimeout
    BY <1>8 DEF RunOpTimeout, AbandonOp, Answer
  <1>9. CASE LeaveCmd
    BY <1>9 DEF LeaveCmd, Answer
  <1>10. CASE LeaveTest
    BY <1>10 DEF LeaveTest, Joined
  <1>11. CASE LeaveBegin
    BY <1>11 DEF LeaveBegin, Goto, BeginOp
  <1>12. CASE LeaveDone
    BY <1>12 DEF LeaveDone, Goto, TakeDone
  <1>13. CASE LeaveTimeout
    BY <1>13 DEF LeaveTimeout, Goto, AbandonOp
  <1>14. CASE ClearRole
    BY <1>14 DEF ClearRole, Goto
  <1>15. CASE ClearFlashRole
    BY <1>15 DEF ClearFlashRole
  <1>16. CASE Wipe
    BY <1>16 DEF Wipe, Goto
  <1>17. CASE AnswerOkAndReboot
    BY <1>17 DEF AnswerOkAndReboot, Goto
  <1>18. CASE PrintResult
    BY <1>18 DEF PrintResult, Goto
  <1>19. CASE SysReboot
    BY <1>19 DEF SysReboot, Reset
  <1> QED BY <1>1, <1>2, <1>3, <1>4, <1>5, <1>6, <1>7, <1>8, <1>9, <1>10, <1>11, <1>12, <1>13, <1>14, <1>15, <1>16, <1>17, <1>18, <1>19 DEF AtThread

LEMMA OtherBeforeStart ==
  ASSUME TypeInv, NothingBeforeStart,
         MainThread \/ ZbossThread \/ ZbossStack \/ (\E c \in Cmds : HostTypes(c))
  PROVE  NothingBeforeStart'
  <1>1. CASE MainThread
    BY <1>1 DEF MainThread, ZbcInit, StartRecorded, DeletePend, InjectLine, PutLine,
                NothingBeforeStart, opv, atv, zbv, TypeInv, LineLoaded
  <1>2. CASE ZbossThread
    <2>1. stack_started
      BY <1>2 DEF NothingBeforeStart, ZbossThread, SignalHandler, OnFirstStart, OnDeviceReboot,
                  OnFormation, OnSteering, OnLeave, On, FlushRole, FinishOp, ScheduleReboot,
                  NextJob
    <2>2. UNCHANGED <<stack_started, main_pc>>
      BY <1>2 DEF ZbossThread, SignalHandler, OnFirstStart, OnDeviceReboot, OnFormation,
                  OnSteering, OnLeave, UnchangedByHandlers, FlushRole, FinishOp,
                  ScheduleReboot, mainv
    <2> QED BY <2>1, <2>2 DEF NothingBeforeStart
  <1>3. CASE ZbossStack
    <2>1. stack_started
      BY <1>3 DEF NothingBeforeStart, ZbossStack, StackStarts, NetworkFormed, SteeringEnds,
                  KeyExchangeFails, RemovedByPeer, AskedToRejoin, ParentLost, LocalReset
    <2>2. UNCHANGED <<stack_started, main_pc>>
      BY <1>3 DEF ZbossStack, StackStarts, NetworkFormed, SteeringEnds, KeyExchangeFails,
                  RemovedByPeer, AskedToRejoin, ParentLost, LocalReset, Raise, mainv
    <2> QED BY <2>1, <2>2 DEF NothingBeforeStart
  <1>4. CASE \E c \in Cmds : HostTypes(c)
    BY <1>4 DEF HostTypes, NothingBeforeStart, mainv, opv, atv, zbv
  <1> QED BY <1>1, <1>2, <1>3, <1>4

LEMMA NextBeforeStart == TypeInv /\ NothingBeforeStart /\ [Next]_vars => NothingBeforeStart'
  <1> SUFFICES ASSUME TypeInv, NothingBeforeStart, [Next]_vars PROVE NothingBeforeStart'
    OBVIOUS
  <1>1. CASE RebootWork \/ PowerLoss
    BY <1>1, ResetBeforeStart DEF RebootWork, PowerLoss
  <1>2. CASE UNCHANGED vars
    BY <1>2 DEF vars, mainv, opv, atv, zbv, NothingBeforeStart
  <1> QED BY <1>1, <1>2, AtBeforeStart, OtherBeforeStart DEF Next

LEMMA BeforeStart == Spec => [](TypeInv /\ NothingBeforeStart)
  <1>1. Init => NothingBeforeStart
    BY DEF Init, RamInit, NothingBeforeStart
  <1> QED BY <1>1, InitType, NextType, NextBeforeStart, PTL DEF Spec

\* prepare_new_network erases ZBOSS NVRAM only before the stack is started and when no
\* network is recorded.
THEOREM NvramErasedOnlyWhenOffHolds == Spec => NvramErasedOnlyWhenOff
  <1>1. NothingBeforeStart /\ [Next]_vars =>
           [at_pc = "exec" /\ at_pc' = "run_wait" => stack = "off" /\ stored_role = "NONE"]_vars
    <2> SUFFICES ASSUME NothingBeforeStart, Next, at_pc = "exec", at_pc' = "run_wait"
                 PROVE  stack = "off" /\ stored_role = "NONE"
      OBVIOUS
    <2>1. CASE AtThread
      <3>1. StartNetwork
        BY <2>1 DEF AtThread, TakeLine, StartRefused, StartDeferred, DeferToNextBoot, RunOpDone,
                    WaitTimesOut, RunOpTimeout, LeaveCmd, LeaveTest, LeaveBegin, LeaveDone,
                    LeaveTimeout, ClearRole, ClearFlashRole, Wipe, AnswerOkAndReboot,
                    PrintResult, SysReboot, Reset, Goto, Answer
      <3> QED BY <3>1 DEF StartNetwork, MustDefer, NothingBeforeStart
    <2>2. CASE RebootWork \/ PowerLoss
      BY <2>2 DEF RebootWork, PowerLoss, Reset
    <2>3. CASE MainThread \/ ZbossThread
      BY <2>3 DEF MainThread, ZbcInit, DeletePend, InjectLine, ZbossThread, SignalHandler,
                  OnFirstStart, OnDeviceReboot, OnFormation, OnSteering, OnLeave,
                  UnchangedByHandlers, FlushRole, FinishOp, ScheduleReboot, atv
    <2>4. CASE ZbossStack \/ (\E c \in Cmds : HostTypes(c))
      BY <2>4 DEF ZbossStack, StackStarts, NetworkFormed, SteeringEnds, KeyExchangeFails,
                  RemovedByPeer, AskedToRejoin, ParentLost, LocalReset, Raise, HostTypes, atv
    <2> QED BY <2>1, <2>2, <2>3, <2>4 DEF Next
  <1> QED BY <1>1, BeforeStart, PTL DEF Spec, NvramErasedOnlyWhenOff

\* A new network starts from an empty NVRAM, and so never resumes an old one.
FreshStart ==
  /\ op \in {"FORM", "JOIN"} => (stack = "starting" => nvram = "NONE")
  /\ NoResumeDuringStart

\* The handler of a signal only takes from the queue and only ends operations.
LEMMA TailFresh ==
  ASSUME TypeInv, FreshStart, sigs # <<>>, sigs' = Tail(sigs),
         op' \in {"FORM", "JOIN"} => op' = op,
         stack' = "starting" => stack = "starting", nvram' = nvram
  PROVE  FreshStart'
  BY DEF FreshStart, NoResumeDuringStart, TypeInv, TypeOK

LEMMA SameSigsFresh ==
  ASSUME FreshStart, sigs' = sigs, op' \in {"FORM", "JOIN"} => op' = op,
         stack' = "starting" => stack = "starting",
         nvram' # "NONE" => nvram' = nvram
  PROVE  FreshStart'
  BY DEF FreshStart, NoResumeDuringStart

LEMMA RaiseFresh ==
  ASSUME TypeInv, FreshStart, NEW signals \in Seq(Sigs), NEW stk, NEW network,
         Raise(signals, stk, network), stk # "starting",
         \A i \in 1..Len(signals) : signals[i].sig # "REBOOT"
  PROVE  FreshStart'
  <1>1. sigs \in Seq(Sigs) /\ sigs' = sigs \o signals /\ op' = op /\ stack' = stk
    BY DEF Raise, opv, TypeInv, TypeOK
  <1>2. CASE op \in {"FORM", "JOIN"}
    <2>1. \A i \in 1..Len(sigs) : sigs[i].sig # "REBOOT"
      BY <1>2 DEF FreshStart, NoResumeDuringStart
    <2>2. \A i \in 1..Len(sigs \o signals) : (sigs \o signals)[i].sig # "REBOOT"
      BY <1>1, <2>1
    <2> QED BY <1>1, <2>2 DEF FreshStart, NoResumeDuringStart
  <1> QED BY <1>1, <1>2 DEF FreshStart, NoResumeDuringStart

LEMMA RaiseOneFresh ==
  ASSUME TypeInv, FreshStart, NEW id \in SigIds \ {"REBOOT"}, NEW ok \in BOOLEAN, NEW stk,
         NEW network, Raise(<<Signal(id, ok)>>, stk, network), stk # "starting"
  PROVE  FreshStart'
  <1>1. <<Signal(id, ok)>> \in Seq(Sigs)
    BY SignalType
  <1>2. \A i \in 1..Len(<<Signal(id, ok)>>) : <<Signal(id, ok)>>[i].sig # "REBOOT"
    BY DEF Signal
  <1> QED BY <1>1, <1>2, RaiseFresh

LEMMA StackFresh == ASSUME TypeInv, FreshStart, ZbossStack PROVE FreshStart'
  <1> USE DEF SigIds
  <1>1. ASSUME NEW ok \in BOOLEAN, StackStarts(ok) PROVE FreshStart'
    <2>1. CASE op \in {"FORM", "JOIN"}
      <3>1. Raise(<<Signal("FIRST_START", ok)>>, "ready", "NONE")
        BY <1>1, <2>1 DEF StackStarts, FreshStart
      <3> QED BY <3>1, RaiseOneFresh
    <2>2. CASE op \notin {"FORM", "JOIN"}
      BY <1>1, <2>2 DEF StackStarts, Raise, opv, FreshStart, NoResumeDuringStart
    <2> QED BY <2>1, <2>2
  <1>2. ASSUME NEW ok \in BOOLEAN, NetworkFormed(ok) PROVE FreshStart'
    BY <1>2, RaiseOneFresh DEF NetworkFormed
  <1>3. ASSUME NEW ok \in BOOLEAN, SteeringEnds(ok) PROVE FreshStart'
    BY <1>3, RaiseOneFresh DEF SteeringEnds
  <1>4. CASE KeyExchangeFails
    <2> DEFINE left == Signal("LEAVE", TRUE)
               failed == Signal("STEERING", FALSE)
    <2>1. left \in Sigs /\ failed \in Sigs /\ left.sig # "REBOOT" /\ failed.sig # "REBOOT"
      BY DEF Signal, Sigs
    <2>2. Raise(<<left>>, "ready", "NONE") \/ Raise(<<left, failed>>, "ready", "NONE")
      BY <1>4 DEF KeyExchangeFails
    <2> HIDE DEF left, failed
    <2>3. <<left>> \in Seq(Sigs) /\ <<left, failed>> \in Seq(Sigs)
      BY <2>1
    <2>4. /\ \A i \in 1..Len(<<left>>) : <<left>>[i].sig # "REBOOT"
          /\ \A i \in 1..Len(<<left, failed>>) : <<left, failed>>[i].sig # "REBOOT"
      BY <2>1
    <2> QED BY <2>2, <2>3, <2>4, RaiseFresh
  <1>5. CASE RemovedByPeer
    BY <1>5, RaiseOneFresh DEF RemovedByPeer
  <1>6. CASE AskedToRejoin
    BY <1>6, RaiseOneFresh DEF AskedToRejoin
  <1>7. CASE ParentLost
    <2>1. <<>> \in Seq(Sigs) /\ \A i \in 1..Len(<<>>) : <<>>[i].sig # "REBOOT"
      OBVIOUS
    <2> QED BY <1>7, <2>1, RaiseFresh DEF ParentLost
  <1>8. CASE LocalReset
    <2> DEFINE left == Signal("LEAVE", TRUE)
               failed == Signal("LEAVE", FALSE)
    <2>1. left.sig # "REBOOT" /\ failed.sig # "REBOOT"
      BY DEF Signal
    <2>2. sigs' \in {sigs, Append(sigs, left), Append(sigs, failed)}
      BY <1>8 DEF LocalReset
    <2>3. op' = op /\ (stack' = "starting" => stack = "starting") /\ nvram' \in {nvram, "NONE"}
      BY <1>8 DEF LocalReset, opv
    <2> HIDE DEF left, failed
    <2>4. sigs \in Seq(Sigs)
      BY DEF TypeInv, TypeOK
    <2> QED BY <2>1, <2>2, <2>3, <2>4 DEF FreshStart, NoResumeDuringStart
  <1> QED BY <1>1, <1>2, <1>3, <1>4, <1>5, <1>6, <1>7, <1>8 DEF ZbossStack

LEMMA AtFresh == ASSUME TypeInv, NothingBeforeStart, FreshStart, AtThread PROVE FreshStart'
  <1>1. CASE StartNetwork
    <2>1. sigs' = <<>> /\ nvram' = "NONE"
      BY <1>1 DEF StartNetwork, MustDefer, NothingBeforeStart, EraseNvram
    <2> QED BY <2>1 DEF FreshStart, NoResumeDuringStart
  <1>2. CASE SysReboot
    BY <1>2 DEF SysReboot, Reset, FreshStart, NoResumeDuringStart
  <1>3. CASE ~StartNetwork /\ ~SysReboot
    <2>1. UNCHANGED <<sigs, stack, nvram>> /\ (op' \in {"FORM", "JOIN"} => op' = op)
      BY <1>3 DEF AtThread, TakeLine, StartRefused, StartDeferred, DeferToNextBoot, RunOpDone,
                  WaitTimesOut, RunOpTimeout, LeaveCmd, LeaveTest, LeaveBegin, LeaveDone,
                  LeaveTimeout, ClearRole, ClearFlashRole, Wipe, AnswerOkAndReboot,
                  PrintResult, BeginOp, TakeDone, AbandonOp, zbv, opv, flash
    <2> QED BY <2>1, SameSigsFresh
  <1> QED BY <1>1, <1>2, <1>3

LEMMA ZbossFresh == ASSUME TypeInv, FreshStart, ZbossThread PROVE FreshStart'
  <1>1. CASE SignalHandler
    <2>1. sigs # <<>> /\ sigs' = Tail(sigs) /\ nvram' = nvram
      BY <1>1 DEF SignalHandler, OnFirstStart, OnDeviceReboot, OnFormation, OnSteering,
                  OnLeave, On, UnchangedByHandlers, flash
    <2>2. /\ op' \in {"FORM", "JOIN"} => op' = op
          /\ stack' = "starting" => stack = "starting"
      BY <1>1 DEF SignalHandler, OnFirstStart, OnDeviceReboot, OnFormation, OnSteering,
                  OnLeave, Complete, DefaultHandler, opv
    <2> QED BY <2>1, <2>2, TailFresh
  <1>2. CASE FlushRole \/ FinishOp \/ ScheduleReboot
    <2>1. UNCHANGED <<sigs, stack, nvram>> /\ (op' \in {"FORM", "JOIN"} => op' = op)
      BY <1>2 DEF FlushRole, FinishOp, ScheduleReboot, Complete, flash, opv, zbv
    <2> QED BY <2>1, SameSigsFresh
  <1> QED BY <1>1, <1>2 DEF ZbossThread

LEMMA NextFresh == TypeInv /\ NothingBeforeStart /\ FreshStart /\ [Next]_vars => FreshStart'
  <1> SUFFICES ASSUME TypeInv, NothingBeforeStart, FreshStart, [Next]_vars PROVE FreshStart'
    OBVIOUS
  <1>1. CASE RebootWork \/ PowerLoss
    BY <1>1 DEF RebootWork, PowerLoss, Reset, FreshStart, NoResumeDuringStart
  <1>2. CASE MainThread
    <2>1. sigs' = sigs /\ nvram' = nvram /\ op' = op
      BY <1>2 DEF MainThread, ZbcInit, DeletePend, InjectLine, flash, opv, zbv
    <2>2. CASE main_pc = "init"
      BY <1>2, <2>1, <2>2 DEF NothingBeforeStart, FreshStart, NoResumeDuringStart
    <2>3. CASE main_pc # "init"
      BY <1>2, <2>1, <2>3, SameSigsFresh DEF MainThread, ZbcInit, DeletePend, InjectLine, zbv
    <2> QED BY <2>2, <2>3
  <1>3. CASE UNCHANGED vars \/ (\E c \in Cmds : HostTypes(c))
    BY <1>3, SameSigsFresh DEF vars, HostTypes, flash, opv, zbv
  <1> QED BY <1>1, <1>2, <1>3, AtFresh, ZbossFresh, StackFresh DEF Next

\* While AT+EN or AT+JN is in progress ZBOSS never reports that it resumed a network.
THEOREM NoResumeDuringStartHolds == Spec => []NoResumeDuringStart
  <1>1. Init => FreshStart
    BY DEF Init, RamInit, FreshStart, NoResumeDuringStart
  <1>2. FreshStart => NoResumeDuringStart
    BY DEF FreshStart
  <1> QED BY <1>1, <1>2, BeforeStart, NextFresh, PTL DEF Spec

-----------------------------------------------------------------------------
(* The recorded role.                                                      *)

\* Before the stack is started flash is consistent and RAM has read it; after that
\* nothing speaks of another role than the one the stack was started with.
RolesBeforeStart ==
  ~stack_started =>
    /\ flash_role # "NONE" /\ nvram # "NONE" => flash_role = nvram
    /\ main_pc # "init" /\ at_pc # "clear_flash" => stored_role = flash_role
    /\ at_pc = "clear_flash" => stored_role = "NONE"

RolesAfterStart ==
  stack_started =>
    /\ stored_role \in {"NONE", net_role}
    /\ flash_role \in {"NONE", net_role}
    /\ nvram \in {"NONE", net_role}

SavedRoles ==
  \A i \in 1..Len(zb_todo) :
    zb_todo[i].do = "save" => zb_todo[i].arg \in {"NONE", net_role}

RolesAgree == RolesBeforeStart /\ RolesAfterStart /\ SavedRoles

LEMMA RolesAgreeIsEnough == NothingBeforeStart /\ RolesAgree => RoleMatchesNetwork
  BY DEF NothingBeforeStart, RolesAgree, RolesBeforeStart, RolesAfterStart, RoleMatchesNetwork

LEMMA ResetRoles == ASSUME RolesAgree, Reset PROVE RolesAgree'
  BY DEF Reset, RolesAgree, RolesBeforeStart, RolesAfterStart, SavedRoles, flash

\* A step of the stack or of a handler: it comes after the start.
LEMMA StartedRoles ==
  ASSUME RolesAgree, stack_started, stack_started' = stack_started, net_role' = net_role,
         stored_role' \in {"NONE", net_role, stored_role},
         flash_role' \in {"NONE", net_role, flash_role},
         nvram' \in {"NONE", net_role, nvram}, SavedRoles'
  PROVE  RolesAgree'
  BY DEF RolesAgree, RolesBeforeStart, RolesAfterStart

LEMMA RoleSaveRoles ==
  ASSUME NEW role \in {"NONE", net_role}, NEW rest \in Seq(Jobs), RoleSave(role, rest),
         net_role' = net_role, \A i \in 1..Len(rest) : rest[i].do # "save"
  PROVE  SavedRoles' /\ stored_role' \in {"NONE", net_role}
  <1> DEFINE first == Save(role)
  <1>1. first.do = "save" /\ first.arg = role
    BY DEF Save
  <1>2. zb_todo' = <<first>> \o rest /\ stored_role' = role
    BY DEF RoleSave
  <1> HIDE DEF first
  <1>3. ASSUME NEW i \in 1..Len(zb_todo')
        PROVE  zb_todo'[i].do = "save" => zb_todo'[i].arg \in {"NONE", net_role}
    BY <1>1, <1>2, <1>3
  <1> QED BY <1>2, <1>3 DEF SavedRoles

LEMMA NetworkUpRoles ==
  ASSUME NEW rest \in Seq(Jobs), NetworkUp(rest), net_role' = net_role,
         \A i \in 1..Len(rest) : rest[i].do # "save"
  PROVE  SavedRoles' /\ stored_role' \in {"NONE", net_role}
  BY RoleSaveRoles DEF NetworkUp, SavedRoles

\* What follows a write in a handler is no other write.
LEMMA RestRoles ==
  /\ \A i \in 1..Len(<<>>) : <<>>[i].do # "save"
  /\ \A i \in 1..Len(<<Completion("OK")>>) : <<Completion("OK")>>[i].do # "save"
  /\ \A i \in 1..Len(<<Completion("CANNOT_JOIN")>>) :
        <<Completion("CANNOT_JOIN")>>[i].do # "save"
  /\ \A i \in 1..Len(<<Restart>>) : <<Restart>>[i].do # "save"
  BY DEF Completion, Restart

LEMMA HandlerRoles ==
  ASSUME TypeInv, NothingBeforeStart, RolesAgree, SignalHandler
  PROVE  RolesAgree'
  <1>1. /\ stack_started /\ UNCHANGED <<stack_started, net_role, flash_role, nvram>>
        /\ zb_todo = <<>>
    BY DEF SignalHandler, OnFirstStart, OnDeviceReboot, OnFormation, OnSteering, OnLeave, On,
           UnchangedByHandlers, NothingBeforeStart, flash
  <1>2. \/ UNCHANGED <<stored_role, zb_todo>>
        \/ SavedRoles' /\ stored_role' \in {"NONE", net_role}
    <2>1. CASE OnFirstStart
      BY <1>1, <2>1, RestRoles, ResultsMembers, RoleSaveRoles DEF OnFirstStart
    <2>2. CASE OnDeviceReboot
      BY <1>1, <2>2, RestRoles, ResultsMembers, NetworkUpRoles DEF OnDeviceReboot
    <2>3. CASE OnFormation
      BY <1>1, <2>3, RestRoles, ResultsMembers, NetworkUpRoles DEF OnFormation
    <2>4. CASE OnSteering
      BY <1>1, <2>4, RestRoles, ResultsMembers, NetworkUpRoles DEF OnSteering
    <2>5. CASE OnLeave
      BY <1>1, <2>5, RestRoles, ResultsMembers, RoleSaveRoles DEF OnLeave, Removed
    <2> QED BY <2>1, <2>2, <2>3, <2>4, <2>5 DEF SignalHandler
  <1>3. SavedRoles' /\ stored_role' \in {"NONE", net_role, stored_role}
    BY <1>1, <1>2 DEF SavedRoles
  <1> QED BY <1>1, <1>3, StartedRoles

LEMMA JobRoles ==
  ASSUME TypeInv, NothingBeforeStart, RolesAgree, FlushRole \/ FinishOp \/ ScheduleReboot
  PROVE  RolesAgree'
  <1>1. /\ zb_todo # <<>> /\ zb_todo' = Tail(zb_todo) /\ zb_todo \in Seq(Jobs)
        /\ UNCHANGED <<stack_started, net_role, stored_role, nvram>>
    BY DEF FlushRole, FinishOp, ScheduleReboot, NextJob, zbv, flash, TypeInv, TypeOK
  <1>2. stack_started
    BY <1>1 DEF NothingBeforeStart
  <1>3. SavedRoles'
    BY <1>1 DEF RolesAgree, SavedRoles
  <1>4. flash_role' \in {"NONE", net_role, flash_role}
    <2>1. CASE FlushRole
      BY <1>1, <2>1 DEF FlushRole, NextJob, RolesAgree, SavedRoles
    <2>2. CASE FinishOp \/ ScheduleReboot
      BY <2>2 DEF FinishOp, ScheduleReboot, flash
    <2> QED BY <2>1, <2>2
  <1> QED BY <1>1, <1>2, <1>3, <1>4, StartedRoles

LEMMA StackRoles ==
  ASSUME TypeInv, NothingBeforeStart, RolesAgree, ZbossStack
  PROVE  RolesAgree'
  <1>1. stack_started
    BY DEF NothingBeforeStart, ZbossStack, StackStarts, NetworkFormed, SteeringEnds,
           KeyExchangeFails, RemovedByPeer, AskedToRejoin, ParentLost, LocalReset
  <1>2. UNCHANGED <<stack_started, net_role, stored_role, flash_role, zb_todo>>
    BY DEF ZbossStack, StackStarts, NetworkFormed, SteeringEnds, KeyExchangeFails,
           RemovedByPeer, AskedToRejoin, ParentLost, LocalReset, Raise
  <1>3. nvram' \in {"NONE", net_role, nvram}
    BY DEF ZbossStack, StackStarts, NetworkFormed, SteeringEnds, KeyExchangeFails,
           RemovedByPeer, AskedToRejoin, ParentLost, LocalReset, Raise
  <1> QED BY <1>1, <1>2, <1>3, StartedRoles DEF RolesAgree, SavedRoles

LEMMA MainRoles ==
  ASSUME TypeInv, NothingBeforeStart, RolesAgree, MainThread
  PROVE  RolesAgree'
  <1>1. UNCHANGED <<flash_role, nvram, zb_todo, at_pc>>
    BY DEF MainThread, ZbcInit, DeletePend, InjectLine, flash, atv
  <1>2. CASE ZbcInit
    <2>1. ~stack_started /\ zb_todo = <<>> /\ at_pc = "idle" /\ stored_role' = flash_role
      BY <1>2 DEF ZbcInit, NothingBeforeStart
    <2> QED BY <1>1, <1>2, <2>1 DEF ZbcInit, StartRecorded, RolesAgree, RolesBeforeStart,
                                   RolesAfterStart, SavedRoles
  <1>3. CASE DeletePend \/ InjectLine
    <2>1. main_pc # "init" /\ UNCHANGED <<stack_started, net_role, stored_role>>
      BY <1>3 DEF DeletePend, InjectLine, zbv
    <2> QED BY <1>1, <2>1 DEF RolesAgree, RolesBeforeStart, RolesAfterStart, SavedRoles
  <1> QED BY <1>2, <1>3 DEF MainThread

LEMMA AtRoles ==
  ASSUME TypeInv, NothingBeforeStart, RolesAgree, AtThread
  PROVE  RolesAgree'
  <1> USE DEF RolesAgree, RolesBeforeStart, RolesAfterStart, SavedRoles, flash, mainv, zbv
  <1>1. CASE StartNetwork
    <2>1. /\ ~stack_started /\ stack_started' /\ zb_todo = <<>> /\ main_pc # "init"
          /\ stored_role = "NONE" /\ nvram' = "NONE"
      BY <1>1 DEF StartNetwork, StartCmd, MustDefer, EraseNvram, NothingBeforeStart
    <2>2. UNCHANGED <<stored_role, flash_role, zb_todo>> /\ flash_role = "NONE"
      BY <1>1, <2>1 DEF StartNetwork, StartCmd
    <2> QED BY <2>1, <2>2
  <1>2. CASE SysReboot
    BY <1>2, ResetRoles DEF SysReboot
  <1>3. CASE TakeLine
    BY <1>3 DEF TakeLine, Goto, NothingBeforeStart
  <1>4. CASE StartRefused
    BY <1>4 DEF StartRefused, StartCmd, Answer, NothingBeforeStart
  <1>5. CASE StartDeferred
    BY <1>5 DEF StartDeferred, StartCmd, NothingBeforeStart
  <1>6. CASE DeferToNextBoot
    BY <1>6 DEF DeferToNextBoot, Goto, NothingBeforeStart
  <1>7. CASE RunOpDone
    BY <1>7 DEF RunOpDone, Answer, NothingBeforeStart
  <1>8. CASE WaitTimesOut
    BY <1>8 DEF WaitTimesOut, Goto, NothingBeforeStart
  <1>9. CASE RunOpTimeout
    BY <1>9 DEF RunOpTimeout, Answer, NothingBeforeStart
  <1>10. CASE LeaveCmd
    BY <1>10 DEF LeaveCmd, Answer, NothingBeforeStart
  <1>11. CASE LeaveTest
    BY <1>11 DEF LeaveTest, NothingBeforeStart
  <1>12. CASE LeaveBegin
    BY <1>12 DEF LeaveBegin, Goto, NothingBeforeStart
  <1>13. CASE LeaveDone
    BY <1>13 DEF LeaveDone, Goto, NothingBeforeStart
  <1>14. CASE LeaveTimeout
    BY <1>14 DEF LeaveTimeout, Goto, NothingBeforeStart
  <1>15. CASE ClearRole
    BY <1>15 DEF ClearRole, Goto, NothingBeforeStart
  <1>16. CASE ClearFlashRole
    BY <1>16 DEF ClearFlashRole, NothingBeforeStart
  <1>17. CASE Wipe
    BY <1>17 DEF Wipe, Goto, NothingBeforeStart
  <1>18. CASE AnswerOkAndReboot
    BY <1>18 DEF AnswerOkAndReboot, Goto, NothingBeforeStart
  <1>19. CASE PrintResult
    BY <1>19 DEF PrintResult, Goto, NothingBeforeStart
  <1> QED BY <1>1, <1>2, <1>3, <1>4, <1>5, <1>6, <1>7, <1>8, <1>9, <1>10, <1>11, <1>12, <1>13, <1>14, <1>15, <1>16, <1>17, <1>18, <1>19 DEF AtThread

LEMMA NextRoles ==
  TypeInv /\ NothingBeforeStart /\ RolesAgree /\ [Next]_vars => RolesAgree'
  <1> SUFFICES ASSUME TypeInv, NothingBeforeStart, RolesAgree, [Next]_vars PROVE RolesAgree'
    OBVIOUS
  <1>1. CASE RebootWork \/ PowerLoss
    BY <1>1, ResetRoles DEF RebootWork, PowerLoss
  <1>2. CASE UNCHANGED vars \/ (\E c \in Cmds : HostTypes(c))
    BY <1>2 DEF vars, HostTypes, flash, mainv, atv, zbv, RolesAgree, RolesBeforeStart,
                RolesAfterStart, SavedRoles
  <1> QED BY <1>1, <1>2, MainRoles, AtRoles, HandlerRoles, JobRoles, StackRoles
          DEF Next, ZbossThread

\* A recorded role is the role of the network in ZBOSS NVRAM, wherever the power failed.
THEOREM RoleMatchesNetworkHolds == Spec => []RoleMatchesNetwork
  <1>1. Init => RolesAgree
    BY DEF Init, RamInit, RolesAgree, RolesBeforeStart, RolesAfterStart, SavedRoles
  <1> QED BY <1>1, BeforeStart, NextRoles, RolesAgreeIsEnough, PTL DEF Spec

-----------------------------------------------------------------------------
(* The command in hand and its answer.                                     *)

\* A command is in hand until it is answered; each place of the AT thread belongs to the
\* commands that go there.
CmdInv ==
  /\ at_pc = "idle" <=> current = "none"
  /\ at_pc \notin {"answer", "reboot"} => result = "none"
  /\ at_pc \in {"defer", "run_wait", "run_timeout"} => current \in {"EN", "JN"}
  /\ at_pc \in {"leave", "leave_begin", "leave_wait", "leave_timeout", "clear", "clear_flash",
               "wipe", "leave_answer"} => current \in {"DASSL", "F"}
  /\ at_pc = "wipe" => current = "F"
  /\ at_pc = "answer" => result # "none" /\ (result = "OK" => current \in {"EN", "JN"})
  /\ at_pc = "reboot" => result \in {"none", "OK"} /\ (result = "OK" => current \notin {"EN", "JN"})
  /\ op_done = 1 => op_result # "none"

LEMMA ResetCmd == ASSUME Reset PROVE CmdInv'
  BY DEF Reset, CmdInv

LEMMA AtCmd == ASSUME TypeInv, CmdInv, AtThread PROVE CmdInv'
  <1> USE DEF CmdInv
  <1>1. CASE TakeLine
    <2>1. Head(line_q) \in AllCmds
      BY <1>1 DEF TakeLine, TypeInv, TypeOK
    <2>2. current' # "none"
      BY <1>1, <2>1 DEF TakeLine, AllCmds
    <2> QED BY <1>1, <2>2 DEF TakeLine, Goto, opv
  <1>2. CASE StartRefused \/ StartDeferred \/ DeferToNextBoot
    BY <1>2 DEF StartRefused, StartDeferred, DeferToNextBoot, StartCmd, Answer, Goto, opv
  <1>3. CASE StartNetwork
    BY <1>3 DEF StartNetwork, StartCmd, BeginOp
  <1>4. CASE RunOpDone
    BY <1>4 DEF RunOpDone, TakeDone, Answer
  <1>5. CASE WaitTimesOut
    BY <1>5 DEF WaitTimesOut, Goto, opv
  <1>6. CASE RunOpTimeout
    BY <1>6 DEF RunOpTimeout, AbandonOp, Answer
  <1>7. CASE LeaveCmd \/ LeaveTest
    BY <1>7 DEF LeaveCmd, LeaveTest, Answer, opv
  <1>8. CASE LeaveBegin \/ LeaveDone \/ LeaveTimeout
    BY <1>8 DEF LeaveBegin, LeaveDone, LeaveTimeout, BeginOp, TakeDone, AbandonOp, Goto
  <1>9. CASE ClearRole \/ ClearFlashRole \/ Wipe
    BY <1>9 DEF ClearRole, ClearFlashRole, Wipe, Goto, opv
  <1>10. CASE AnswerOkAndReboot \/ PrintResult
    BY <1>10 DEF AnswerOkAndReboot, PrintResult, Goto, opv
  <1>11. CASE SysReboot
    BY <1>11, ResetCmd DEF SysReboot
  <1> QED BY <1>1, <1>2, <1>3, <1>4, <1>5, <1>6, <1>7, <1>8, <1>9, <1>10, <1>11 DEF AtThread

\* Who completes an operation says with what.
LEMMA ZbossCmd ==
  ASSUME TypeInv, CmdInv, ZbossThread PROVE CmdInv'
  <1>1. UNCHANGED atv
    BY DEF ZbossThread, SignalHandler, OnFirstStart, OnDeviceReboot, OnFormation, OnSteering,
           OnLeave, UnchangedByHandlers, FlushRole, FinishOp, ScheduleReboot
  <1>2. op_done' = 1 => op_result' # "none"
    <2>1. CASE FinishOp
      <3>1. Head(zb_todo) \in Jobs /\ Head(zb_todo).do = "complete"
        BY <2>1 DEF FinishOp, NextJob, TypeInv, TypeOK
      <3>2. Head(zb_todo).arg \in Results
        BY <3>1, JobArg
      <3> QED BY <2>1, <3>2 DEF FinishOp, Complete, opv, CmdInv, Results
    <2>2. CASE FlushRole \/ ScheduleReboot
      BY <2>2 DEF FlushRole, ScheduleReboot, opv, CmdInv
    <2>3. CASE SignalHandler
      BY <2>3 DEF SignalHandler, OnFirstStart, OnDeviceReboot, OnFormation, OnSteering, OnLeave,
                  Complete, opv, CmdInv
    <2> QED BY <2>1, <2>2, <2>3 DEF ZbossThread
  <1> QED BY <1>1, <1>2 DEF CmdInv, atv

LEMMA NextCmd == ASSUME TypeInv, NothingBeforeStart, CmdInv, [Next]_vars PROVE CmdInv'
  <1>1. CASE RebootWork \/ PowerLoss
    BY <1>1, ResetCmd DEF RebootWork, PowerLoss
  <1>2. CASE MainThread \/ UNCHANGED vars \/ (\E c \in Cmds : HostTypes(c))
    BY <1>2 DEF MainThread, ZbcInit, DeletePend, InjectLine, HostTypes, vars, opv, atv, CmdInv
  <1>3. CASE ZbossStack
    <2>1. UNCHANGED <<atv, opv>>
      BY <1>3 DEF ZbossStack, StackStarts, NetworkFormed, SteeringEnds, KeyExchangeFails,
                  RemovedByPeer, AskedToRejoin, ParentLost, LocalReset, Raise
    <2> QED BY <2>1 DEF CmdInv, atv, opv
  <1> QED BY <1>1, <1>2, <1>3, AtCmd, ZbossCmd DEF Next

LEMMA Commands == Spec => []CmdInv
  <1>1. Init => CmdInv
    BY DEF Init, RamInit, CmdInv
  <1>2. TypeInv /\ NothingBeforeStart /\ CmdInv /\ [Next]_vars => CmdInv'
    BY NextCmd
  <1> QED BY <1>1, <1>2, BeforeStart, PTL DEF Spec

-----------------------------------------------------------------------------
(* Flash and RAM.                                                          *)

\* A handler writes flash first, once, and what stored_role says.
TodoShape == \A i \in 2..Len(zb_todo) : zb_todo[i].do # "save"
SaveNext  == zb_todo # <<>> /\ Head(zb_todo).do = "save"
Mirror ==
  main_pc # "init" /\ ~Leaving =>
    /\ SaveNext  => Head(zb_todo).arg = stored_role
    /\ ~SaveNext => flash_role = stored_role
FlashInv == TodoShape /\ Mirror

LEMMA SameFlash ==
  ASSUME FlashInv, UNCHANGED <<zb_todo, stored_role, flash_role>>,
         main_pc' # "init" /\ ~Leaving' => main_pc # "init" /\ ~Leaving
  PROVE  FlashInv'
  BY DEF FlashInv, TodoShape, SaveNext, Mirror

LEMMA ResetFlash == ASSUME Reset PROVE FlashInv'
  BY DEF Reset, FlashInv, TodoShape, Mirror

\* What a handler leaves to be done when it records a role, and when it does not.
LEMMA RoleSaveFlash ==
  ASSUME NEW role \in Roles, NEW rest \in Seq(Jobs), RoleSave(role, rest),
         \A i \in 1..Len(rest) : rest[i].do # "save"
  PROVE  TodoShape' /\ SaveNext' /\ Head(zb_todo').arg = stored_role'
  <1> DEFINE first == Save(role)
  <1>1. first.do = "save" /\ first.arg = role
    BY DEF Save
  <1>2. zb_todo' = <<first>> \o rest /\ stored_role' = role
    BY DEF RoleSave
  <1> HIDE DEF first
  <1>3. Head(zb_todo') = first /\ zb_todo' # <<>>
    BY <1>2
  <1>4. \A i \in 2..Len(zb_todo') : zb_todo'[i] = rest[i - 1] /\ i - 1 \in 1..Len(rest)
    BY <1>2
  <1> QED BY <1>1, <1>2, <1>3, <1>4 DEF TodoShape, SaveNext

LEMMA NoSaveFlash ==
  ASSUME FlashInv, zb_todo = <<>>, UNCHANGED <<stored_role, flash_role, main_pc, at_pc, current>>,
         zb_todo' \in Seq(Jobs), \A i \in 1..Len(zb_todo') : zb_todo'[i].do # "save"
  PROVE  FlashInv'
  <1>1. ~SaveNext
    BY DEF SaveNext
  <1>2. ~SaveNext'
    BY DEF SaveNext
  <1>3. TodoShape'
    BY DEF TodoShape
  <1> QED BY <1>1, <1>2, <1>3 DEF FlashInv, Mirror, Leaving

LEMMA HandlerFlash ==
  ASSUME TypeInv, FlashInv, SignalHandler
  PROVE  FlashInv'
  <1>1. zb_todo = <<>> /\ UNCHANGED <<flash_role, main_pc, at_pc, current>>
    BY DEF SignalHandler, OnFirstStart, OnDeviceReboot, OnFormation, OnSteering, OnLeave, On,
           UnchangedByHandlers, flash, mainv, atv
  <1> DEFINE saved == TodoShape' /\ SaveNext' /\ Head(zb_todo').arg = stored_role'
             quiet == /\ UNCHANGED stored_role /\ zb_todo' \in Seq(Jobs)
                      /\ \A i \in 1..Len(zb_todo') : zb_todo'[i].do # "save"
  <1>2. ASSUME NEW rest \in Seq(Jobs), NetworkUp(rest), \A i \in 1..Len(rest) : rest[i].do # "save"
        PROVE  saved \/ quiet
    BY <1>2, RoleSaveFlash DEF NetworkUp, TypeInv, TypeOK
  <1>3. ASSUME UNCHANGED <<stored_role, zb_todo>> PROVE quiet
    BY <1>1, <1>3
  <1>4. saved \/ quiet
    <2> HIDE DEF saved, quiet
    <2>0. ASSUME NEW rest \in Seq(Jobs), RoleSave("NONE", rest),
                 \A i \in 1..Len(rest) : rest[i].do # "save"
          PROVE  saved
      BY <2>0, RoleSaveFlash, ResultsMembers DEF saved
    <2>1. CASE OnFirstStart
      BY <1>3, <2>0, <2>1, RestRoles, ResultsMembers DEF OnFirstStart
    <2>2. CASE OnDeviceReboot
      BY <1>2, <1>3, <2>2, RestRoles, ResultsMembers DEF OnDeviceReboot
    <2>3. CASE OnFormation
      BY <1>2, <1>3, <2>3, RestRoles, ResultsMembers DEF OnFormation
    <2>4. CASE OnSteering
      BY <1>2, <1>3, <2>4, RestRoles, ResultsMembers DEF OnSteering
    <2>5. CASE OnLeave
      BY <1>3, <2>0, <2>5, RestRoles, ResultsMembers DEF OnLeave, Removed
    <2> QED BY <2>1, <2>2, <2>3, <2>4, <2>5 DEF SignalHandler
  <1>5. CASE saved
    BY <1>5 DEF FlashInv, Mirror
  <1>6. CASE quiet
    BY <1>1, <1>6, NoSaveFlash
  <1> QED BY <1>4, <1>5, <1>6

LEMMA JobFlash ==
  ASSUME TypeInv, FlashInv, FlushRole \/ FinishOp \/ ScheduleReboot
  PROVE  FlashInv'
  <1>1. /\ zb_todo # <<>> /\ zb_todo' = Tail(zb_todo) /\ zb_todo \in Seq(Jobs)
        /\ UNCHANGED <<stored_role, main_pc, at_pc, current>>
    BY DEF FlushRole, FinishOp, ScheduleReboot, NextJob, mainv, atv, TypeInv, TypeOK
  <1>2. \A i \in 1..Len(zb_todo') : zb_todo'[i] = zb_todo[i + 1] /\ i + 1 \in 2..Len(zb_todo)
    BY <1>1
  <1>3. \A i \in 1..Len(zb_todo') : zb_todo'[i].do # "save"
    BY <1>2 DEF FlashInv, TodoShape
  <1>4. TodoShape' /\ ~SaveNext'
    <2>1. zb_todo' \in Seq(Jobs)
      BY <1>1
    <2> QED BY <1>3, <2>1 DEF TodoShape, SaveNext
  <1>5. CASE FlushRole
    BY <1>1, <1>4, <1>5 DEF FlushRole, NextJob, FlashInv, Mirror, SaveNext, Leaving
  <1>6. CASE FinishOp \/ ScheduleReboot
    <2>1. Head(zb_todo).do # "save" /\ UNCHANGED flash_role
      BY <1>6 DEF FinishOp, ScheduleReboot, NextJob, flash
    <2> QED BY <1>1, <1>4, <2>1 DEF FlashInv, Mirror, SaveNext, Leaving
  <1> QED BY <1>5, <1>6

LEMMA AtFlash == ASSUME CmdInv, FlashInv, AtThread PROVE FlashInv'
  <1>1. CASE SysReboot
    BY <1>1, ResetFlash DEF SysReboot
  <1>2. CASE ClearRole \/ ClearFlashRole
    BY <1>2 DEF ClearRole, ClearFlashRole, Goto, zbv, CmdInv, FlashInv, TodoShape, Mirror, Leaving
  <1>3. CASE TakeLine \/ StartRefused \/ StartDeferred \/ DeferToNextBoot \/ StartNetwork
    BY <1>3, SameFlash DEF TakeLine, StartRefused, StartDeferred, DeferToNextBoot, StartNetwork,
                   StartCmd, Answer, Goto, flash, mainv, Leaving
  <1>4. CASE RunOpDone \/ WaitTimesOut \/ RunOpTimeout \/ LeaveCmd \/ LeaveTest
    BY <1>4, SameFlash DEF RunOpDone, WaitTimesOut, RunOpTimeout, LeaveCmd, LeaveTest,
                   Answer, Goto, flash, mainv, Leaving
  <1>5. CASE LeaveBegin \/ LeaveDone \/ LeaveTimeout \/ Wipe \/ AnswerOkAndReboot \/ PrintResult
    BY <1>5, SameFlash DEF LeaveBegin, LeaveDone, LeaveTimeout, Wipe, AnswerOkAndReboot,
                   PrintResult, Goto, flash, mainv, Leaving
  <1> QED BY <1>1, <1>2, <1>3, <1>4, <1>5 DEF AtThread

LEMMA OtherFlash ==
  ASSUME NothingBeforeStart, FlashInv,
         MainThread \/ ZbossStack \/ (\E c \in Cmds : HostTypes(c)) \/ UNCHANGED vars
  PROVE  FlashInv'
  <1>1. CASE ZbcInit
    BY <1>1 DEF ZbcInit, NothingBeforeStart, flash, FlashInv, TodoShape, SaveNext, Mirror
  <1>2. CASE DeletePend \/ InjectLine
    BY <1>2, SameFlash DEF DeletePend, InjectLine, flash, atv, Leaving
  <1>3. CASE ZbossStack
    <2>1. UNCHANGED <<zb_todo, stored_role, flash_role, main_pc, at_pc, current>>
      BY <1>3 DEF ZbossStack, StackStarts, NetworkFormed, SteeringEnds, KeyExchangeFails,
                  RemovedByPeer, AskedToRejoin, ParentLost, LocalReset, Raise, mainv, atv
    <2> QED BY <2>1, SameFlash DEF Leaving
  <1>4. CASE (\E c \in Cmds : HostTypes(c)) \/ UNCHANGED vars
    BY <1>4, SameFlash DEF HostTypes, vars, flash, mainv, atv, Leaving
  <1> QED BY <1>1, <1>2, <1>3, <1>4 DEF MainThread

LEMMA NextFlash == TypeInv /\ NothingBeforeStart /\ CmdInv /\ FlashInv /\ [Next]_vars => FlashInv'
  <1> SUFFICES ASSUME TypeInv, NothingBeforeStart, CmdInv, FlashInv, [Next]_vars PROVE FlashInv'
    OBVIOUS
  <1>1. CASE RebootWork \/ PowerLoss
    BY <1>1, ResetFlash DEF RebootWork, PowerLoss
  <1> QED BY <1>1, AtFlash, HandlerFlash, JobFlash, OtherFlash DEF Next, ZbossThread

\* A reset outside a write and a leave in progress does not change the node's mind about
\* being in a network.
THEOREM FlashMirrorsRamHolds == Spec => []FlashMirrorsRam
  <1>1. Init => FlashInv
    BY DEF Init, RamInit, FlashInv, TodoShape, Mirror
  <1>2. TypeInv /\ FlashInv => FlashMirrorsRam
    <2> SUFFICES ASSUME TypeInv, FlashInv, main_pc # "init", ~SavePending, ~Leaving
                 PROVE  flash_role = stored_role
      BY DEF FlashMirrorsRam
    <2>1. ~SaveNext
      BY DEF SaveNext, SavePending, TypeInv, TypeOK
    <2> QED BY <2>1 DEF FlashInv, Mirror
  <1> QED BY <1>1, <1>2, BeforeStart, Commands, NextFlash, PTL DEF Spec

-----------------------------------------------------------------------------
(* The answer OK.                                                          *)

\* FIRST_START is the first signal of a start, and nobody leaves before it.
FirstStartFirst ==
  /\ stack = "starting" => sigs = <<>> /\ ~reset_cb /\ at_pc # "leave_begin"
  /\ \A i \in 2..Len(sigs) : sigs[i].sig # "FIRST_START"

\* Only the thread that waits for an operation lets it stand.
OpHasWaiter ==
  /\ op \in {"FORM", "JOIN"} => at_pc \in {"run_wait", "run_timeout"}
  /\ op \in {"LEAVE", "FACTORY"} => at_pc \in {"leave_wait", "leave_timeout"}

StartedHasRole == stack_started => net_role # "NONE"

OkInTodo == \E i \in 1..Len(zb_todo) : zb_todo[i] = Completion("OK")
OkComing ==
  \/ at_pc = "run_wait" /\ op_done = 1 /\ op_result = "OK"
  \/ at_pc = "run_wait" /\ OkInTodo
  \/ at_pc = "answer" /\ result = "OK"

RestartInTodo == \E i \in 1..Len(zb_todo) : zb_todo[i] = Restart
Recorded == stored_role # "NONE" \/ reboot_work \/ RestartInTodo

StartOver == stack # "starting" /\ \A i \in 1..Len(sigs) : sigs[i].sig # "FIRST_START"

\* The ZBOSS thread and the stack leave the AT thread and the start alone.
LEMMA ZbossLeavesAt ==
  ASSUME ZbossThread \/ ZbossStack
  PROVE  UNCHANGED <<at_pc, result, stack_started, net_role>>
  BY DEF ZbossThread, SignalHandler, OnFirstStart, OnDeviceReboot, OnFormation, OnSteering,
         OnLeave, UnchangedByHandlers, FlushRole, FinishOp, ScheduleReboot, ZbossStack,
         StackStarts, NetworkFormed, SteeringEnds, KeyExchangeFails, RemovedByPeer,
         AskedToRejoin, ParentLost, LocalReset, Raise, atv, zbv

LEMMA AtWaiter == ASSUME Handshake, OpHasWaiter, AtThread PROVE OpHasWaiter'
  <1> USE DEF OpHasWaiter
  <1>1. CASE TakeLine \/ StartRefused \/ StartDeferred \/ DeferToNextBoot
    BY <1>1 DEF TakeLine, StartRefused, StartDeferred, DeferToNextBoot, StartCmd, Answer, Goto, opv
  <1>2. CASE StartNetwork \/ LeaveBegin
    BY <1>2 DEF StartNetwork, LeaveBegin, BeginOp, Goto
  <1>3. CASE RunOpDone \/ LeaveDone
    BY <1>3 DEF RunOpDone, LeaveDone, TakeDone, Answer, Goto, Handshake, CleanStart
  <1>4. CASE RunOpTimeout \/ LeaveTimeout
    BY <1>4 DEF RunOpTimeout, LeaveTimeout, AbandonOp
  <1>5. CASE WaitTimesOut \/ LeaveCmd \/ LeaveTest \/ ClearRole
    BY <1>5 DEF WaitTimesOut, LeaveCmd, LeaveTest, ClearRole, Answer, Goto, opv
  <1>6. CASE ClearFlashRole \/ Wipe \/ AnswerOkAndReboot \/ PrintResult
    BY <1>6 DEF ClearFlashRole, Wipe, AnswerOkAndReboot, PrintResult, Goto, opv
  <1>7. CASE SysReboot
    BY <1>7 DEF SysReboot, Reset
  <1> QED BY <1>1, <1>2, <1>3, <1>4, <1>5, <1>6, <1>7 DEF AtThread

LEMMA NextWaiter == ASSUME Handshake, OpHasWaiter, [Next]_vars PROVE OpHasWaiter'
  <1> USE DEF OpHasWaiter
  <1>1. CASE RebootWork \/ PowerLoss
    BY <1>1 DEF RebootWork, PowerLoss, Reset
  <1>2. CASE MainThread \/ UNCHANGED vars \/ (\E c \in Cmds : HostTypes(c))
    BY <1>2 DEF MainThread, ZbcInit, DeletePend, InjectLine, HostTypes, vars, opv, atv
  <1>3. CASE ZbossThread \/ ZbossStack
    <2>1. op' \in {op, "NONE"}
      BY <1>3 DEF ZbossThread, SignalHandler, OnFirstStart, OnDeviceReboot, OnFormation,
                  OnSteering, OnLeave, FlushRole, FinishOp, ScheduleReboot, ZbossStack,
                  StackStarts, NetworkFormed, SteeringEnds, KeyExchangeFails, RemovedByPeer,
                  AskedToRejoin, ParentLost, LocalReset, Raise, Complete, opv
    <2> QED BY <1>3, <2>1, ZbossLeavesAt
  <1> QED BY <1>1, <1>2, <1>3, AtWaiter DEF Next

LEMMA NextStartedRole ==
  ASSUME NothingBeforeStart, StartedHasRole, [Next]_vars PROVE StartedHasRole'
  <1> USE DEF StartedHasRole
  <1>1. CASE RebootWork \/ PowerLoss \/ SysReboot
    BY <1>1 DEF RebootWork, PowerLoss, SysReboot, Reset
  <1>2. CASE MainThread \/ UNCHANGED vars \/ (\E c \in Cmds : HostTypes(c))
    BY <1>2 DEF MainThread, ZbcInit, StartRecorded, DeletePend, InjectLine, HostTypes, vars, zbv,
                NothingBeforeStart
  <1>3. CASE ZbossThread \/ ZbossStack
    BY <1>3, ZbossLeavesAt
  <1>4. CASE StartNetwork
    BY <1>4, JoinRolesAssumption DEF StartNetwork
  <1>5. CASE AtThread /\ ~StartNetwork /\ ~SysReboot
    BY <1>5 DEF AtThread, TakeLine, StartRefused, StartDeferred, DeferToNextBoot, RunOpDone,
                WaitTimesOut, RunOpTimeout, LeaveCmd, LeaveTest, LeaveBegin, LeaveDone,
                LeaveTimeout, ClearRole, ClearFlashRole, Wipe, AnswerOkAndReboot,
                PrintResult, zbv
  <1> QED BY <1>1, <1>2, <1>3, <1>4, <1>5 DEF Next

\* Signals that are raised once the stack has started do not say that it starts.
LEMMA RaiseFirst ==
  ASSUME TypeInv, FirstStartFirst, NEW signals \in Seq(Sigs), NEW stk, NEW network,
         Raise(signals, stk, network), stk # "starting",
         \A i \in 1..Len(signals) : signals[i].sig # "FIRST_START"
  PROVE  /\ FirstStartFirst' /\ stack' # "starting"
         /\ StartOver => StartOver'
  <1>1. sigs \in Seq(Sigs) /\ sigs' = sigs \o signals /\ stack' = stk
    BY DEF Raise, TypeInv, TypeOK
  <1>2. \A i \in 1..Len(sigs \o signals) :
           \/ i \in 1..Len(sigs) /\ (sigs \o signals)[i] = sigs[i]
           \/ i - Len(sigs) \in 1..Len(signals) /\ (sigs \o signals)[i] = signals[i - Len(sigs)]
    BY <1>1
  <1>3. \A i \in 2..Len(sigs') : sigs'[i].sig # "FIRST_START"
    BY <1>1, <1>2 DEF FirstStartFirst
  <1>4. StartOver => \A i \in 1..Len(sigs') : sigs'[i].sig # "FIRST_START"
    BY <1>1, <1>2 DEF StartOver
  <1> QED BY <1>1, <1>3, <1>4 DEF FirstStartFirst, StartOver

LEMMA RaiseOneFirst ==
  ASSUME TypeInv, FirstStartFirst, NEW id \in SigIds \ {"FIRST_START"}, NEW ok \in BOOLEAN,
         NEW stk, NEW network, Raise(<<Signal(id, ok)>>, stk, network), stk # "starting"
  PROVE  FirstStartFirst' /\ (StartOver => StartOver')
  <1>1. <<Signal(id, ok)>> \in Seq(Sigs)
    BY SignalType
  <1>2. \A i \in 1..Len(<<Signal(id, ok)>>) : <<Signal(id, ok)>>[i].sig # "FIRST_START"
    BY DEF Signal
  <1> QED BY <1>1, <1>2, RaiseFirst

LEMMA StackFirst ==
  ASSUME TypeInv, FirstStartFirst, ZbossStack
  PROVE  FirstStartFirst' /\ (StartOver => StartOver')
  <1> USE DEF SigIds
  <1>1. ASSUME NEW ok \in BOOLEAN, StackStarts(ok) PROVE FirstStartFirst' /\ (StartOver => StartOver')
    <2>1. sigs = <<>> /\ stack = "starting" /\ ~StartOver
      BY <1>1 DEF StackStarts, FirstStartFirst, StartOver
    <2>2. CASE Raise(<<Signal("FIRST_START", ok)>>, "ready", "NONE")
      <3>1. stack' = "ready" /\ sigs' = sigs \o <<Signal("FIRST_START", ok)>>
        BY <2>2 DEF Raise
      <3>2. Len(sigs') = 1
        BY <2>1, <3>1
      <3> QED BY <2>1, <3>1, <3>2 DEF FirstStartFirst
    <2>3. CASE Raise(<<Signal("REBOOT", ok)>>, IF ok THEN "up" ELSE "ready", nvram)
      BY <2>3, RaiseOneFirst
    <2> QED BY <1>1, <2>2, <2>3 DEF StackStarts
  <1>2. ASSUME NEW ok \in BOOLEAN, NetworkFormed(ok) PROVE FirstStartFirst' /\ (StartOver => StartOver')
    BY <1>2, RaiseOneFirst DEF NetworkFormed
  <1>3. ASSUME NEW ok \in BOOLEAN, SteeringEnds(ok) PROVE FirstStartFirst' /\ (StartOver => StartOver')
    BY <1>3, RaiseOneFirst DEF SteeringEnds
  <1>4. CASE KeyExchangeFails
    <2> DEFINE left == Signal("LEAVE", TRUE)
               failed == Signal("STEERING", FALSE)
    <2>1. left \in Sigs /\ failed \in Sigs /\ left.sig # "FIRST_START" /\ failed.sig # "FIRST_START"
      BY DEF Signal, Sigs
    <2>2. Raise(<<left>>, "ready", "NONE") \/ Raise(<<left, failed>>, "ready", "NONE")
      BY <1>4 DEF KeyExchangeFails
    <2> HIDE DEF left, failed
    <2>3. <<left>> \in Seq(Sigs) /\ <<left, failed>> \in Seq(Sigs)
      BY <2>1
    <2>4. /\ \A i \in 1..Len(<<left>>) : <<left>>[i].sig # "FIRST_START"
          /\ \A i \in 1..Len(<<left, failed>>) : <<left, failed>>[i].sig # "FIRST_START"
      BY <2>1
    <2> QED BY <2>2, <2>3, <2>4, RaiseFirst
  <1>5. CASE RemovedByPeer
    BY <1>5, RaiseOneFirst DEF RemovedByPeer
  <1>6. CASE AskedToRejoin
    BY <1>6, RaiseOneFirst DEF AskedToRejoin
  <1>7. CASE ParentLost
    <2>1. <<>> \in Seq(Sigs) /\ \A i \in 1..Len(<<>>) : <<>>[i].sig # "FIRST_START"
      OBVIOUS
    <2> QED BY <1>7, <2>1, RaiseFirst DEF ParentLost
  <1>8. CASE LocalReset
    <2> DEFINE left == Signal("LEAVE", TRUE)
               failed == Signal("LEAVE", FALSE)
    <2>1. left.sig # "FIRST_START" /\ failed.sig # "FIRST_START"
      BY DEF Signal
    <2>2. sigs' \in {sigs, Append(sigs, left), Append(sigs, failed)}
      BY <1>8 DEF LocalReset
    <2>3. stack # "starting" /\ stack' # "starting"
      BY <1>8 DEF LocalReset, FirstStartFirst
    <2> HIDE DEF left, failed
    <2>4. sigs \in Seq(Sigs)
      BY DEF TypeInv, TypeOK
    <2>5. \A i \in 2..Len(sigs') : sigs'[i].sig # "FIRST_START"
      BY <2>1, <2>2, <2>4 DEF FirstStartFirst
    <2>6. StartOver => \A i \in 1..Len(sigs') : sigs'[i].sig # "FIRST_START"
      BY <2>1, <2>2, <2>4 DEF StartOver
    <2> QED BY <2>3, <2>5, <2>6 DEF FirstStartFirst, StartOver
  <1> QED BY <1>1, <1>2, <1>3, <1>4, <1>5, <1>6, <1>7, <1>8 DEF ZbossStack

\* Once a handler has taken a signal, no FIRST_START is left.
LEMMA HandlerFirst ==
  ASSUME TypeInv, FirstStartFirst, SignalHandler
  PROVE  FirstStartFirst' /\ StartOver'
  <1>1. sigs # <<>> /\ sigs' = Tail(sigs) /\ UNCHANGED <<reset_cb, at_pc>>
    BY DEF SignalHandler, OnFirstStart, OnDeviceReboot, OnFormation, OnSteering, OnLeave, On,
           UnchangedByHandlers, atv
  <1>2. stack' # "starting"
    BY <1>1 DEF SignalHandler, OnFirstStart, OnDeviceReboot, OnFormation, OnSteering, OnLeave,
                DefaultHandler, FirstStartFirst
  <1>3. \A i \in 1..Len(sigs') : sigs'[i] = sigs[i + 1] /\ i + 1 \in 2..Len(sigs)
    BY <1>1 DEF TypeInv, TypeOK
  <1>4. \A i \in 1..Len(sigs') : sigs'[i].sig # "FIRST_START"
    BY <1>3 DEF FirstStartFirst
  <1> QED BY <1>2, <1>4 DEF FirstStartFirst, StartOver

LEMMA AtFirst ==
  ASSUME TypeInv, NothingBeforeStart, FirstStartFirst, AtThread
  PROVE  FirstStartFirst'
  <1> USE DEF FirstStartFirst
  <1>1. CASE StartNetwork
    BY <1>1 DEF StartNetwork, MustDefer, NothingBeforeStart
  <1>2. CASE SysReboot
    BY <1>2 DEF SysReboot, Reset
  <1>3. CASE LeaveTest \/ LeaveBegin
    BY <1>3 DEF LeaveTest, LeaveBegin, Joined, Goto, zbv
  <1>4. CASE AtThread /\ ~StartNetwork /\ ~SysReboot /\ ~LeaveTest /\ ~LeaveBegin
    <2>1. UNCHANGED <<sigs, stack, reset_cb>> /\ at_pc' # "leave_begin"
      BY <1>4 DEF AtThread, TakeLine, StartRefused, StartDeferred, DeferToNextBoot, RunOpDone,
                  WaitTimesOut, RunOpTimeout, LeaveCmd, LeaveDone, LeaveTimeout, ClearRole,
                  ClearFlashRole, Wipe, AnswerOkAndReboot, PrintResult, Goto, Answer, zbv
    <2> QED BY <2>1
  <1> QED BY <1>1, <1>2, <1>3, <1>4

LEMMA NextFirst ==
  ASSUME TypeInv, NothingBeforeStart, FirstStartFirst, [Next]_vars PROVE FirstStartFirst'
  <1>1. CASE RebootWork \/ PowerLoss
    BY <1>1 DEF RebootWork, PowerLoss, Reset, FirstStartFirst
  <1>2. CASE MainThread \/ UNCHANGED vars \/ (\E c \in Cmds : HostTypes(c))
    BY <1>2 DEF MainThread, ZbcInit, StartRecorded, DeletePend, InjectLine, HostTypes, vars, zbv,
                atv, NothingBeforeStart, FirstStartFirst
  <1>3. CASE FlushRole \/ FinishOp \/ ScheduleReboot
    BY <1>3 DEF FlushRole, FinishOp, ScheduleReboot, zbv, atv, FirstStartFirst
  <1> QED BY <1>1, <1>2, <1>3, AtFirst, HandlerFirst, StackFirst DEF Next, ZbossThread

Answered == OkComing => Recorded /\ StartOver

\* Steps that touch nothing the answer depends on.
LEMMA SameAnswered ==
  ASSUME Answered,
         UNCHANGED <<at_pc, opv, result, zb_todo, stored_role, reboot_work>>,
         StartOver => StartOver'
  PROVE  Answered'
  BY DEF Answered, OkComing, OkInTodo, Recorded, RestartInTodo, opv

\* What the handlers leave to be done: only a network that is up brings an OK.
LEMMA NetworkUpRecords ==
  ASSUME net_role # "NONE", NEW rest, NetworkUp(rest)
  PROVE  stored_role' # "NONE"
  BY DEF NetworkUp, RoleSave

LEMMA NothingTodo == zb_todo' = <<>> => ~OkInTodo'
  BY DEF OkInTodo

LEMMA TwoJobs ==
  ASSUME NEW a, NEW b
  PROVE  LET ab == <<a>> \o <<b>> IN Len(ab) = 2 /\ ab[1] = a /\ ab[2] = b
  OBVIOUS

LEMMA QuietSave ==
  ASSUME NEW role, NEW rest \in {<<>>, <<Completion("CANNOT_JOIN")>>, <<Restart>>},
         RoleSave(role, rest)
  PROVE  ~OkInTodo' /\ (rest = <<Restart>> => RestartInTodo')
  <1> DEFINE save == Save(role)
             refused == Completion("CANNOT_JOIN")
             restart == Restart
             ok == Completion("OK")
  <1>1. save # ok /\ refused # ok /\ restart # ok
    BY DEF Save, Completion, Restart
  <1>2. zb_todo' = <<save>> \o rest
    BY DEF RoleSave
  <1>3. rest \in {<<>>, <<refused>>, <<restart>>} /\ (rest = <<Restart>> => rest = <<restart>>)
    OBVIOUS
  <1>4. /\ (OkInTodo' <=> \E i \in 1..Len(zb_todo') : zb_todo'[i] = ok)
        /\ (RestartInTodo' <=> \E i \in 1..Len(zb_todo') : zb_todo'[i] = restart)
    BY DEF OkInTodo, RestartInTodo
  <1> HIDE DEF save, refused, restart, ok
  <1>5. CASE rest = <<>>
    <2>1. zb_todo' = <<save>>
      BY <1>2, <1>5
    <2>2. rest # <<restart>>
      BY <1>5
    <2> QED BY <1>1, <1>3, <1>4, <2>1, <2>2
  <1>6. CASE rest = <<refused>>
    <2>1. Len(zb_todo') = 2 /\ zb_todo'[1] = save /\ zb_todo'[2] = refused
      BY <1>2, <1>6, TwoJobs
    <2>2. rest = <<restart>> => refused = restart
      BY <1>6
    <2> QED BY <1>1, <1>3, <1>4, <2>1, <2>2
  <1>7. CASE rest = <<restart>>
    <2>1. Len(zb_todo') = 2 /\ zb_todo'[1] = save /\ zb_todo'[2] = restart
      BY <1>2, <1>7, TwoJobs
    <2> QED BY <1>1, <1>4, <2>1
  <1> QED BY <1>3, <1>5, <1>6, <1>7

LEMMA HandlerOkInTodo ==
  ASSUME net_role # "NONE", SignalHandler, OkInTodo'
  PROVE  stored_role' # "NONE"
  <1>1. zb_todo = <<>>
    BY DEF SignalHandler, OnFirstStart, OnDeviceReboot, OnFormation, OnSteering, OnLeave, On
  <1>2. zb_todo' # <<>> /\ zb_todo' # zb_todo
    BY <1>1, NothingTodo
  <1>3. CASE OnFirstStart
    BY <1>2, <1>3, QuietSave DEF OnFirstStart
  <1>4. CASE OnDeviceReboot \/ OnFormation \/ OnSteering
    BY <1>2, <1>4, NetworkUpRecords DEF OnDeviceReboot, OnFormation, OnSteering
  <1>5. CASE OnLeave
    BY <1>2, <1>5, QuietSave DEF OnLeave, Removed
  <1> QED BY <1>3, <1>4, <1>5 DEF SignalHandler

\* A record is lost only to a signal that belongs to an operation, or restarts the node.
LEMMA HandlerKeepsRecord ==
  ASSUME TypeInv, net_role # "NONE", SignalHandler, op = "NONE", Recorded, StartOver
  PROVE  Recorded'
  <1>1. /\ zb_todo = <<>> /\ sigs # <<>> /\ reboot_work' = reboot_work
        /\ Head(sigs).sig # "FIRST_START"
    BY DEF SignalHandler, OnFirstStart, OnDeviceReboot, OnFormation, OnSteering, OnLeave, On,
           UnchangedByHandlers, StartOver, TypeInv, TypeOK
  <1>2. stored_role # "NONE" \/ reboot_work
    BY <1>1 DEF Recorded, RestartInTodo
  <1>3. stored_role' = stored_role \/ stored_role' # "NONE" \/ RestartInTodo'
    <2>1. ~OnFirstStart
      BY <1>1 DEF OnFirstStart, On
    <2>2. CASE OnDeviceReboot \/ OnFormation \/ OnSteering
      BY <2>2, NetworkUpRecords DEF OnDeviceReboot, OnFormation, OnSteering
    <2>3. CASE OnLeave
      BY <2>3, QuietSave DEF OnLeave, Removed
    <2> QED BY <2>1, <2>2, <2>3 DEF SignalHandler
  <1> QED BY <1>1, <1>2, <1>3 DEF Recorded

LEMMA HandlerAnswered ==
  ASSUME TypeInv, NothingBeforeStart, Handshake, FirstStartFirst, OpHasWaiter, StartedHasRole,
         Answered, SignalHandler
  PROVE  Answered'
  <1>1. /\ zb_todo = <<>> /\ sigs # <<>>
        /\ UNCHANGED <<at_pc, result>>
    BY DEF SignalHandler, OnFirstStart, OnDeviceReboot, OnFormation, OnSteering, OnLeave, On,
           UnchangedByHandlers, atv
  <1>2. net_role # "NONE"
    BY <1>1 DEF NothingBeforeStart, StartedHasRole
  <1>3. StartOver'
    BY HandlerFirst
  <1>4. at_pc = "run_wait" /\ op_done' = 1 /\ op_result' = "OK" => op_done = 1 /\ op_result = "OK"
    BY DEF SignalHandler, OnFirstStart, OnDeviceReboot, OnFormation, OnSteering, OnLeave,
           Complete, opv, OpHasWaiter
  <1>5. CASE OkInTodo'
    BY <1>2, <1>3, <1>5, HandlerOkInTodo DEF Answered, Recorded
  <1>6. CASE ~OkInTodo' /\ OkComing'
    <2>1. OkComing /\ (at_pc = "answer" \/ op_done = 1)
      BY <1>1, <1>4, <1>6 DEF OkComing
    <2>2. op = "NONE"
      BY <2>1 DEF OkComing, OpHasWaiter, Handshake, CleanStart, TypeInv, TypeOK, Ops
    <2> QED BY <1>2, <1>3, <2>1, <2>2, HandlerKeepsRecord DEF Answered
  <1> QED BY <1>5, <1>6 DEF Answered

LEMMA JobAnswered ==
  ASSUME TypeInv, Answered, FlushRole \/ FinishOp \/ ScheduleReboot
  PROVE  Answered'
  <1>1. /\ zb_todo # <<>> /\ zb_todo' = Tail(zb_todo) /\ zb_todo \in Seq(Jobs)
        /\ UNCHANGED <<at_pc, result, stored_role, stack, sigs>>
    BY DEF FlushRole, FinishOp, ScheduleReboot, NextJob, zbv, atv, TypeInv, TypeOK
  <1>2. /\ Len(zb_todo) > 0 /\ Len(zb_todo') = Len(zb_todo) - 1
        /\ \A i \in 1..Len(zb_todo') : zb_todo'[i] = zb_todo[i + 1] /\ i + 1 \in 1..Len(zb_todo)
        /\ \A i \in 2..Len(zb_todo) : zb_todo[i] = zb_todo'[i - 1] /\ i - 1 \in 1..Len(zb_todo')
        /\ Head(zb_todo) = zb_todo[1]
    BY <1>1
  <1>3. OkInTodo' => OkInTodo
    BY <1>2 DEF OkInTodo
  <1>4. RestartInTodo => RestartInTodo' \/ Head(zb_todo) = Restart
    BY <1>2 DEF RestartInTodo
  <1>5. (Head(zb_todo) = Restart <=> Head(zb_todo).do = "reboot")
    <2>1. Head(zb_todo) \in Jobs
      BY <1>1
    <2> QED BY <2>1 DEF Jobs, Save, Completion, Restart
  <1>6. StartOver' <=> StartOver
    BY <1>1 DEF StartOver
  <1>7. Recorded => Recorded'
    BY <1>1, <1>4, <1>5 DEF Recorded, FlushRole, FinishOp, ScheduleReboot, NextJob
  <1>8. at_pc = "run_wait" /\ op_done' = 1 /\ op_result' = "OK" => OkComing
    <2>1. CASE FinishOp
      <3>1. Head(zb_todo) \in Jobs /\ Head(zb_todo).do = "complete"
        BY <1>1, <2>1 DEF FinishOp, NextJob
      <3>2. Head(zb_todo).arg = "OK" => Head(zb_todo) = Completion("OK")
        BY <3>1 DEF Jobs, Save, Completion, Restart
      <3>3. Head(zb_todo).arg = "OK" => OkInTodo
        BY <1>2, <3>2 DEF OkInTodo
      <3> QED BY <2>1, <3>3 DEF FinishOp, Complete, opv, OkComing
    <2>2. CASE FlushRole \/ ScheduleReboot
      BY <2>2 DEF FlushRole, ScheduleReboot, opv, OkComing
    <2> QED BY <2>1, <2>2
  <1>9. OkComing' => OkComing
    BY <1>1, <1>3, <1>8 DEF OkComing
  <1> QED BY <1>6, <1>7, <1>9 DEF Answered

LEMMA AtAnswered ==
  ASSUME NothingBeforeStart, Answered, AtThread PROVE Answered'
  <1>1. CASE RunOpDone
    <2>1. UNCHANGED <<stored_role, reboot_work, zb_todo, sigs, stack>> /\ (OkComing' => OkComing)
      BY <1>1 DEF RunOpDone, TakeDone, Answer, OkComing, zbv
    <2> QED BY <2>1 DEF Answered, Recorded, RestartInTodo, StartOver
  <1>2. CASE StartNetwork
    BY <1>2 DEF StartNetwork, MustDefer, BeginOp, NothingBeforeStart, Answered, OkComing, OkInTodo
  <1>3. CASE AtThread /\ ~RunOpDone /\ ~StartNetwork
    <2>1. ~OkComing'
      BY <1>3 DEF AtThread, TakeLine, StartRefused, StartDeferred, DeferToNextBoot,
                  WaitTimesOut, RunOpTimeout, LeaveCmd, LeaveTest, LeaveBegin, LeaveDone,
                  LeaveTimeout, ClearRole, ClearFlashRole, Wipe, AnswerOkAndReboot,
                  PrintResult, SysReboot, Reset, Goto, Answer, OkComing
    <2> QED BY <2>1 DEF Answered
  <1> QED BY <1>1, <1>2, <1>3

LEMMA NextAnswered ==
  ASSUME TypeInv, NothingBeforeStart, Handshake, FirstStartFirst, OpHasWaiter, StartedHasRole,
         Answered, [Next]_vars
  PROVE  Answered'
  <1>1. CASE RebootWork \/ PowerLoss
    BY <1>1 DEF RebootWork, PowerLoss, Reset, Answered, OkComing
  <1>2. CASE ZbcInit
    BY <1>2 DEF ZbcInit, NothingBeforeStart, atv, Answered, OkComing
  <1>3. CASE DeletePend \/ InjectLine \/ UNCHANGED vars \/ (\E c \in Cmds : HostTypes(c))
    <2>1. UNCHANGED <<at_pc, opv, result, zb_todo, stored_role, reboot_work, stack, sigs>>
      BY <1>3 DEF DeletePend, InjectLine, HostTypes, vars, atv, zbv
    <2> QED BY <2>1, SameAnswered DEF StartOver
  <1>4. CASE ZbossStack
    <2>1. UNCHANGED <<at_pc, opv, result, zb_todo, stored_role, reboot_work>>
      BY <1>4 DEF ZbossStack, StackStarts, NetworkFormed, SteeringEnds, KeyExchangeFails,
                  RemovedByPeer, AskedToRejoin, ParentLost, LocalReset, Raise, atv
    <2> QED BY <1>4, <2>1, SameAnswered, StackFirst
  <1> QED BY <1>1, <1>2, <1>3, <1>4, AtAnswered, HandlerAnswered, JobAnswered
          DEF Next, ZbossThread, MainThread

\* OK to AT+EN or AT+JN means that the network is recorded, or that the node has been
\* removed from it since and restarts.
THEOREM OkMeansRecordedHolds == Spec => []OkMeansRecorded
  <1> DEFINE I == /\ Handshake /\ FirstStartFirst /\ OpHasWaiter /\ StartedHasRole
                  /\ Answered
  <1>1. Init => I
    BY DEF Init, RamInit, Handshake, CleanStart, WaitedOpAnswered, FirstStartFirst,
           OpHasWaiter, StartedHasRole, Answered, OkComing
  <1>2. TypeInv /\ NothingBeforeStart /\ I /\ [Next]_vars => I'
    BY NextHandshake, NextFirst, NextWaiter, NextStartedRole, NextAnswered
  <1>3. I => OkMeansRecorded
    BY DEF Answered, OkComing, Recorded, RestartInTodo, OkMeansRecorded
  <1> QED BY <1>1, <1>2, <1>3, BeforeStart, PTL DEF Spec

-----------------------------------------------------------------------------
(* What may end a leave.  The start of this boot is over, but for the OK of *)
(* its handler, before a command can find the role that it recorded.       *)

\* Until FIRST_START has been handled, and while a network forms, nobody leaves and the
\* stack has nothing else to say.
FirstStartQueued == \E i \in 1..Len(sigs) : sigs[i].sig = "FIRST_START"
Early == stack \in {"starting", "forming"} \/ FirstStartQueued
EarlyInv ==
  /\ Early => ~reset_cb /\ at_pc # "leave_begin"
  /\ stack \in {"starting", "forming"} => sigs = <<>>
  /\ \A i \in 1..Len(sigs) :
        sigs[i].sig = "FIRST_START" => i = 1 /\ Len(sigs) = 1 /\ stack = "ready"

StartUnrecorded ==
  op \in {"FORM", "JOIN"} /\ (stack = "starting" \/ FirstStartQueued) => stored_role = "NONE"

\* While a network forms, and while a handler holds up a failure, no role is recorded:
\* no leave gets past its first test.
LeavePcs == {"leave", "leave_begin", "leave_wait", "leave_timeout"}
Underway == stack = "forming" \/ StartReports
FormInv ==
  /\ \A i \in 2..Len(sigs) : sigs[i].sig # "FORMATION"
  /\ Underway => zb_todo = <<>>
  /\ Underway \/ FailureHeldUp => stored_role = "NONE" /\ at_pc \notin LeavePcs

StartApart == EarlyInv /\ StartUnrecorded /\ FormInv

LEMMA ResetApart == ASSUME Reset PROVE StartApart'
  BY DEF Reset, StartApart, EarlyInv, StartUnrecorded, FormInv, Early, FirstStartQueued, Underway,
         StartReports, FailureHeldUp

\* Whatever leaves stack, signals and handler as they are.
LEMMA SameApart ==
  ASSUME StartApart, UNCHANGED <<stack, sigs, zb_todo>>,
         op' \in {"FORM", "JOIN"} => op' = op,
         stored_role' \in {"NONE", stored_role},
         Early => ~reset_cb' /\ at_pc' # "leave_begin",
         at_pc' \in LeavePcs => at_pc \in LeavePcs \/ stored_role # "NONE"
  PROVE  StartApart'
  BY DEF StartApart, EarlyInv, StartUnrecorded, FormInv, Early, FirstStartQueued, Underway,
         StartReports, FailureHeldUp

LEMMA AtApart ==
  ASSUME TypeInv, NothingBeforeStart, StartApart, AtThread PROVE StartApart'
  <1>1. CASE StartNetwork
    <2>1. /\ sigs' = <<>> /\ zb_todo' = <<>> /\ ~reset_cb' /\ at_pc' = "run_wait"
          /\ stack' = "starting" /\ stored_role' = "NONE"
      BY <1>1 DEF StartNetwork, MustDefer, NothingBeforeStart
    <2> QED BY <2>1 DEF StartApart, EarlyInv, StartUnrecorded, FormInv, Early, FirstStartQueued,
                        Underway, StartReports, FailureHeldUp
  <1>2. CASE SysReboot
    BY <1>2, ResetApart DEF SysReboot
  <1>3. CASE LeaveTest
    <2>1. at_pc' = "leave_begin" => ~Early
      BY <1>3 DEF LeaveTest, Joined, StartApart, EarlyInv, Early, FirstStartQueued
    <2>2. at_pc \in LeavePcs /\ UNCHANGED <<stack, sigs, zb_todo, op, stored_role, reset_cb>>
      BY <1>3 DEF LeaveTest, LeavePcs, opv, zbv
    <2>3. Early => ~reset_cb
      BY DEF StartApart, EarlyInv
    <2> QED BY <2>1, <2>2, <2>3, SameApart
  <1>4. CASE LeaveBegin
    <2>1. at_pc = "leave_begin" /\ ~Early
      BY <1>4 DEF LeaveBegin, Goto, StartApart, EarlyInv
    <2>2. UNCHANGED <<stack, sigs, zb_todo, stored_role>> /\ op' \notin {"FORM", "JOIN"}
      BY <1>4 DEF LeaveBegin, BeginOp
    <2> QED BY <2>1, <2>2, SameApart DEF LeavePcs
  <1>5. CASE LeaveCmd
    <2>1. /\ UNCHANGED <<stack, sigs, zb_todo, stored_role, op, reset_cb>> /\ at_pc' # "leave_begin"
          /\ at_pc' \in LeavePcs => stored_role # "NONE"
      BY <1>5 DEF LeaveCmd, Answer, LeavePcs, opv, zbv
    <2>2. Early => ~reset_cb
      BY DEF StartApart, EarlyInv
    <2> QED BY <2>1, <2>2, SameApart
  <1>6. CASE AtThread /\ ~StartNetwork /\ ~SysReboot /\ ~LeaveTest /\ ~LeaveBegin /\ ~LeaveCmd
    <2>1. /\ UNCHANGED <<stack, sigs, zb_todo, reset_cb>> /\ op' \in {op, "NONE"}
          /\ stored_role' \in {"NONE", stored_role} /\ at_pc' # "leave_begin"
          /\ at_pc' \in LeavePcs => at_pc \in LeavePcs
      BY <1>6 DEF AtThread, TakeLine, StartRefused, StartDeferred, DeferToNextBoot, RunOpDone,
                  WaitTimesOut, RunOpTimeout, LeaveDone, LeaveTimeout, ClearRole,
                  ClearFlashRole, Wipe, AnswerOkAndReboot, PrintResult, Goto, Answer,
                  TakeDone, AbandonOp, LeavePcs, opv, zbv
    <2>2. Early => ~reset_cb
      BY DEF StartApart, EarlyInv
    <2> QED BY <2>1, <2>2, SameApart
  <1> QED BY <1>1, <1>2, <1>3, <1>4, <1>5, <1>6

\* Past the start the stack raises neither FIRST_START nor FORMATION.
LEMMA LaterSignals ==
  ASSUME TypeInv, StartApart, ~Early, NEW signals \in Seq(Sigs), sigs' = sigs \o signals,
         \A i \in 1..Len(signals) : signals[i].sig \notin {"FIRST_START", "FORMATION"},
         stack' \notin {"starting", "forming"},
         UNCHANGED <<zb_todo, at_pc, stored_role, op>>
  PROVE  StartApart'
  <1>1. sigs \in Seq(Sigs)
    BY DEF TypeInv, TypeOK
  <1>2. \A i \in 1..Len(sigs \o signals) :
           \/ i \in 1..Len(sigs) /\ (sigs \o signals)[i] = sigs[i]
           \/ i - Len(sigs) \in 1..Len(signals) /\ (sigs \o signals)[i] = signals[i - Len(sigs)]
    BY <1>1
  <1>3. \A i \in 1..Len(sigs') : sigs'[i].sig \in {"FIRST_START", "FORMATION"} =>
           i \in 1..Len(sigs) /\ sigs'[i] = sigs[i]
    BY <1>2
  <1>4. \A i \in 1..Len(sigs') : sigs'[i].sig # "FIRST_START"
    BY <1>3 DEF Early, FirstStartQueued
  <1>5. /\ \A i \in 2..Len(sigs') : sigs'[i].sig # "FORMATION"
        /\ StartReports' => StartReports
    <2>1. \A i \in 1..Len(sigs') : sigs'[i].sig = "FORMATION" =>
            i \in 1..Len(sigs) /\ sigs[i].sig = "FORMATION"
      BY <1>3
    <2>2. \A i \in 2..Len(sigs) : sigs[i].sig # "FORMATION"
      BY DEF StartApart, FormInv
    <2>3. sigs' \in Seq(Sigs)
      BY <1>1
    <2> QED BY <1>1, <2>1, <2>2, <2>3 DEF StartReports
  <1>6. EarlyInv' /\ StartUnrecorded'
    BY <1>4 DEF EarlyInv, StartUnrecorded, Early, FirstStartQueued
  <1>7. FormInv'
    BY <1>5 DEF StartApart, FormInv, Underway, FailureHeldUp
  <1> QED BY <1>6, <1>7 DEF StartApart

LEMMA StackApart == ASSUME TypeInv, StartApart, ZbossStack PROVE StartApart'
  <1>0. UNCHANGED <<zb_todo, at_pc, stored_role, op>> /\ zb_todo = <<>>
    BY DEF ZbossStack, StackStarts, NetworkFormed, SteeringEnds, KeyExchangeFails, RemovedByPeer,
           AskedToRejoin, ParentLost, LocalReset, Raise, opv, atv
  <1>h. ~FailureHeldUp'
    BY <1>0 DEF FailureHeldUp
  <1>1. ASSUME NEW ok \in BOOLEAN, StackStarts(ok) PROVE StartApart'
    <2>1. sigs = <<>> /\ ~reset_cb /\ at_pc # "leave_begin" /\ stack = "starting"
      BY <1>1 DEF StackStarts, StartApart, EarlyInv, Early
    <2>2. /\ reset_cb' = reset_cb /\ stack' \in {"up", "ready"} /\ Len(sigs') = 1
          /\ sigs'[1].sig \in {"FIRST_START", "REBOOT"}
          /\ sigs'[1].sig = "FIRST_START" => stack' = "ready"
      BY <1>1, <2>1 DEF StackStarts, Raise, Signal
    <2>3. EarlyInv'
      BY <1>0, <2>1, <2>2 DEF EarlyInv, Early, FirstStartQueued
    <2>4. StartUnrecorded'
      BY <1>0, <2>1 DEF StartApart, StartUnrecorded
    <2>5. FormInv'
      BY <1>h, <2>2 DEF FormInv, Underway, StartReports
    <2> QED BY <2>3, <2>4, <2>5 DEF StartApart
  <1>2. ASSUME NEW ok \in BOOLEAN, NetworkFormed(ok) PROVE StartApart'
    <2>1. /\ sigs = <<>> /\ stored_role = "NONE" /\ at_pc \notin LeavePcs
      BY <1>2 DEF NetworkFormed, StartApart, EarlyInv, FormInv, Underway
    <2>2. /\ stack' \in {"up", "ready"} /\ Len(sigs') = 1 /\ sigs'[1].sig = "FORMATION"
      BY <1>2, <2>1 DEF NetworkFormed, Raise, Signal
    <2>3. EarlyInv' /\ StartUnrecorded'
      BY <2>2 DEF EarlyInv, StartUnrecorded, Early, FirstStartQueued
    <2>4. FormInv'
      BY <1>0, <2>1, <2>2 DEF FormInv
    <2> QED BY <2>3, <2>4 DEF StartApart
  <1>3. CASE LocalReset
    <2> DEFINE left == Signal("LEAVE", TRUE)
               failed == Signal("LEAVE", FALSE)
    <2>1. /\ left \in Sigs /\ left.sig = "LEAVE" /\ failed \in Sigs /\ failed.sig = "LEAVE"
      BY DEF Signal, Sigs, SigIds
    <2>2. ~Early
      BY <1>3 DEF LocalReset, StartApart, EarlyInv
    <2>3. sigs' \in {sigs, Append(sigs, left), Append(sigs, failed)} /\ stack' \in {"ready", stack}
      BY <1>3 DEF LocalReset
    <2> HIDE DEF left, failed
    <2>4. sigs \in Seq(Sigs)
      BY DEF TypeInv, TypeOK
    <2>5. \E s \in {<<>>, <<left>>, <<failed>>} : sigs' = sigs \o s
      <3>1. sigs = sigs \o <<>>
        BY <2>4
      <3>2. \A x \in Sigs : Append(sigs, x) = sigs \o <<x>>
        BY <2>4
      <3> QED BY <2>1, <2>3, <3>1, <3>2
    <2>6. /\ <<>> \in Seq(Sigs) /\ <<left>> \in Seq(Sigs) /\ <<failed>> \in Seq(Sigs)
          /\ \A s \in {<<>>, <<left>>, <<failed>>} : \A i \in 1..Len(s) :
                s[i].sig \notin {"FIRST_START", "FORMATION"}
      BY <2>1
    <2>7. stack' \notin {"starting", "forming"}
      BY <2>2, <2>3 DEF Early
    <2> QED BY <1>0, <2>2, <2>5, <2>6, <2>7, LaterSignals
  <1>4. CASE \/ \E ok \in BOOLEAN : SteeringEnds(ok)
             \/ KeyExchangeFails \/ RemovedByPeer \/ AskedToRejoin \/ ParentLost
    <2> DEFINE S(id, ok) == <<Signal(id, ok)>>
               L == Signal("LEAVE", TRUE)
               F == Signal("STEERING", FALSE)
               All == {<<>>, S("LEAVE", TRUE), S("LEAVE_REJOIN", TRUE), S("STEERING", TRUE),
                       S("STEERING", FALSE), <<L, F>>}
    <2>1. ~Early
      BY <1>4 DEF SteeringEnds, KeyExchangeFails, RemovedByPeer, AskedToRejoin, ParentLost,
                  StartApart, EarlyInv, Early, FirstStartQueued
    <2>2. /\ \E s \in All : sigs' = sigs \o s
          /\ stack' \notin {"starting", "forming"}
      BY <1>4 DEF SteeringEnds, KeyExchangeFails, RemovedByPeer, AskedToRejoin, ParentLost, Raise
    <2>3. /\ L \in Sigs /\ F \in Sigs /\ L.sig = "LEAVE" /\ F.sig = "STEERING"
      BY DEF Signal, Sigs, SigIds
    <2>4. \A id \in {"LEAVE", "LEAVE_REJOIN", "STEERING"}, ok \in BOOLEAN :
             S(id, ok) \in Seq(Sigs) /\ Len(S(id, ok)) = 1 /\ S(id, ok)[1].sig = id
      BY SignalType DEF Signal, SigIds
    <2> HIDE DEF L, F, S
    <2>5. /\ <<L, F>> \in Seq(Sigs)
          /\ \A i \in 1..Len(<<L, F>>) : <<L, F>>[i].sig \notin {"FIRST_START", "FORMATION"}
      BY <2>3
    <2>6. \A id \in {"LEAVE", "LEAVE_REJOIN", "STEERING"}, ok \in BOOLEAN :
             \A i \in 1..Len(S(id, ok)) : S(id, ok)[i].sig \notin {"FIRST_START", "FORMATION"}
      BY <2>4
    <2>7. \A s \in All : s \in Seq(Sigs) /\ \A i \in 1..Len(s) :
                            s[i].sig \notin {"FIRST_START", "FORMATION"}
      <3> DEFINE Late(s) == s \in Seq(Sigs) /\ \A i \in 1..Len(s) :
                               s[i].sig \notin {"FIRST_START", "FORMATION"}
      <3>1. Late(<<>>) /\ Late(<<L, F>>)
        BY <2>5
      <3>2. \A id \in {"LEAVE", "LEAVE_REJOIN", "STEERING"}, ok \in BOOLEAN : Late(S(id, ok))
        BY <2>4, <2>6
      <3> HIDE DEF Late
      <3>3. /\ Late(S("LEAVE", TRUE)) /\ Late(S("LEAVE_REJOIN", TRUE))
            /\ Late(S("STEERING", TRUE)) /\ Late(S("STEERING", FALSE))
        BY <3>2
      <3>4. \A s \in All : Late(s)
        BY <3>1, <3>3
      <3> QED BY <3>4 DEF Late
    <2> HIDE DEF All
    <2> QED BY <1>0, <2>1, <2>2, <2>7, LaterSignals
  <1> QED BY <1>1, <1>2, <1>3, <1>4 DEF ZbossStack

\* A handler that saves a role has a failure to give only when it is told to.
LEMMA NoFailureSaved ==
  ASSUME NEW role, NEW rest \in {<<>>, <<Completion("OK")>>, <<Restart>>}, RoleSave(role, rest)
  PROVE  ~FailureHeldUp'
  <1> DEFINE first == Save(role)
             given == Completion("OK")
  <1>0. rest \in {<<>>, <<given>>, <<Restart>>}
    OBVIOUS
  <1>1. first.do = "save" /\ Restart.do = "reboot" /\ given.arg = "OK"
    BY DEF Save, Restart, Completion
  <1>2. zb_todo' = <<first>> \o rest
    BY DEF RoleSave
  <1> HIDE DEF first, given
  <1> DEFINE Mine == {first, given, Restart}
  <1>3. <<first>> \in Seq(Mine) /\ rest \in Seq(Mine)
    <2>1. first \in Mine /\ given \in Mine /\ Restart \in Mine
      OBVIOUS
    <2> HIDE DEF Mine
    <2>2. <<first>> \in Seq(Mine) /\ <<>> \in Seq(Mine)
      BY <2>1
    <2>3. <<given>> \in Seq(Mine) /\ <<Restart>> \in Seq(Mine)
      BY <2>1
    <2> QED BY <1>0, <2>2, <2>3
  <1>4. \A i \in 1..Len(zb_todo') : zb_todo'[i] \in Mine
    <2> HIDE DEF Mine
    <2> QED BY <1>2, <1>3
  <1> QED BY <1>1, <1>4 DEF FailureHeldUp

LEMMA NoFailureUp ==
  ASSUME NEW rest \in {<<>>, <<Completion("OK")>>}, NetworkUp(rest)
  PROVE  ~FailureHeldUp'
  <1> DEFINE given == Completion("OK")
  <1>1. given.arg = "OK"
    BY DEF Completion
  <1> HIDE DEF given
  <1>2. CASE zb_todo' = rest
    <2>1. zb_todo' \in {<<>>, <<given>>}
      BY <1>2 DEF given
    <2> QED BY <1>1, <2>1 DEF FailureHeldUp
  <1>3. CASE RoleSave(net_role, rest)
    BY <1>3, NoFailureSaved
  <1> QED BY <1>2, <1>3 DEF NetworkUp

LEMMA HandlerApart ==
  ASSUME TypeInv, OpHasWaiter, StartApart, SignalHandler PROVE StartApart'
  <1>1. /\ zb_todo = <<>> /\ sigs # <<>> /\ sigs' = Tail(sigs) /\ sigs \in Seq(Sigs)
        /\ UNCHANGED <<at_pc, reset_cb>>
    BY DEF SignalHandler, OnFirstStart, OnDeviceReboot, OnFormation, OnSteering, OnLeave, On,
           UnchangedByHandlers, atv, TypeInv, TypeOK
  <1>2. Len(sigs') = Len(sigs) - 1 /\ \A i \in 1..Len(sigs') : sigs'[i] = sigs[i + 1] /\ i + 1 \in 2..Len(sigs)
    BY <1>1
  <1>3. /\ ~FirstStartQueued' /\ ~StartReports'
        /\ \A i \in 1..Len(sigs') : sigs'[i].sig \notin {"FIRST_START", "FORMATION"}
    <2>1. \A i \in 2..Len(sigs) : sigs[i].sig \notin {"FIRST_START", "FORMATION"}
      BY <1>1 DEF StartApart, EarlyInv, FormInv
    <2> QED BY <1>2, <2>1 DEF FirstStartQueued, StartReports
  <1>4. stack \notin {"starting", "forming"}
    BY <1>1 DEF StartApart, EarlyInv
  <1>5. stack' # "starting"
    BY <1>4 DEF SignalHandler, OnFirstStart, OnDeviceReboot, OnFormation, OnSteering, OnLeave,
                DefaultHandler
  <1>6. stack' = "forming" =>
           /\ sigs' = <<>> /\ ~reset_cb /\ at_pc \in {"run_wait", "run_timeout"}
           /\ stored_role = "NONE" /\ stored_role' = "NONE" /\ zb_todo' = <<>>
    <2> SUFFICES ASSUME stack' = "forming"
                 PROVE  /\ sigs' = <<>> /\ ~reset_cb /\ at_pc \in {"run_wait", "run_timeout"}
                        /\ stored_role = "NONE" /\ stored_role' = "NONE" /\ zb_todo' = <<>>
      OBVIOUS
    <2>1. OnFirstStart
      BY <1>4 DEF SignalHandler, OnDeviceReboot, OnFormation, OnSteering, OnLeave, DefaultHandler
    <2>2. /\ op = "FORM" /\ UNCHANGED <<stored_role, zb_todo>> /\ sigs[1].sig = "FIRST_START"
      BY <1>1, <1>4, <2>1 DEF OnFirstStart, On
    <2>3. 1 \in 1..Len(sigs) /\ FirstStartQueued
      BY <1>1, <2>2 DEF FirstStartQueued
    <2>4. Len(sigs) = 1 /\ ~reset_cb /\ stored_role = "NONE"
      BY <2>2, <2>3 DEF StartApart, EarlyInv, StartUnrecorded, Early
    <2>5. sigs' = <<>>
      BY <1>1, <2>4
    <2> QED BY <1>1, <2>2, <2>4, <2>5 DEF OpHasWaiter
  <1>7. FailureHeldUp' => stored_role' = "NONE" /\ at_pc \in {"run_wait", "run_timeout"}
    <2>0. zb_todo' = zb_todo => ~FailureHeldUp'
      BY <1>1 DEF FailureHeldUp
    <2>1. CASE OnFirstStart
      BY <2>0, <2>1, NoFailureSaved DEF OnFirstStart
    <2>2. CASE OnDeviceReboot
      BY <2>0, <2>2, NoFailureUp DEF OnDeviceReboot
    <2>3. CASE OnFormation
      BY <2>0, <2>3, NoFailureUp DEF OnFormation
    <2>4. CASE OnSteering
      BY <2>0, <2>4, NoFailureUp DEF OnSteering
    <2>5. CASE OnLeave
      <3>1. CASE op = "JOIN"
        BY <2>5, <3>1 DEF OnLeave, RoleSave, OpHasWaiter
      <3>2. CASE op # "JOIN"
        BY <2>0, <2>5, <3>2, NoFailureSaved DEF OnLeave, Removed
      <3> QED BY <3>1, <3>2
    <2> QED BY <2>1, <2>2, <2>3, <2>4, <2>5 DEF SignalHandler
  <1>8. EarlyInv'
    BY <1>1, <1>3, <1>5, <1>6 DEF EarlyInv, Early
  <1>9. StartUnrecorded'
    BY <1>3, <1>5 DEF StartUnrecorded
  <1>10. FormInv'
    <2>1. \A i \in 2..Len(sigs') : sigs'[i].sig # "FORMATION"
      BY <1>1, <1>2, <1>3
    <2> QED BY <1>1, <1>3, <1>6, <1>7, <2>1 DEF FormInv, Underway, LeavePcs
  <1> QED BY <1>8, <1>9, <1>10 DEF StartApart

LEMMA JobApart ==
  ASSUME TypeInv, StartApart, FlushRole \/ FinishOp \/ ScheduleReboot PROVE StartApart'
  <1>1. /\ zb_todo # <<>> /\ zb_todo' = Tail(zb_todo) /\ zb_todo \in Seq(Jobs)
        /\ UNCHANGED <<at_pc, stored_role, stack, sigs, reset_cb>> /\ op' \in {op, "NONE"}
    BY DEF FlushRole, FinishOp, ScheduleReboot, NextJob, Complete, opv, zbv, atv, TypeInv, TypeOK
  <1>2. \A i \in 1..Len(zb_todo') : zb_todo'[i] = zb_todo[i + 1] /\ i + 1 \in 1..Len(zb_todo)
    BY <1>1
  <1>3. FailureHeldUp' => FailureHeldUp
    BY <1>2 DEF FailureHeldUp
  <1>4. ~Underway /\ ~Underway'
    BY <1>1 DEF StartApart, FormInv, Underway, StartReports
  <1>5. EarlyInv' /\ StartUnrecorded'
    BY <1>1 DEF StartApart, EarlyInv, StartUnrecorded, Early, FirstStartQueued
  <1>6. FormInv'
    BY <1>1, <1>3, <1>4 DEF StartApart, FormInv
  <1> QED BY <1>5, <1>6 DEF StartApart

LEMMA NextApart ==
  ASSUME TypeInv, NothingBeforeStart, OpHasWaiter, StartApart, [Next]_vars PROVE StartApart'
  <1>1. CASE RebootWork \/ PowerLoss
    BY <1>1, ResetApart DEF RebootWork, PowerLoss
  <1>2. CASE ZbcInit
    <2>1. /\ sigs' = <<>> /\ zb_todo' = <<>> /\ ~reset_cb' /\ at_pc' = "idle" /\ op' = "NONE"
          /\ stack' \in {"off", "starting"}
      BY <1>2 DEF ZbcInit, StartRecorded, NothingBeforeStart, opv, atv
    <2> QED BY <2>1 DEF StartApart, EarlyInv, StartUnrecorded, FormInv, Early, FirstStartQueued,
                        Underway, StartReports, FailureHeldUp
  <1>3. CASE DeletePend \/ InjectLine \/ UNCHANGED vars \/ (\E c \in Cmds : HostTypes(c))
    <2>1. UNCHANGED <<stack, sigs, zb_todo, op, stored_role, reset_cb, at_pc>>
      BY <1>3 DEF DeletePend, InjectLine, HostTypes, vars, opv, atv, zbv
    <2>2. Early => ~reset_cb /\ at_pc # "leave_begin"
      BY DEF StartApart, EarlyInv
    <2> QED BY <2>1, <2>2, SameApart
  <1> QED BY <1>1, <1>2, <1>3, AtApart, HandlerApart, JobApart, StackApart
          DEF Next, ZbossThread, MainThread

\* No completion of an earlier operation is left in the semaphore when one begins, and
\* AT+DASSL and AT&F are never ended by the failure of a start, still queued or held up.
THEOREM NoStaleCompletionHolds == Spec => []NoStaleCompletion
  <1> DEFINE I == Handshake /\ OpHasWaiter /\ StartApart
  <1>1. Init => I
    BY DEF Init, RamInit, Handshake, CleanStart, WaitedOpAnswered, OpHasWaiter, StartApart,
           EarlyInv, StartUnrecorded, FormInv, Early, FirstStartQueued, Underway, StartReports,
           FailureHeldUp
  <1>2. TypeInv /\ NothingBeforeStart /\ I /\ [Next]_vars => I'
    BY NextHandshake, NextWaiter, NextApart
  <1>3. I => NoStaleCompletion
    BY DEF Handshake, CleanStart, OpHasWaiter, StartApart, FormInv, Underway, LeavePcs,
           NoStaleCompletion
  <1> QED BY <1>1, <1>2, <1>3, BeforeStart, PTL DEF Spec

-----------------------------------------------------------------------------
(* The promise of Membership.  What it takes besides the invariants above: *)
(* whose start is in hand, and what may become its answer.                 *)

\* The role of the stack is that of the start in hand, and operations are of that start.
OwnRole ==
  /\ ~stack_started => net_role = "NONE"
  /\ at_pc \in {"run_wait", "run_timeout"} => net_role \in Promise!Wanted(current)
  /\ op = "FORM" => net_role = "ZC"
  /\ op = "JOIN" => net_role # "ZC"

\* What a start in the role r may end with; what forms a network is a coordinator.
Codes(r) == {"OK", IF r = "ZC" THEN "CANNOT_FORM" ELSE "CANNOT_JOIN"}
CodesLeft == \A i \in 1..Len(zb_todo) : zb_todo[i].do = "complete" => zb_todo[i].arg \in Codes(net_role)
Forming == stack = "forming" \/ \E i \in 1..Len(sigs) : sigs[i].sig = "FORMATION"
CodeInv ==
  /\ at_pc = "run_wait" /\ op_done = 1 => op_result \in Codes(net_role)
  /\ CodesLeft
  /\ Forming => net_role = "ZC"

\* OK is only on its way to a start whose network is recorded.
OkInv == at_pc = "run_wait" /\ OkInTodo => stored_role # "NONE"

LEMMA WantedRoles ==
  /\ \A c : Promise!Wanted(c) \subseteq Roles \ {"NONE"}
  /\ Promise!Wanted("EN") = {"ZC"} /\ "ZC" \notin Promise!Wanted("JN")
  BY JoinRolesAssumption DEF Promise!Wanted, Roles

LEMMA ResetOwn == ASSUME Reset PROVE OwnRole'
  BY DEF Reset, OwnRole

LEMMA AtOwn ==
  ASSUME NothingBeforeStart, OpHasWaiter, CmdInv, OwnRole, AtThread PROVE OwnRole'
  <1> USE DEF OwnRole
  <1>1. CASE StartNetwork
    <2>1. net_role' \in Promise!Wanted(current) /\ current \in {"EN", "JN"}
      BY <1>1 DEF StartNetwork, StartCmd, Promise!Wanted
    <2>2. op' = IF current = "EN" THEN "FORM" ELSE "JOIN"
      BY <1>1 DEF StartNetwork, BeginOp
    <2> QED BY <1>1, <2>1, <2>2, WantedRoles DEF StartNetwork
  <1>2. CASE SysReboot
    BY <1>2, ResetOwn DEF SysReboot
  <1>3. CASE RunOpDone \/ RunOpTimeout \/ WaitTimesOut
    BY <1>3 DEF RunOpDone, RunOpTimeout, WaitTimesOut, TakeDone, AbandonOp, Answer, Goto, opv, zbv
  <1>4. CASE LeaveBegin \/ LeaveDone \/ LeaveTimeout
    BY <1>4 DEF LeaveBegin, LeaveDone, LeaveTimeout, BeginOp, TakeDone, AbandonOp, Goto, zbv
  <1>5. CASE TakeLine \/ StartRefused \/ StartDeferred \/ DeferToNextBoot \/ LeaveCmd \/ LeaveTest
    BY <1>5 DEF TakeLine, StartRefused, StartDeferred, DeferToNextBoot, LeaveCmd, LeaveTest,
                Answer, Goto, opv, zbv
  <1>6. CASE ClearRole \/ ClearFlashRole \/ Wipe \/ AnswerOkAndReboot \/ PrintResult
    BY <1>6 DEF ClearRole, ClearFlashRole, Wipe, AnswerOkAndReboot, PrintResult, Goto, opv, zbv
  <1> QED BY <1>1, <1>2, <1>3, <1>4, <1>5, <1>6 DEF AtThread

LEMMA NextOwn ==
  ASSUME TypeInv, NothingBeforeStart, OpHasWaiter, CmdInv, OwnRole, [Next]_vars PROVE OwnRole'
  <1>1. CASE RebootWork \/ PowerLoss
    BY <1>1, ResetOwn DEF RebootWork, PowerLoss
  <1>2. CASE ZbcInit
    BY <1>2 DEF ZbcInit, StartRecorded, NothingBeforeStart, opv, atv, OwnRole
  <1>3. CASE DeletePend \/ InjectLine \/ UNCHANGED vars \/ (\E c \in Cmds : HostTypes(c))
    BY <1>3 DEF DeletePend, InjectLine, HostTypes, vars, opv, atv, zbv, OwnRole
  <1>4. CASE ZbossThread \/ ZbossStack
    <2>1. op' \in {op, "NONE"} /\ current' = current
      BY <1>4 DEF ZbossThread, SignalHandler, OnFirstStart, OnDeviceReboot, OnFormation,
                  OnSteering, OnLeave, FlushRole, FinishOp, ScheduleReboot, ZbossStack,
                  StackStarts, NetworkFormed, SteeringEnds, KeyExchangeFails, RemovedByPeer,
                  AskedToRejoin, ParentLost, LocalReset, Raise, Complete, opv, atv,
                  UnchangedByHandlers
    <2> QED BY <1>4, <2>1, ZbossLeavesAt DEF OwnRole
  <1> QED BY <1>1, <1>2, <1>3, <1>4, AtOwn DEF Next, MainThread

\* Without a coordinator nothing forms, whatever the stack raises.
NoForming == stack # "forming" /\ \A i \in 1..Len(sigs) : sigs[i].sig # "FORMATION"

LEMMA RaiseNoForming ==
  ASSUME TypeInv, NoForming, NEW signals \in Seq(Sigs), NEW stk, NEW network,
         Raise(signals, stk, network), stk # "forming",
         \A i \in 1..Len(signals) : signals[i].sig # "FORMATION"
  PROVE  NoForming'
  <1>1. sigs \in Seq(Sigs) /\ sigs' = sigs \o signals /\ stack' = stk
    BY DEF Raise, TypeInv, TypeOK
  <1>2. \A i \in 1..Len(sigs \o signals) :
           \/ i \in 1..Len(sigs) /\ (sigs \o signals)[i] = sigs[i]
           \/ i - Len(sigs) \in 1..Len(signals) /\ (sigs \o signals)[i] = signals[i - Len(sigs)]
    BY <1>1
  <1> QED BY <1>1, <1>2 DEF NoForming

LEMMA RaiseOneNoForming ==
  ASSUME TypeInv, NoForming, NEW id \in SigIds \ {"FORMATION"}, NEW ok \in BOOLEAN,
         NEW stk, NEW network, Raise(<<Signal(id, ok)>>, stk, network), stk # "forming"
  PROVE  NoForming'
  <1>1. <<Signal(id, ok)>> \in Seq(Sigs)
    BY SignalType
  <1>2. \A i \in 1..Len(<<Signal(id, ok)>>) : <<Signal(id, ok)>>[i].sig # "FORMATION"
    BY DEF Signal
  <1> QED BY <1>1, <1>2, RaiseNoForming

LEMMA StackNoForming == ASSUME TypeInv, NoForming, ZbossStack PROVE NoForming'
  <1> USE DEF SigIds
  <1>1. ASSUME NEW ok \in BOOLEAN, StackStarts(ok) PROVE NoForming'
    BY <1>1, RaiseOneNoForming DEF StackStarts
  <1>2. ASSUME NEW ok \in BOOLEAN, NetworkFormed(ok) PROVE NoForming'
    BY <1>2 DEF NetworkFormed, NoForming
  <1>3. ASSUME NEW ok \in BOOLEAN, SteeringEnds(ok) PROVE NoForming'
    BY <1>3, RaiseOneNoForming DEF SteeringEnds
  <1>4. CASE KeyExchangeFails
    <2> DEFINE left == Signal("LEAVE", TRUE)
               failed == Signal("STEERING", FALSE)
    <2>1. left \in Sigs /\ failed \in Sigs /\ left.sig # "FORMATION" /\ failed.sig # "FORMATION"
      BY DEF Signal, Sigs
    <2>2. Raise(<<left>>, "ready", "NONE") \/ Raise(<<left, failed>>, "ready", "NONE")
      BY <1>4 DEF KeyExchangeFails
    <2> HIDE DEF left, failed
    <2>3. <<left>> \in Seq(Sigs) /\ <<left, failed>> \in Seq(Sigs)
      BY <2>1
    <2>4. /\ \A i \in 1..Len(<<left>>) : <<left>>[i].sig # "FORMATION"
          /\ \A i \in 1..Len(<<left, failed>>) : <<left, failed>>[i].sig # "FORMATION"
      BY <2>1
    <2> QED BY <2>2, <2>3, <2>4, RaiseNoForming
  <1>5. CASE RemovedByPeer
    BY <1>5, RaiseOneNoForming DEF RemovedByPeer
  <1>6. CASE AskedToRejoin
    BY <1>6, RaiseOneNoForming DEF AskedToRejoin
  <1>7. CASE ParentLost
    <2>1. <<>> \in Seq(Sigs) /\ \A i \in 1..Len(<<>>) : <<>>[i].sig # "FORMATION"
      OBVIOUS
    <2> QED BY <1>7, <2>1, RaiseNoForming DEF ParentLost
  <1>8. CASE LocalReset
    <2> DEFINE left == Signal("LEAVE", TRUE)
               failed == Signal("LEAVE", FALSE)
    <2>1. left.sig # "FORMATION" /\ failed.sig # "FORMATION"
      BY DEF Signal
    <2>2. sigs' \in {sigs, Append(sigs, left), Append(sigs, failed)} /\ stack' # "forming"
      BY <1>8 DEF LocalReset, NoForming
    <2> HIDE DEF left, failed
    <2>3. sigs \in Seq(Sigs)
      BY DEF TypeInv, TypeOK
    <2> QED BY <2>1, <2>2, <2>3 DEF NoForming
  <1> QED BY <1>1, <1>2, <1>3, <1>4, <1>5, <1>6, <1>7, <1>8 DEF ZbossStack

\* What a handler leaves to be done completes nothing with another operation's error.
LEMMA QuietCodes ==
  ASSUME NEW r
  PROVE  /\ \A i \in 1..Len(<<>>) : <<>>[i].do = "complete" => <<>>[i].arg \in Codes(r)
         /\ \A i \in 1..Len(<<Completion("OK")>>) : <<Completion("OK")>>[i].arg \in Codes(r)
         /\ r # "ZC" => \A i \in 1..Len(<<Completion("CANNOT_JOIN")>>) :
                           <<Completion("CANNOT_JOIN")>>[i].arg \in Codes(r)
         /\ \A i \in 1..Len(<<Restart>>) : <<Restart>>[i].do # "complete"
  BY DEF Completion, Restart, Codes

LEMMA RoleSaveCodes ==
  ASSUME NEW role \in Roles, NEW rest \in Seq(Jobs), RoleSave(role, rest), net_role' = net_role,
         \A i \in 1..Len(rest) : rest[i].do = "complete" => rest[i].arg \in Codes(net_role)
  PROVE  CodesLeft'
  <1> DEFINE first == Save(role)
  <1>1. first.do # "complete"
    BY DEF Save
  <1>2. zb_todo' = <<first>> \o rest
    BY DEF RoleSave
  <1> HIDE DEF first
  <1>3. \A i \in 1..Len(zb_todo') : (i = 1 /\ zb_todo'[i] = first)
                                   \/ (zb_todo'[i] = rest[i - 1] /\ i - 1 \in 1..Len(rest))
    BY <1>2
  <1> QED BY <1>1, <1>3 DEF CodesLeft

LEMMA NetworkUpCodes ==
  ASSUME TypeInv, NEW rest \in Seq(Jobs), NetworkUp(rest), net_role' = net_role,
         \A i \in 1..Len(rest) : rest[i].do = "complete" => rest[i].arg \in Codes(net_role)
  PROVE  CodesLeft'
  BY RoleSaveCodes DEF NetworkUp, CodesLeft, TypeInv, TypeOK

LEMMA HandlerCode ==
  ASSUME TypeInv, Handshake, OwnRole, CodeInv, SignalHandler
  PROVE  CodeInv'
  <1>1. /\ zb_todo = <<>> /\ sigs # <<>> /\ sigs' = Tail(sigs) /\ sigs \in Seq(Sigs)
        /\ UNCHANGED <<at_pc, net_role>>
    BY DEF SignalHandler, OnFirstStart, OnDeviceReboot, OnFormation, OnSteering, OnLeave, On,
           UnchangedByHandlers, atv, TypeInv, TypeOK
  <1>2. \A i \in 1..Len(sigs') : sigs'[i] = sigs[i + 1] /\ i + 1 \in 1..Len(sigs)
    BY <1>1
  <1>3. Head(sigs).sig = "FORMATION" => net_role = "ZC"
    BY <1>1 DEF CodeInv, Forming
  <1>4. stack' = "forming" => net_role = "ZC"
    BY DEF SignalHandler, OnFirstStart, OnDeviceReboot, OnFormation, OnSteering, OnLeave,
           DefaultHandler, CodeInv, Forming, OwnRole
  <1>5. Forming' => net_role' = "ZC"
    BY <1>1, <1>2, <1>4 DEF CodeInv, Forming
  <1>6. at_pc' = "run_wait" /\ op_done' = 1 => op_result' \in Codes(net_role)
    <2> USE DEF CodeInv, Codes, Complete, opv, OwnRole
    <2>1. CASE OnFirstStart
      BY <1>1, <2>1 DEF OnFirstStart
    <2>2. CASE OnDeviceReboot
      BY <1>1, <2>2 DEF OnDeviceReboot
    <2>3. CASE OnFormation
      BY <1>1, <1>3, <2>3 DEF OnFormation, On
    <2>4. CASE OnSteering
      BY <1>1, <2>4 DEF OnSteering, IsZc
    <2>5. CASE OnLeave
      BY <1>1, <2>5 DEF OnLeave
    <2> QED BY <2>1, <2>2, <2>3, <2>4, <2>5 DEF SignalHandler
  <1>7. CodesLeft'
    <2>0. zb_todo' = zb_todo => CodesLeft'
      BY <1>1 DEF CodesLeft
    <2>1. CASE OnFirstStart
      BY <1>1, <2>0, <2>1, QuietCodes, ResultsMembers, RoleSaveCodes DEF OnFirstStart
    <2>2. CASE OnDeviceReboot
      BY <1>1, <2>0, <2>2, QuietCodes, ResultsMembers, NetworkUpCodes DEF OnDeviceReboot
    <2>3. CASE OnFormation
      BY <1>1, <2>0, <2>3, QuietCodes, ResultsMembers, NetworkUpCodes DEF OnFormation
    <2>4. CASE OnSteering
      BY <1>1, <2>0, <2>4, QuietCodes, ResultsMembers, NetworkUpCodes DEF OnSteering
    <2>5. CASE OnLeave
      BY <1>1, <2>0, <2>5, QuietCodes, ResultsMembers, RoleSaveCodes DEF OnLeave, Removed, OwnRole
    <2> QED BY <2>1, <2>2, <2>3, <2>4, <2>5 DEF SignalHandler
  <1> QED BY <1>1, <1>5, <1>6, <1>7 DEF CodeInv

LEMMA JobCode ==
  ASSUME TypeInv, CodeInv, FlushRole \/ FinishOp \/ ScheduleReboot
  PROVE  CodeInv'
  <1>1. /\ zb_todo # <<>> /\ zb_todo' = Tail(zb_todo) /\ zb_todo \in Seq(Jobs)
        /\ UNCHANGED <<at_pc, net_role, stack, sigs>>
    BY DEF FlushRole, FinishOp, ScheduleReboot, NextJob, zbv, atv, TypeInv, TypeOK
  <1>2. \A i \in 1..Len(zb_todo') : zb_todo'[i] = zb_todo[i + 1] /\ i + 1 \in 1..Len(zb_todo)
    BY <1>1
  <1>3. CodesLeft'
    BY <1>1, <1>2 DEF CodeInv, CodesLeft
  <1>4. Head(zb_todo) = zb_todo[1] /\ 1 \in 1..Len(zb_todo)
    BY <1>1
  <1>5. at_pc' = "run_wait" /\ op_done' = 1 => op_result' \in Codes(net_role)
    <2>1. CASE FinishOp
      BY <1>1, <1>4, <2>1 DEF FinishOp, NextJob, Complete, opv, CodeInv, CodesLeft
    <2>2. CASE FlushRole \/ ScheduleReboot
      BY <1>1, <2>2 DEF FlushRole, ScheduleReboot, opv, CodeInv
    <2> QED BY <2>1, <2>2
  <1> QED BY <1>1, <1>3, <1>5 DEF CodeInv, Forming

LEMMA ResetCode == ASSUME Reset PROVE CodeInv'
  BY DEF Reset, CodeInv, CodesLeft, Forming

LEMMA AtCode ==
  ASSUME NothingBeforeStart, CodeInv, AtThread PROVE CodeInv'
  <1>1. CASE StartNetwork
    BY <1>1 DEF StartNetwork, MustDefer, BeginOp, NothingBeforeStart, CodeInv, CodesLeft, Forming
  <1>2. CASE SysReboot
    BY <1>2, ResetCode DEF SysReboot
  <1>3. CASE AtThread /\ ~StartNetwork /\ ~SysReboot
    <2>1. UNCHANGED <<zb_todo, stack, net_role, sigs>> /\ at_pc' # "run_wait"
      BY <1>3 DEF AtThread, TakeLine, StartRefused, StartDeferred, DeferToNextBoot, RunOpDone,
                  WaitTimesOut, RunOpTimeout, LeaveCmd, LeaveTest, LeaveBegin, LeaveDone,
                  LeaveTimeout, ClearRole, ClearFlashRole, Wipe, AnswerOkAndReboot,
                  PrintResult, Goto, Answer, zbv
    <2> QED BY <2>1 DEF CodeInv, CodesLeft, Forming
  <1> QED BY <1>1, <1>2, <1>3

LEMMA NextCode ==
  ASSUME TypeInv, NothingBeforeStart, Handshake, OwnRole, CodeInv, [Next]_vars PROVE CodeInv'
  <1>1. CASE RebootWork \/ PowerLoss
    BY <1>1, ResetCode DEF RebootWork, PowerLoss
  <1>2. CASE ZbcInit
    BY <1>2 DEF ZbcInit, StartRecorded, NothingBeforeStart, atv, opv, CodeInv, CodesLeft, Forming
  <1>3. CASE DeletePend \/ InjectLine \/ UNCHANGED vars \/ (\E c \in Cmds : HostTypes(c))
    BY <1>3 DEF DeletePend, InjectLine, HostTypes, vars, opv, atv, zbv, CodeInv, CodesLeft, Forming
  <1>4. CASE ZbossStack
    <2>1. UNCHANGED <<at_pc, opv, zb_todo, net_role>>
      BY <1>4 DEF ZbossStack, StackStarts, NetworkFormed, SteeringEnds, KeyExchangeFails,
                  RemovedByPeer, AskedToRejoin, ParentLost, LocalReset, Raise, atv
    <2>2. Forming' => net_role' = "ZC"
      BY <1>4, <2>1, StackNoForming DEF CodeInv, Forming, NoForming
    <2> QED BY <2>1, <2>2 DEF CodeInv, CodesLeft, opv
  <1> QED BY <1>1, <1>2, <1>3, <1>4, AtCode, HandlerCode, JobCode DEF Next, ZbossThread, MainThread

LEMMA NextOk ==
  ASSUME TypeInv, NothingBeforeStart, StartedHasRole, OkInv, [Next]_vars PROVE OkInv'
  <1> USE DEF OkInv
  <1>1. CASE RebootWork \/ PowerLoss \/ SysReboot
    BY <1>1 DEF RebootWork, PowerLoss, SysReboot, Reset
  <1>2. CASE MainThread \/ UNCHANGED vars \/ (\E c \in Cmds : HostTypes(c))
    BY <1>2 DEF MainThread, ZbcInit, DeletePend, InjectLine, HostTypes, vars, atv, OkInTodo,
                NothingBeforeStart
  <1>3. CASE StartNetwork
    BY <1>3 DEF StartNetwork, MustDefer, NothingBeforeStart, OkInTodo
  <1>4. CASE AtThread /\ ~StartNetwork /\ ~SysReboot
    BY <1>4 DEF AtThread, TakeLine, StartRefused, StartDeferred, DeferToNextBoot, RunOpDone,
                WaitTimesOut, RunOpTimeout, LeaveCmd, LeaveTest, LeaveBegin, LeaveDone,
                LeaveTimeout, ClearRole, ClearFlashRole, Wipe, AnswerOkAndReboot,
                PrintResult, Goto, Answer
  <1>5. CASE SignalHandler
    <2>1. net_role # "NONE"
      BY <1>5 DEF SignalHandler, OnFirstStart, OnDeviceReboot, OnFormation, OnSteering, OnLeave,
                  On, NothingBeforeStart, StartedHasRole
    <2> QED BY <1>5, <2>1, HandlerOkInTodo
  <1>6. CASE FlushRole \/ FinishOp \/ ScheduleReboot
    <2>1. /\ zb_todo # <<>> /\ zb_todo' = Tail(zb_todo) /\ zb_todo \in Seq(Jobs)
          /\ UNCHANGED <<at_pc, stored_role>>
      BY <1>6 DEF FlushRole, FinishOp, ScheduleReboot, NextJob, atv, TypeInv, TypeOK
    <2>2. \A i \in 1..Len(zb_todo') : zb_todo'[i] = zb_todo[i + 1] /\ i + 1 \in 1..Len(zb_todo)
      BY <2>1
    <2> QED BY <2>1, <2>2 DEF OkInTodo
  <1>7. CASE ZbossStack
    BY <1>7 DEF ZbossStack, StackStarts, NetworkFormed, SteeringEnds, KeyExchangeFails,
                RemovedByPeer, AskedToRejoin, ParentLost, LocalReset, Raise, atv, OkInTodo
  <1> QED BY <1>1, <1>2, <1>3, <1>4, <1>5, <1>6, <1>7 DEF Next, ZbossThread

PromiseInv ==
  /\ TypeInv /\ NothingBeforeStart /\ RolesAgree /\ CmdInv
  /\ Handshake /\ OpHasWaiter /\ StartedHasRole
  /\ FlashInv /\ OwnRole /\ CodeInv /\ OkInv

LEMMA PromiseInvariant == Spec => []PromiseInv
  <1>1. Init => RolesAgree /\ CmdInv
    BY DEF Init, RamInit, RolesAgree, RolesBeforeStart, RolesAfterStart, SavedRoles, CmdInv
  <1>2. Init => Handshake /\ OpHasWaiter /\ StartedHasRole
    BY DEF Init, RamInit, Handshake, CleanStart, WaitedOpAnswered, OpHasWaiter, StartedHasRole
  <1>3. Init => FlashInv /\ OwnRole /\ CodeInv /\ OkInv
    BY DEF Init, RamInit, FlashInv, TodoShape, Mirror, OwnRole, CodeInv, CodesLeft, Forming, OkInv
  <1>4. Init => NothingBeforeStart
    BY DEF Init, RamInit, NothingBeforeStart
  <1>5. PromiseInv /\ [Next]_vars => PromiseInv'
    BY NextType, NextBeforeStart, NextRoles, NextCmd, NextHandshake, NextWaiter, NextStartedRole,
       NextFlash, NextOwn, NextCode, NextOk DEF PromiseInv
  <1> QED BY <1>1, <1>2, <1>3, <1>4, <1>5, InitType, PTL DEF Spec, PromiseInv

\* The abstract step.
PromisedStep == [Promise!Next]_Promise!vars

LEMMA ResetPromise == ASSUME Reset PROVE PromisedStep
  <1>1. Promise!Reset
    BY DEF Reset, Promise!Reset, Role, Done, flash
  <1> QED BY <1>1 DEF PromisedStep, Promise!Next

LEMMA SamePromise ==
  ASSUME UNCHANGED <<flash_role, net_role, current, result>>, Role' = Role, Done' = Done
  PROVE  PromisedStep
  BY DEF PromisedStep, Promise!vars

LEMMA MainPromise == ASSUME PromiseInv, MainThread PROVE PromisedStep
  <1>1. CASE ZbcInit
    <2>1. /\ ~stack_started /\ net_role = "NONE"
          /\ UNCHANGED <<flash_role, current, result>>
      BY <1>1 DEF ZbcInit, PromiseInv, NothingBeforeStart, OwnRole, flash, atv
    <2>2. Role' = Role /\ Done' = Done
      BY <1>1 DEF ZbcInit, Role, Done, flash, atv, opv
    <2>3. CASE net_role' = net_role
      BY <2>1, <2>2, <2>3, SamePromise
    <2>4. CASE flash_role # "NONE" /\ net_role' = flash_role
      <3>1. Promise!Resume
        BY <2>1, <2>2, <2>4 DEF Promise!Resume
      <3> QED BY <3>1 DEF PromisedStep, Promise!Next
    <2> QED BY <1>1, <2>3, <2>4 DEF ZbcInit, StartRecorded
  <1>2. CASE DeletePend \/ InjectLine
    BY <1>2, SamePromise DEF DeletePend, InjectLine, flash, opv, atv, zbv, Role, Done
  <1> QED BY <1>1, <1>2 DEF MainThread

LEMMA StackPromise == ASSUME ZbossStack \/ (\E c \in Cmds : HostTypes(c)) PROVE PromisedStep
  <1>1. UNCHANGED <<flash_role, net_role, current, result, main_pc, stored_role, at_pc, opv>>
    BY DEF ZbossStack, StackStarts, NetworkFormed, SteeringEnds, KeyExchangeFails,
           RemovedByPeer, AskedToRejoin, ParentLost, LocalReset, Raise, HostTypes, flash,
           mainv, atv, zbv
  <1> QED BY <1>1, SamePromise DEF Role, Done, opv

LEMMA AtPromise == ASSUME PromiseInv, AtThread PROVE PromisedStep
  <1> DEFINE ram == main_pc # "init" /\ main_pc' = main_pc
  <1>0. ~TakeLine /\ ~SysReboot => ram
    BY DEF AtThread, StartRefused, StartDeferred, DeferToNextBoot, StartNetwork, StartCmd,
           RunOpDone, WaitTimesOut, RunOpTimeout, LeaveCmd, LeaveTest, LeaveBegin, LeaveDone,
           LeaveTimeout, ClearRole, ClearFlashRole, Wipe, AnswerOkAndReboot, PrintResult,
           Goto, mainv, PromiseInv, NothingBeforeStart
  <1>i. CmdInv
    BY DEF PromiseInv
  <1>1. CASE TakeLine
    <2>1. \E c \in Promise!Starts \cup Promise!Leaves \cup {"Z"} : Promise!Take(c)
      <3>1. Head(line_q) \in AllCmds
        BY <1>1 DEF TakeLine, PromiseInv, TypeInv, TypeOK
      <3>2. Promise!Take(Head(line_q))
        BY <1>1, <1>i DEF TakeLine, Goto, Promise!Take, CmdInv, flash, mainv, opv, zbv, Role, Done
      <3> QED BY <3>1, <3>2 DEF AllCmds, Promise!Starts, Promise!Leaves
    <2> QED BY <2>1 DEF PromisedStep, Promise!Next
  <1>2. CASE StartRefused
    <2>1. Promise!Refuse
      BY <1>0, <1>2, <1>i DEF StartRefused, StartCmd, Answer, Promise!Refuse, Promise!Running,
         Promise!Starts, CmdInv, flash, mainv, opv, zbv, Role, Done, TakeLine, Goto, SysReboot
    <2> QED BY <2>1 DEF PromisedStep, Promise!Next
  <1>3. CASE StartDeferred \/ DeferToNextBoot
    BY <1>3, SamePromise DEF StartDeferred, StartCmd, DeferToNextBoot, Goto, flash, mainv, zbv,
                             Role, Done
  <1>4. CASE StartNetwork
    <2>1. ~stack_started /\ net_role = "NONE" /\ at_pc = "exec" /\ ram
      BY <1>0, <1>4 DEF StartNetwork, StartCmd, MustDefer, PromiseInv, OwnRole, TakeLine, Goto,
                        SysReboot
    <2>2. flash_role = "NONE" /\ stored_role = "NONE" /\ UNCHANGED <<flash_role, stored_role>>
      BY <1>4, <2>1 DEF StartNetwork, PromiseInv, RolesAgree, RolesBeforeStart
    <2>3. Promise!Start
      BY <1>4, <1>i, <2>1, <2>2
         DEF StartNetwork, StartCmd, BeginOp, Promise!Start, Promise!Running, Promise!Starts,
             Promise!Wanted, CmdInv, Role, Done
    <2> QED BY <2>3 DEF PromisedStep, Promise!Next
  <1>5. CASE RunOpDone
    <2>1. /\ at_pc = "run_wait" /\ op_done = 1 /\ result' = op_result /\ at_pc' = "answer"
          /\ UNCHANGED <<flash_role, stored_role, net_role, current, main_pc>>
      BY <1>5 DEF RunOpDone, TakeDone, Answer, flash, zbv, mainv
    <2>2. /\ result = "none" /\ current \in {"EN", "JN"}
          /\ net_role \in Promise!Wanted(current) /\ op_result \in Codes(net_role)
      BY <1>i, <2>1 DEF CmdInv, PromiseInv, OwnRole, CodeInv
    <2>3. Role' = Role /\ Done' = FALSE /\ (Done <=> op_result = "OK")
      BY <2>1 DEF Role, Done
    <2>4. CASE op_result = "OK"
      <3>1. Promise!Succeed
        BY <2>1, <2>2, <2>3, <2>4 DEF Promise!Succeed, Promise!Running
      <3> QED BY <3>1 DEF PromisedStep, Promise!Next
    <2>5. CASE op_result # "OK"
      <3>1. op_result \in IF current = "EN" THEN {"CANNOT_FORM"} ELSE {"CANNOT_JOIN", "NO_NETWORK"}
        BY <2>2, <2>5, WantedRoles DEF Codes
      <3>2. Done' = Done
        BY <2>3, <2>5, Zenon DEF Done
      <3>3. Promise!Fail
        BY <2>1, <2>2, <2>3, <2>5, <3>1, <3>2 DEF Promise!Fail, Promise!Running, Promise!Starts
      <3> QED BY <3>3 DEF PromisedStep, Promise!Next
    <2> QED BY <2>4, <2>5
  <1>6. CASE RunOpTimeout
    <2>1. /\ at_pc = "run_timeout" /\ at_pc' = "answer"
          /\ result' = IF current = "EN" THEN "CANNOT_FORM" ELSE "NO_NETWORK"
          /\ UNCHANGED <<flash_role, stored_role, net_role, current, main_pc>>
      BY <1>6 DEF RunOpTimeout, Answer, flash, zbv, mainv
    <2>2. /\ result = "none" /\ current \in {"EN", "JN"}
          /\ net_role \in Promise!Wanted(current)
      BY <1>i, <2>1 DEF CmdInv, PromiseInv, OwnRole
    <2>3. Promise!Fail
      BY <2>1, <2>2 DEF Promise!Fail, Promise!Running, Promise!Starts, Role, Done
    <2> QED BY <2>3 DEF PromisedStep, Promise!Next
  <1>7. CASE WaitTimesOut \/ LeaveTest \/ LeaveBegin \/ LeaveDone \/ LeaveTimeout
    BY <1>7, SamePromise DEF WaitTimesOut, LeaveTest, LeaveBegin, LeaveDone, LeaveTimeout, Goto,
                             flash, mainv, opv, zbv, Role, Done
  <1>8. CASE LeaveCmd
    <2>1. /\ at_pc = "exec" /\ current \in {"DASSL", "F"} /\ result = "none" /\ ram
          /\ UNCHANGED <<flash_role, stored_role, net_role, current>>
      BY <1>0, <1>8, <1>i DEF LeaveCmd, CmdInv, TakeLine, SysReboot, Goto, flash, zbv
    <2>2. Role = stored_role /\ Role' = Role /\ Done = FALSE
      BY <2>1 DEF Role, Done
    <2>3. CASE at_pc' = "leave" /\ result' = result
      <3>1. Done' = FALSE
        BY <2>3 DEF Done
      <3> QED BY <2>1, <2>2, <2>3, <3>1, SamePromise
    <2>4. CASE stored_role = "NONE" /\ current = "DASSL" /\ Answer("NOT_JOINED")
      <3>1. Promise!Refuse
        BY <2>1, <2>2, <2>4 DEF Answer, Promise!Refuse, Promise!Running, Done
      <3> QED BY <3>1 DEF PromisedStep, Promise!Next
    <2>5. CASE stored_role = "NONE" /\ current = "F" /\ at_pc' = "wipe" /\ result' = result
      <3>1. Promise!Left
        BY <2>1, <2>2, <2>5 DEF Promise!Left, Promise!Running, Promise!Leaves, Done
      <3> QED BY <3>1 DEF PromisedStep, Promise!Next
    <2> QED BY <1>8, <2>3, <2>4, <2>5 DEF LeaveCmd
  <1>9. CASE ClearRole
    <2>1. Promise!Forget
      BY <1>0, <1>9, <1>i DEF ClearRole, Goto, Promise!Forget, Promise!Leaves, CmdInv, TakeLine,
         SysReboot, flash, mainv, opv, zbv, Role, Done
    <2> QED BY <2>1 DEF PromisedStep, Promise!Next
  <1>10. CASE ClearFlashRole
    <2>1. Promise!Left
      BY <1>0, <1>10, <1>i DEF ClearFlashRole, Promise!Left, Promise!Running, Promise!Leaves,
         CmdInv, TakeLine, Goto, SysReboot, mainv, opv, zbv, Role, Done
    <2> QED BY <2>1 DEF PromisedStep, Promise!Next
  <1>11. CASE Wipe
    BY <1>11, <1>i, SamePromise DEF Wipe, Goto, CmdInv, mainv, opv, zbv, Role, Done
  <1>12. CASE AnswerOkAndReboot
    <2>1. Promise!Succeed
      BY <1>12, <1>i DEF AnswerOkAndReboot, Goto, Promise!Succeed, Promise!Running, CmdInv,
         flash, mainv, opv, zbv, Role, Done
    <2> QED BY <2>1 DEF PromisedStep, Promise!Next
  <1>13. CASE PrintResult
    <2>1. Promise!End
      BY <1>13, <1>i DEF PrintResult, Goto, Promise!End, Promise!Starts, CmdInv,
         flash, mainv, opv, zbv, Role, Done
    <2> QED BY <2>1 DEF PromisedStep, Promise!Next
  <1>14. CASE SysReboot
    BY <1>14, ResetPromise DEF SysReboot
  <1> QED BY <1>1, <1>2, <1>3, <1>4, <1>5, <1>6, <1>7, <1>8, <1>9, <1>10, <1>11, <1>12, <1>13,
             <1>14 DEF AtThread

LEMMA HandlerPromise == ASSUME PromiseInv, SignalHandler PROVE PromisedStep
  <1>1. /\ stack_started /\ main_pc # "init" /\ net_role # "NONE"
        /\ UNCHANGED <<flash_role, net_role, current, result, main_pc, at_pc>>
    BY DEF SignalHandler, OnFirstStart, OnDeviceReboot, OnFormation, OnSteering, OnLeave, On,
           UnchangedByHandlers, flash, mainv, atv, PromiseInv, NothingBeforeStart, StartedHasRole
  <1>2. stored_role' \in {"NONE", net_role, stored_role} /\ stored_role \in {"NONE", net_role}
    BY <1>1 DEF SignalHandler, OnFirstStart, OnDeviceReboot, OnFormation, OnSteering, OnLeave,
           Removed, RoleSave, NetworkUp, PromiseInv, RolesAgree, RolesAfterStart
  <1>3. Done' = Done
    <2>1. \/ UNCHANGED opv
          \/ op = "NONE" /\ UNCHANGED opv
          \/ op \in {"FORM", "JOIN"} /\ op_result' # "OK"
          \/ op \in {"LEAVE", "FACTORY"}
      BY DEF SignalHandler, OnFirstStart, OnDeviceReboot, OnFormation, OnSteering, OnLeave,
             Complete, opv, PromiseInv, TypeInv, TypeOK, Ops
    <2>2. op # "NONE" => op_done = 0
      BY DEF PromiseInv, Handshake, CleanStart
    <2>3. op \in {"LEAVE", "FACTORY"} => at_pc # "run_wait"
      BY DEF PromiseInv, OpHasWaiter
    <2> QED BY <1>1, <2>1, <2>2, <2>3 DEF Done, opv
  <1>4. Role = stored_role /\ Role' = stored_role'
    BY <1>1 DEF Role
  <1>5. CASE stored_role' = stored_role
    BY <1>1, <1>3, <1>4, <1>5, SamePromise
  <1>6. CASE stored_role' = "NONE"
    <2>1. Promise!Forget
      BY <1>1, <1>3, <1>4, <1>6 DEF Promise!Forget
    <2> QED BY <2>1 DEF PromisedStep, Promise!Next
  <1>7. CASE stored_role = "NONE" /\ stored_role' = net_role
    <2>1. Promise!Record
      BY <1>1, <1>3, <1>4, <1>7 DEF Promise!Record
    <2> QED BY <2>1 DEF PromisedStep, Promise!Next
  <1> QED BY <1>2, <1>5, <1>6, <1>7

LEMMA JobPromise == ASSUME PromiseInv, FlushRole \/ FinishOp \/ ScheduleReboot PROVE PromisedStep
  <1>1. /\ zb_todo # <<>> /\ zb_todo \in Seq(Jobs) /\ main_pc # "init" /\ stack_started
        /\ UNCHANGED <<net_role, current, result, main_pc, at_pc, stored_role>>
    BY DEF FlushRole, FinishOp, ScheduleReboot, NextJob, flash, mainv, atv, zbv, PromiseInv,
           NothingBeforeStart, TypeInv, TypeOK
  <1>2. Head(zb_todo) = zb_todo[1] /\ 1 \in 1..Len(zb_todo)
    BY <1>1
  <1>3. Role = stored_role /\ Role' = stored_role
    BY <1>1 DEF Role
  <1>4. CASE FlushRole
    <2>1. Head(zb_todo).do = "save" /\ flash_role' = Head(zb_todo).arg /\ Done' = Done
      BY <1>1, <1>4 DEF FlushRole, NextJob, Done, opv
    <2>2. flash_role' \in {"NONE", net_role}
      BY <1>2, <2>1 DEF PromiseInv, RolesAgree, SavedRoles
    <2>3. Leaving \/ flash_role' = stored_role
      BY <1>1, <2>1 DEF PromiseInv, FlashInv, Mirror, SaveNext
    <2>4. Promise!Save
      BY <1>1, <1>3, <2>1, <2>2, <2>3 DEF Promise!Save, Promise!Leaves, Leaving
    <2> QED BY <2>4 DEF PromisedStep, Promise!Next
  <1>5. CASE FinishOp
    <2>1. Head(zb_todo).do = "complete" /\ Complete(Head(zb_todo).arg) /\ UNCHANGED flash_role
      BY <1>5 DEF FinishOp, NextJob, flash
    <2>2. op # "NONE" => op_done = 0
      BY DEF PromiseInv, Handshake, CleanStart
    <2>3. CASE op # "NONE" /\ at_pc = "run_wait" /\ Head(zb_todo).arg = "OK"
      <3>1. Head(zb_todo) \in Jobs
        BY <1>1
      <3>2. Head(zb_todo) = Completion("OK")
        BY <2>1, <2>3, <3>1 DEF Jobs, Save, Completion, Restart
      <3>3. stored_role # "NONE"
        BY <1>2, <2>3, <3>2 DEF PromiseInv, OkInv, OkInTodo
      <3>4. stored_role = net_role /\ net_role \in Promise!Wanted(current)
        BY <1>1, <2>3, <3>3 DEF PromiseInv, RolesAgree, RolesAfterStart, OwnRole
      <3>5. flash_role = stored_role
        BY <1>1, <2>1, <2>3 DEF PromiseInv, FlashInv, Mirror, SaveNext, Leaving
      <3>6. current \in {"EN", "JN"} /\ result = "none"
        BY <2>3 DEF PromiseInv, CmdInv
      <3>7. Done'
        BY <1>1, <2>1, <2>3 DEF Done, Complete
      <3>8. Promise!Joined
        BY <1>1, <1>3, <2>1, <3>4, <3>5, <3>6, <3>7
           DEF Promise!Joined, Promise!Running, Promise!Starts, Done
      <3> QED BY <3>8 DEF PromisedStep, Promise!Next
    <2>4. CASE ~(op # "NONE" /\ at_pc = "run_wait" /\ Head(zb_todo).arg = "OK")
      <3>1. Done' = Done
        BY <1>1, <2>1, <2>2, <2>4 DEF Done, Complete, opv
      <3> QED BY <1>1, <1>3, <2>1, <3>1, SamePromise
    <2> QED BY <2>3, <2>4
  <1>6. CASE ScheduleReboot
    BY <1>1, <1>3, <1>6, SamePromise DEF ScheduleReboot, flash, opv, Done
  <1> QED BY <1>4, <1>5, <1>6

\* The commands keep the promise of Membership: ZbCore implements it, for every set of
\* roles and commands and every bound, whatever ZBOSS does and wherever the power fails.
THEOREM MembershipKeptHolds == Spec => MembershipKept
  <1>1. Init => Promise!Init
    BY DEF Init, RamInit, Promise!Init, Role, Done
  <1>2. PromiseInv /\ [Next]_vars => PromisedStep
    <2> SUFFICES ASSUME PromiseInv, [Next]_vars PROVE PromisedStep
      OBVIOUS
    <2>1. CASE RebootWork \/ PowerLoss
      BY <2>1, ResetPromise DEF RebootWork, PowerLoss
    <2>2. CASE UNCHANGED vars
      BY <2>2, SamePromise DEF vars, flash, mainv, opv, atv, zbv, Role, Done
    <2> QED BY <2>1, <2>2, MainPromise, AtPromise, HandlerPromise, JobPromise, StackPromise
            DEF Next, ZbossThread
  <1> QED BY <1>1, <1>2, PromiseInvariant, PTL DEF Spec, MembershipKept, Promise!Spec, PromisedStep
=============================================================================
