---------------------------- MODULE Membership ----------------------------
(***************************************************************************)
(* What the commands of src/app/src/zb_core.c promise about the node's     *)
(* network: one command at a time; in one boot the node acts in one role   *)
(* only; it records a network it is in, and takes itself to be in what it  *)
(* has recorded; a reset finds what was saved; and answers are true.  OK   *)
(* to a start says that a network of the role asked for was recorded and   *)
(* saved while the command ran, OK to a leave that it was deleted.         *)
(***************************************************************************)
CONSTANT JoinRoles   \* the roles AT+JN and AT+JPAN can ask for

VARIABLES
    role,      \* of the network the node takes itself to be in, or "NONE"
    saved,     \* the role that outlives a reset
    started,   \* the role the stack was started in since the last reset, or "NONE"
    cmd,       \* the command in hand, or "none"
    made,      \* what it asks for was done
    answer     \* its answer, or "none"

vars == <<role, saved, started, cmd, made, answer>>

Starts == {"EN", "JN"}
Leaves == {"DASSL", "F"}
Wanted(c) == IF c = "EN" THEN {"ZC"} ELSE JoinRoles
Running == cmd # "none" /\ answer = "none"

Init ==
    /\ role = "NONE" /\ saved = "NONE" /\ started = "NONE"
    /\ cmd = "none" /\ made = FALSE /\ answer = "none"

-----------------------------------------------------------------------------
(* The node: what it is in and what it saves.                              *)

\* It goes on with the network it has saved.
Resume ==
    /\ started = "NONE" /\ saved # "NONE" /\ started' = saved
    /\ UNCHANGED <<role, saved, cmd, made, answer>>

Record ==
    /\ role = "NONE" /\ started # "NONE" /\ role' = started
    /\ UNCHANGED <<saved, started, cmd, made, answer>>

\* Removed, failed, or asked to leave.
Forget ==
    /\ started # "NONE" \/ cmd \in Leaves
    /\ role' = "NONE"
    /\ UNCHANGED <<saved, started, cmd, made, answer>>

\* While the node leaves, a record that was on its way may still be saved.
Save ==
    /\ saved' = role \/ (cmd \in Leaves /\ saved' \in {"NONE", started})
    /\ UNCHANGED <<role, started, cmd, made, answer>>

\* At any time, for a command or by itself.
Reset ==
    /\ role' = saved /\ started' = "NONE"
    /\ cmd' = "none" /\ made' = FALSE /\ answer' = "none"
    /\ UNCHANGED saved

-----------------------------------------------------------------------------
(* The commands.  A start that needs a fresh stack has no answer but a reset. *)

Take(c) == cmd = "none" /\ cmd' = c /\ UNCHANGED <<role, saved, started, made, answer>>

Refuse ==
    /\ Running
    /\ \/ cmd \in Starts /\ role # "NONE" /\ answer' = "IN_PAN"
       \/ cmd = "DASSL" /\ role = "NONE" /\ answer' = "NOT_JOINED"
    /\ UNCHANGED <<role, saved, started, cmd, made>>

Start ==
    /\ Running /\ cmd \in Starts
    /\ role = "NONE" /\ saved = "NONE" /\ started = "NONE"
    /\ started' \in Wanted(cmd)
    /\ UNCHANGED <<role, saved, cmd, made, answer>>

Joined ==
    /\ Running /\ cmd \in Starts
    /\ role \in Wanted(cmd) /\ saved = role
    /\ made' = TRUE
    /\ UNCHANGED <<role, saved, started, cmd, answer>>

Left ==
    /\ Running /\ cmd \in Leaves
    /\ saved' = "NONE" \/ (cmd = "F" /\ role = "NONE" /\ saved' = saved)
    /\ made' = TRUE
    /\ UNCHANGED <<role, started, cmd, answer>>

Succeed ==
    /\ Running /\ (made \/ cmd = "Z")
    /\ made' = FALSE /\ answer' = "OK"
    /\ UNCHANGED <<role, saved, started, cmd>>

Fail ==
    /\ Running /\ cmd \in Starts /\ started \in Wanted(cmd) /\ ~made
    /\ answer' \in IF cmd = "EN" THEN {"CANNOT_FORM"} ELSE {"CANNOT_JOIN", "NO_NETWORK"}
    /\ UNCHANGED <<role, saved, started, cmd, made>>

\* What has left, or was asked to reset, takes no other command before the reset.
End ==
    /\ answer # "none" /\ (answer = "OK" => cmd \in Starts)
    /\ cmd' = "none" /\ answer' = "none"
    /\ UNCHANGED <<role, saved, started, made>>

Next ==
    \/ Resume \/ Record \/ Forget \/ Save \/ Reset
    \/ \E c \in Starts \cup Leaves \cup {"Z"} : Take(c)
    \/ Refuse \/ Start \/ Joined \/ Left \/ Succeed \/ Fail \/ End

Spec == Init /\ [][Next]_vars
=============================================================================
