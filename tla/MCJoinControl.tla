--------------------------- MODULE MCJoinControl ---------------------------
(* S0A with its bits 5 and 0 in two digits, and the two registers without which the     *)
(* table is none: the password and S12.                                                 *)
EXTENDS JoinControl, TLC

MCTable == <<"S0A", "S0C", "S12">>
MCCopyOf == [r \in {} |-> "S0A"]
MCDigits == <<{5}, {0}>>
MCValues == [r \in Regs |-> IF r = "S0A" THEN SUBSET {0, 5}
                             ELSE IF r = "S0C" THEN {{}} ELSE {}]
MCDefault == [r \in Regs |-> {}]
=============================================================================
