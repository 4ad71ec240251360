------------------------------- MODULE MCSreg -------------------------------
(* Six registers of the table, in its order: the key S09, the main function S0A, the *)
(* password, the UART, and a volatile register beside the one it starts from.  Values  *)
(* have bits in two digits.                                                            *)
EXTENDS Sreg, TLC

MCTable == <<"S09", "S0A", "S0C", "S12", "S42", "S43">>
MCCopyOf == "S42" :> "S43"
MCDigits == <<{4}, {0}>>
MCValues ==
    [r \in Regs |-> IF r \in {"S09", "S0C"} THEN {{}, {0, 4}}
                    ELSE IF r = "S12" THEN {{}, {4}} ELSE SUBSET {0, 4}]
MCDefault == [r \in Regs |-> IF r = "S43" THEN {0} ELSE {}]
=============================================================================
