---------------------------- MODULE MCHostLink -----------------------------
(* A program with one thread and a listener that sends commands too.       *)
EXTENDS HostLink

MCCallers == {"main"}
MCOps == [t \in MCCallers \cup {"ev"} |->
             IF t = "ev" THEN {"read"} ELSE {"read", "bin", "ready", "reset"}]
MCUnasked == {"JPAN"}
=============================================================================
