------------------------------ MODULE MCUartTx ------------------------------
(* A ring of three bytes.  A line of the AT thread is longer than the ring and comes in *)
(* three tx_write calls; the echo of the RX thread and a prompt of ZBOSS are one call.  *)
EXTENDS UartTx, TLC

MCLineLen == "at" :> 4 @@ "rx" :> 1 @@ "zboss" :> 2
MCCallEnd == [w \in Writers |-> [k \in 0..LineLen[w] - 1 |->
                IF w = "at" THEN <<1, 3, 3, 4>>[k + 1] ELSE LineLen[w]]]
=============================================================================
