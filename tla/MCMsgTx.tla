------------------------------ MODULE MCMsgTx ------------------------------
\* An instance with two slots, two unicasts in flight and three unicasts to send.
EXTENDS MsgTx

MCShown == {"SEQ", "ACK", "NACK"}
=============================================================================
