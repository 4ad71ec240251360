------------------------------ MODULE MCUartRx ------------------------------
\* An instance with three blocks of two bytes and a queue of three reports.
EXTENDS UartRx
=============================================================================
