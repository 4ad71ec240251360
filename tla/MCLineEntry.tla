---------------------------- MODULE MCLineEntry ----------------------------
\* An instance with lines of two keys, a queue of two lines and entries of one or two bytes.
EXTENDS LineEntry
=============================================================================
