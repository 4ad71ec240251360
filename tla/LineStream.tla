----------------------------- MODULE LineStream -----------------------------
(***************************************************************************)
(* What at_print and at_print_parts promise to the rest of the firmware:   *)
(* a line is printed at once, whichever thread prints it, and the bytes    *)
(* leave the UART in the order of the lines, none lost and none twice.     *)
(***************************************************************************)
EXTENDS Naturals, Sequences

CONSTANTS
    Writers,   \* the threads that print
    LineLen,   \* the length of a writer's lines
    MaxLines   \* bound: lines per writer

VARIABLES
    printed,   \* lines each writer has printed
    todo,      \* bytes that have not left yet
    out        \* bytes that have left, in order

vars == <<printed, todo, out>>

\* The n-th line of writer w; a byte is known by its line and its place in it.
Line(w, n) == [k \in 1..LineLen[w] |-> <<w, n, k>>]

Init == printed = [w \in Writers |-> 0] /\ todo = <<>> /\ out = <<>>

PrintLine(w) ==
    /\ printed[w] < MaxLines
    /\ printed' = [printed EXCEPT ![w] = @ + 1]
    /\ todo' = todo \o Line(w, printed[w] + 1)
    /\ UNCHANGED out

Transmit(n) ==
    /\ out' = out \o SubSeq(todo, 1, n)
    /\ todo' = SubSeq(todo, n + 1, Len(todo))
    /\ UNCHANGED printed

Next == (\E w \in Writers : PrintLine(w)) \/ (\E n \in 1..Len(todo) : Transmit(n))

Spec == Init /\ [][Next]_vars
=============================================================================
