------------------------------ MODULE Delivery ------------------------------
(***************************************************************************)
(* What UCAST and SENDUCAST promise to the host of src/app/src/zb_msg.c.   *)
(* A unicast is refused, with ERROR and nothing else, or it is on its way, *)
(* with at most Limit others, and then it is answered with its number and  *)
(* OK, and reported once, as received or not; the report may come before   *)
(* the answer.  One command at a time.                                     *)
(***************************************************************************)
EXTENDS Naturals, Sequences, FiniteSets

CONSTANTS
    Unicasts,     \* their numbers, in the order of the commands
    Limit,        \* unicasts on their way at a time
    MaySuppress   \* may S0E or S10 keep prompts from the host?

VARIABLES fate, told

vars == <<fate, told>>

Heard(n) == {told[n][k] : k \in 1..Len(told[n])}
Answered(n) == Heard(n) \cap {"OK", "ERROR"} # {}

Hear(n, what) == told' = [told EXCEPT ![n] = Append(@, what)]
Becomes(n, from, to) == fate[n] = from /\ fate' = [fate EXCEPT ![n] = to]

Init ==
    /\ fate = [n \in Unicasts |-> "new"]
    /\ told = [n \in Unicasts |-> <<>>]

\* A command is the next one, once the others have been answered.
Ask(n) ==
    /\ \A m \in Unicasts : m < n => Answered(m)
    /\ Becomes(n, "new", "asked") /\ UNCHANGED told

Refuse(n) == Becomes(n, "asked", "refused") /\ UNCHANGED told

Admit(n) ==
    /\ Cardinality({m \in Unicasts : fate[m] = "on its way"}) < Limit
    /\ Becomes(n, "asked", "on its way") /\ UNCHANGED told

\* Its end is known: acknowledged, not acknowledged, or the send failed.
End(n) == Becomes(n, "on its way", "ended") /\ UNCHANGED told

Report(n) ==
    /\ Becomes(n, "ended", "reported")
    /\ \/ Hear(n, "ACK") \/ Hear(n, "NACK")
       \/ MaySuppress /\ UNCHANGED told

AnswerSeq(n) ==
    /\ fate[n] \in {"on its way", "ended", "reported"}
    /\ "SEQ" \notin Heard(n) /\ ~Answered(n)
    /\ Hear(n, "SEQ") /\ UNCHANGED fate

AnswerOk(n) ==
    /\ fate[n] \in {"on its way", "ended", "reported"}
    /\ "SEQ" \in Heard(n) \/ MaySuppress
    /\ ~Answered(n) /\ Hear(n, "OK") /\ UNCHANGED fate

AnswerError(n) == fate[n] = "refused" /\ ~Answered(n) /\ Hear(n, "ERROR") /\ UNCHANGED fate

Next == \E n \in Unicasts :
    Ask(n) \/ Refuse(n) \/ Admit(n) \/ End(n) \/ Report(n) \/ AnswerSeq(n) \/ AnswerOk(n) \/ AnswerError(n)

Spec == Init /\ [][Next]_vars
=============================================================================
