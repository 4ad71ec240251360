-------------------------------- MODULE Sreg --------------------------------
(***************************************************************************)
(* The S-registers of src/app/src/sreg.c: the table regs[] in RAM, the     *)
(* settings "at/s/XX" in flash, writes, the factory reset and the boot.    *)
(*                                                                         *)
(* A value is the set of its bits.  The AT thread alone writes, but other  *)
(* threads read while it does: strcpy replaces a value digit by digit, the *)
(* high digits first, and the flash write after it takes time.  A setting  *)
(* is written or deleted whole, whenever the power fails.                  *)
(***************************************************************************)
EXTENDS Integers, Sequences

CONSTANTS
    Table,      \* regs[], in its order
    Persisted,  \* F_NV
    Protected,  \* F_PW
    Volatile,   \* S40, S42, S44 ...
    CopyOf,     \* ... and the register each of them starts from
    Numeric,    \* T_U8 and T_U16: those with bits to write
    Password,   \* S0C
    UartReg,    \* S12 ...
    EchoOff,    \* ... and its bit 4
    Digits,     \* the bits of each digit, the first one written first
    Values,     \* the values of each register that pass normalise
    Default

Regs == {Table[i] : i \in 1..Len(Table)}
Bits == UNION {Digits[i] : i \in 1..Len(Digits)}
RegValues == [Regs -> SUBSET Bits]

ASSUME TableAssumption ==
    /\ Table \in Seq(STRING) /\ Digits \in Seq(SUBSET Nat)
    /\ \A i, j \in 1..Len(Table) : Table[i] = Table[j] => i = j
ASSUME FlagsAssumption ==
    /\ Persisted \subseteq Regs /\ Protected \subseteq Persisted
    /\ Volatile \subseteq Regs \ Persisted /\ CopyOf \in [Volatile -> Persisted]
    /\ Password \in Protected /\ UartReg \in Persisted /\ Numeric \subseteq Regs
ASSUME ValuesAssumption ==
    /\ Values \in [Regs -> SUBSET SUBSET Bits]
    /\ Default \in RegValues

\* The table has the password after every other register that it protects.
ASSUME OrderAssumption ==
    \A i, j \in 1..Len(Table) : Table[i] \in Protected /\ Table[j] = Password => i <= j

VARIABLES
    val,     \* the table
    flash,   \* the settings there are
    echo,    \* rx_echo of at_uart.c
    pc,      \* the AT thread in write_reg or sreg_factory_reset
    reg, new, digit, \* the register being written, its value, the next digit
    n        \* the place in the table of the next setting to delete

sregs == <<val, flash, echo, pc, reg, new, digit, n>>

-----------------------------------------------------------------------------
(* Boot and factory reset.                                                 *)

\* init_volatile.
StartVolatile(v) == [r \in Regs |-> IF r \in Volatile THEN v[CopyOf[r]] ELSE v[r]]

\* load_defaults and load_cb.
Stored(f) == [r \in Regs |-> IF r \in DOMAIN f THEN f[r] ELSE Default[r]]
Loaded == StartVolatile(Stored(flash))
Echo(v) == EchoOff \notin v[UartReg]

\* A reset, or a failure of the power, and sreg_init.
SregInit ==
    /\ val' = Loaded /\ echo' = Echo(Loaded)
    /\ pc' = "idle" /\ reg' = Password /\ new' = {} /\ digit' = 1 /\ n' = 1
    /\ UNCHANGED flash

Init ==
    /\ flash = [r \in {} |-> {}]
    /\ val = Loaded /\ echo = Echo(Loaded)
    /\ pc = "idle" /\ reg = Password /\ new = {} /\ digit = 1 /\ n = 1

\* sreg_factory_reset begins.
FactoryReset ==
    /\ pc = "idle" /\ pc' = "delete" /\ n' = 1
    /\ UNCHANGED <<val, flash, echo, reg, new, digit>>

\* settings_delete of one register, in the order of the table.
MutLastFirst == Table[Len(Table) + 1 - n]
NextReg == Table[n]

AllDeleted == n > Len(Table)

DeleteSetting ==
    /\ pc = "delete" /\ ~AllDeleted
    /\ flash' = [r \in DOMAIN flash \ ({NextReg} \cap Persisted) |-> flash[r]]
    /\ n' = n + 1
    /\ UNCHANGED <<val, echo, pc, reg, new, digit>>

\* load_defaults and init_volatile; the answer and at_reboot follow.
LoadDefaults ==
    /\ pc = "delete" /\ AllDeleted
    /\ val' = StartVolatile(Default) /\ pc' = "reboot"
    /\ UNCHANGED <<flash, echo, reg, new, digit, n>>

-----------------------------------------------------------------------------
(* write_reg.  A refused write (ERROR for a bad value or a bad password)   *)
(* changes nothing and is no step.                                         *)

MayWrite(r, pw) == r \in Protected => pw = val[Password]

\* normalise; a register that is read-only has no values.
Normal(r, v) == v \in Values[r]

Begin(r, v) ==
    /\ pc = "idle" /\ Normal(r, v)
    /\ pc' = "copy" /\ reg' = r /\ new' = v /\ digit' = 1
    /\ UNCHANGED <<val, flash, echo, n>>

Write(r, v, pw) == MayWrite(r, pw) /\ Begin(r, v)

WriteBit(r, b, on, pw) ==
    /\ MayWrite(r, pw) /\ r \in Numeric
    /\ Begin(r, IF on THEN val[r] \cup {b} ELSE val[r] \ {b})

\* strcpy, one digit.
CopyDigit ==
    /\ pc = "copy" /\ digit <= Len(Digits)
    /\ val' = [val EXCEPT ![reg] = (@ \ Digits[digit]) \cup (new \cap Digits[digit])]
    /\ digit' = digit + 1
    /\ UNCHANGED <<flash, echo, pc, reg, new, n>>

\* persist and apply_side_effects.
MutCopiedEarly == pc = "copy" /\ digit >= Len(Digits)
Copied == pc = "copy" /\ digit > Len(Digits)

MutSaveUnlessDefault(v) ==
    IF v = Default[reg] THEN flash
    ELSE [r \in DOMAIN flash \cup ({reg} \cap Persisted) |-> IF r = reg THEN v ELSE flash[r]]
Saved(v) == [r \in DOMAIN flash \cup ({reg} \cap Persisted) |-> IF r = reg THEN v ELSE flash[r]]

Persist ==
    /\ Copied
    /\ flash' = Saved(val[reg])
    /\ echo' = IF reg = UartReg THEN Echo(val) ELSE echo
    /\ pc' = "written"
    /\ UNCHANGED <<val, reg, new, digit, n>>

\* sreg_written, of zb_core.c, and the answer OK.
Answer ==
    /\ pc = "written"
    /\ pc' = "idle" /\ reg' = Password /\ new' = {} /\ digit' = 1
    /\ UNCHANGED <<val, flash, echo, n>>

-----------------------------------------------------------------------------

Commands ==
    \/ \E r \in Regs : \E v \in Values[r], pw \in Values[Password] : Write(r, v, pw)
    \/ \E r \in Regs, b \in Bits, on \in BOOLEAN : \E pw \in Values[Password] :
            WriteBit(r, b, on, pw)

Quiet == CopyDigit \/ Persist \/ DeleteSetting \/ LoadDefaults

Next == Commands \/ Quiet \/ Answer \/ FactoryReset \/ SregInit

Spec == Init /\ [][Next]_sregs

-----------------------------------------------------------------------------
(* Properties.                                                             *)

TypeOK ==
    /\ val \in RegValues /\ echo \in BOOLEAN
    /\ DOMAIN flash \subseteq Persisted
    /\ flash \in [DOMAIN flash -> SUBSET Bits]
    /\ pc \in {"idle", "copy", "written", "delete", "reboot"}
    /\ reg \in Regs /\ new \subseteq Bits
    /\ digit \in 1..Len(Digits) + 1 /\ n \in 1..Len(Table) + 1

\* What was answered OK outlives a reset at any moment after it, and a reset during a
\* write loses no other register: a written value (write_reg), and the defaults after AT&F
\* (sreg_factory_reset).  The echo is as S12 says.
Durable ==
    /\ pc \in {"idle", "copy", "written", "reboot"} =>
        \A r \in Persisted : (pc = "copy" /\ r = reg) \/ Stored(flash)[r] = val[r]
    /\ pc \in {"idle", "written"} => echo = Echo(val)

\* What a reset finds is never a mixture of an old value and a new one: a setting changes
\* to the value that was typed, or to its default (persist after strcpy).
SavedAsTyped ==
    [][\A r \in Persisted :
        \/ Stored(flash')[r] = Stored(flash)[r]
        \/ r = reg /\ Stored(flash')[r] = new
        \/ Stored(flash')[r] = Default[r]]_sregs

\* A factory reset that the power interrupts never leaves the keys and the main function
\* as they were with the default password in force (the order of regs[]).
PasswordFallsLast ==
    [][(Password \in DOMAIN flash \ DOMAIN flash') => DOMAIN flash' \cap Protected = {}]_sregs
=============================================================================
