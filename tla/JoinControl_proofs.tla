------------------------- MODULE JoinControl_proofs -------------------------
(***************************************************************************)
(* Proofs about Sreg and, over it, about JoinControl, for every table,     *)
(* order of digits, set of values and bound.                               *)
(*                                                                         *)
(* The inductive invariant of Sreg adds to TypeOK and Durable how far      *)
(* strcpy and the factory reset have come.  The safety properties of       *)
(* JoinControl are inductive as they stand, with the invariant of Sreg and *)
(* the types of the queues beside them.                                    *)
(***************************************************************************)
EXTENDS JoinControl, TLAPS

-----------------------------------------------------------------------------
(* The S-registers.                                                        *)

\* The digits before the next one hold the new value.
CopyInv ==
    pc = "copy" => \A i \in 1..digit - 1 : val[reg] \cap Digits[i] = new \cap Digits[i]

\* The echo follows S12, except while that is being written.
EchoInv == pc = "copy" => reg = UartReg \/ echo = Echo(val)

\* The settings before the next one are gone.
DeleteInv == pc = "delete" => \A i \in 1..n - 1 : Table[i] \notin DOMAIN flash

IInv == TypeOK /\ Durable /\ CopyInv /\ EchoInv /\ DeleteInv

Assumptions == TableAssumption /\ FlagsAssumption /\ ValuesAssumption /\ OrderAssumption

\* All the assumptions on the constants at once.
LEMMA AssumptionsHold == Assumptions
  BY TableAssumption, FlagsAssumption, ValuesAssumption, OrderAssumption DEF Assumptions

\* What sreg_init loads is a table, with each persisted register as it is stored.
LEMMA LoadedIsStored ==
  ASSUME Assumptions, DOMAIN flash \subseteq Persisted, flash \in [DOMAIN flash -> SUBSET Bits]
  PROVE  /\ Loaded \in RegValues
         /\ \A r \in Persisted : Loaded[r] = Stored(flash)[r]
         /\ Echo(Loaded) \in BOOLEAN
  <1>1. Stored(flash) \in RegValues
    BY DEF Stored, RegValues, Assumptions, ValuesAssumption
  <1>2. \A r \in Volatile : CopyOf[r] \in Regs
    BY DEF Assumptions, FlagsAssumption
  <1>3. Loaded \in RegValues
    BY <1>1, <1>2 DEF Loaded, StartVolatile, RegValues
  <1>4. \A r \in Persisted : r \in Regs /\ r \notin Volatile
    BY DEF Assumptions, FlagsAssumption
  <1>5. \A r \in Persisted : Loaded[r] = Stored(flash)[r]
    BY <1>4 DEF Loaded, StartVolatile
  <1>6. Echo(Loaded) \in BOOLEAN
    BY DEF Echo
  <1> QED BY <1>3, <1>5, <1>6

LEMMA InitOK == Init => IInv
  <1> SUFFICES ASSUME Init PROVE IInv
    OBVIOUS
  <1> USE AssumptionsHold
  <1>1. DOMAIN flash = {} /\ flash \in [DOMAIN flash -> SUBSET Bits]
    BY DEF Init
  <1>2. /\ Loaded \in RegValues
        /\ \A r \in Persisted : Loaded[r] = Stored(flash)[r]
        /\ Echo(Loaded) \in BOOLEAN
    BY <1>1, LoadedIsStored
  <1>3. Len(Table) \in Nat /\ Len(Digits) \in Nat /\ Password \in Regs
    BY DEF Assumptions, TableAssumption, FlagsAssumption
  <1>4. 1 \in 1..Len(Digits) + 1 /\ 1 \in 1..Len(Table) + 1
    BY <1>3
  <1>5. TypeOK
    BY <1>1, <1>2, <1>3, <1>4 DEF TypeOK, Init
  <1>6. Durable
    BY <1>2 DEF Durable, Init
  <1>7. CopyInv /\ EchoInv /\ DeleteInv
    BY DEF CopyInv, EchoInv, DeleteInv, Init
  <1> QED BY <1>5, <1>6, <1>7 DEF IInv

LEMMA SregInitOK == IInv /\ SregInit => IInv'
  <1> SUFFICES ASSUME IInv, SregInit PROVE IInv'
    OBVIOUS
  <1> USE AssumptionsHold
  <1>1. /\ Loaded \in RegValues
        /\ \A r \in Persisted : Loaded[r] = Stored(flash)[r]
        /\ Echo(Loaded) \in BOOLEAN
    BY LoadedIsStored DEF IInv, TypeOK
  <1>2. Len(Table) \in Nat /\ Len(Digits) \in Nat /\ Password \in Regs
    BY DEF Assumptions, TableAssumption, FlagsAssumption
  <1>3. 1 \in 1..Len(Digits) + 1 /\ 1 \in 1..Len(Table) + 1
    BY <1>2
  <1>4. TypeOK'
    BY <1>1, <1>2, <1>3 DEF TypeOK, SregInit, IInv
  <1>5. Durable'
    BY <1>1 DEF Durable, SregInit, Stored
  <1>6. (CopyInv /\ EchoInv /\ DeleteInv)'
    BY DEF CopyInv, EchoInv, DeleteInv, SregInit
  <1> QED BY <1>4, <1>5, <1>6 DEF IInv

LEMMA FactoryResetOK == IInv /\ FactoryReset => IInv'
  <1> SUFFICES ASSUME IInv, FactoryReset PROVE IInv'
    OBVIOUS
  <1>1. Len(Table) \in Nat
    BY AssumptionsHold DEF Assumptions, TableAssumption
  <1>2. TypeOK'
    BY <1>1 DEF IInv, TypeOK, FactoryReset
  <1>3. (Durable /\ CopyInv /\ EchoInv /\ DeleteInv)'
    BY DEF Durable, CopyInv, EchoInv, DeleteInv, FactoryReset
  <1> QED BY <1>2, <1>3 DEF IInv

LEMMA DeleteSettingOK == IInv /\ DeleteSetting => IInv'
  <1> SUFFICES ASSUME IInv, DeleteSetting PROVE IInv'
    OBVIOUS
  <1>1. Len(Table) \in Nat /\ n \in 1..Len(Table) + 1 /\ n <= Len(Table)
    BY AssumptionsHold DEF Assumptions, TableAssumption, IInv, TypeOK, DeleteSetting, AllDeleted
  <1>2. DOMAIN flash' = DOMAIN flash \ ({Table[n]} \cap Persisted)
    BY DEF DeleteSetting, NextReg
  <1>3. flash' \in [DOMAIN flash' -> SUBSET Bits]
    BY <1>2 DEF DeleteSetting, NextReg, IInv, TypeOK
  <1>4. TypeOK'
    BY <1>1, <1>2, <1>3 DEF IInv, TypeOK, DeleteSetting
  <1>5. DeleteInv'
    <2> SUFFICES ASSUME NEW i \in 1..n' - 1 PROVE Table[i] \notin DOMAIN flash'
      BY DEF DeleteInv
    <2>1. n' = n + 1 /\ pc = "delete"
      BY DEF DeleteSetting
    <2>2. CASE i = n
      BY <1>2, <2>2 DEF IInv, TypeOK
    <2>3. CASE i # n
      <3>1. i \in 1..n - 1
        BY <1>1, <2>1, <2>3
      <3> QED BY <3>1, <2>1, <1>2 DEF IInv, DeleteInv
    <2> QED BY <2>2, <2>3
  <1>6. (Durable /\ CopyInv /\ EchoInv)'
    BY DEF Durable, CopyInv, EchoInv, DeleteSetting
  <1> QED BY <1>4, <1>5, <1>6 DEF IInv

LEMMA LoadDefaultsOK == IInv /\ LoadDefaults => IInv'
  <1> SUFFICES ASSUME IInv, LoadDefaults PROVE IInv'
    OBVIOUS
  <1> USE AssumptionsHold
  <1>1. Len(Table) \in Nat /\ n \in 1..Len(Table) + 1 /\ n > Len(Table) /\ pc = "delete"
    BY DEF Assumptions, TableAssumption, IInv, TypeOK, LoadDefaults, AllDeleted
  <1>2. DOMAIN flash = {}
    <2> SUFFICES ASSUME NEW r \in DOMAIN flash PROVE FALSE
      OBVIOUS
    <2>1. PICK i \in 1..Len(Table) : Table[i] = r
      BY DEF IInv, TypeOK, Assumptions, FlagsAssumption, Regs
    <2>2. i \in 1..n - 1
      BY <1>1, <2>1
    <2> QED BY <1>1, <2>1, <2>2 DEF IInv, DeleteInv
  <1>3. Stored(flash) = Default
    BY <1>2 DEF Stored, Assumptions, ValuesAssumption, RegValues
  <1>4. val' = Loaded /\ flash' = flash
    BY <1>3 DEF LoadDefaults, Loaded
  <1>5. Loaded \in RegValues
    BY LoadedIsStored DEF IInv, TypeOK
  <1>6. TypeOK'
    BY <1>4, <1>5 DEF IInv, TypeOK, LoadDefaults
  <1>7. \A r \in Persisted : Loaded[r] = Stored(flash)[r]
    BY LoadedIsStored DEF IInv, TypeOK
  <1>8. (Durable /\ CopyInv /\ EchoInv /\ DeleteInv)'
    BY <1>4, <1>7 DEF Durable, CopyInv, EchoInv, DeleteInv, LoadDefaults, Stored
  <1> QED BY <1>6, <1>7, <1>8 DEF IInv

LEMMA BeginOK ==
  ASSUME IInv, NEW r \in Regs, NEW v, Begin(r, v) PROVE IInv'
  <1>1. v \subseteq Bits
    BY AssumptionsHold DEF Assumptions, ValuesAssumption, Begin, Normal
  <1>2. Len(Digits) \in Nat
    BY AssumptionsHold DEF Assumptions, TableAssumption
  <1>3. TypeOK'
    BY <1>1, <1>2 DEF IInv, TypeOK, Begin
  <1>4. Durable'
    BY DEF IInv, Durable, Begin, Stored
  <1>5. (CopyInv /\ EchoInv /\ DeleteInv)'
    BY DEF IInv, Durable, CopyInv, EchoInv, DeleteInv, Begin, Echo
  <1> QED BY <1>3, <1>4, <1>5 DEF IInv

LEMMA CommandsOK == IInv /\ Commands => IInv'
  <1> SUFFICES ASSUME IInv, Commands PROVE IInv'
    OBVIOUS
  <1>1. PICK r \in Regs : \E v : Begin(r, v)
    BY DEF Commands, Write, WriteBit
  <1> QED BY <1>1, BeginOK

LEMMA CopyDigitOK == IInv /\ CopyDigit => IInv'
  <1> SUFFICES ASSUME IInv, CopyDigit PROVE IInv'
    OBVIOUS
  <1> DEFINE w == (val[reg] \ Digits[digit]) \cup (new \cap Digits[digit])
  <1>1. val' = [val EXCEPT ![reg] = w] /\ digit' = digit + 1 /\ pc = "copy" /\ digit <= Len(Digits)
    BY DEF CopyDigit
  <1>2. val \in [Regs -> SUBSET Bits] /\ reg \in Regs /\ new \subseteq Bits
    BY DEF IInv, TypeOK, RegValues
  <1>3. w \subseteq Bits
    BY <1>2
  <1>4. Len(Digits) \in Nat /\ digit \in 1..Len(Digits) + 1
    BY AssumptionsHold DEF Assumptions, TableAssumption, IInv, TypeOK
  <1>5. digit' \in 1..Len(Digits) + 1
    BY <1>1, <1>4
  <1>6. TypeOK'
    <2>1. val' \in RegValues
      BY <1>1, <1>2, <1>3 DEF RegValues
    <2> QED BY <2>1, <1>5 DEF IInv, TypeOK, CopyDigit
  <1>7. val'[reg] = w /\ \A r \in Regs : r # reg => val'[r] = val[r]
    BY <1>1, <1>2
  <1>8. Durable'
    <2>1. \A r \in Persisted : r \in Regs
      BY AssumptionsHold DEF Assumptions, FlagsAssumption
    <2> QED BY <1>7, <2>1 DEF IInv, Durable, CopyDigit, Stored
  <1>9. CopyInv'
    <2> SUFFICES ASSUME NEW i \in 1..digit' - 1
                 PROVE  val'[reg] \cap Digits[i] = new \cap Digits[i]
      BY DEF CopyInv, CopyDigit
    <2>1. CASE i = digit
      BY <1>7, <2>1
    <2>2. CASE i # digit
      <3>1. i \in 1..digit - 1
        BY <1>1, <1>4, <2>2
      <3>2. val[reg] \cap Digits[i] = new \cap Digits[i]
        BY <1>1, <3>1 DEF IInv, CopyInv
      <3> QED BY <1>7, <3>2
    <2> QED BY <2>1, <2>2
  <1>11. EchoInv'
    <2>1. UartReg \in Regs
      BY AssumptionsHold DEF Assumptions, FlagsAssumption
    <2> QED BY <1>7, <2>1 DEF IInv, EchoInv, CopyDigit, Echo
  <1>10. (DeleteInv)'
    BY DEF DeleteInv, CopyDigit
  <1> QED BY <1>6, <1>8, <1>9, <1>10, <1>11 DEF IInv

\* When strcpy has come to the end the register holds the value that was typed.
LEMMA CopiedIsNew == IInv /\ Copied => val[reg] = new
  <1> SUFFICES ASSUME IInv, Copied PROVE val[reg] = new
    OBVIOUS
  <1>1. val[reg] \subseteq Bits /\ new \subseteq Bits
    BY DEF IInv, TypeOK, RegValues
  <1>2. \A i \in 1..Len(Digits) : val[reg] \cap Digits[i] = new \cap Digits[i]
    <2>1. Len(Digits) \in Nat /\ digit \in Int /\ digit > Len(Digits) /\ pc = "copy"
      BY AssumptionsHold DEF Assumptions, TableAssumption, IInv, TypeOK, Copied
    <2>2. \A i \in 1..Len(Digits) : i \in 1..digit - 1
      BY <2>1
    <2> QED BY <2>1, <2>2 DEF IInv, CopyInv
  <1>3. ASSUME NEW b \in Bits PROVE b \in val[reg] <=> b \in new
    <2>1. PICK i \in 1..Len(Digits) : b \in Digits[i]
      BY DEF Bits
    <2> QED BY <1>2, <2>1
  <1> QED BY <1>1, <1>3

LEMMA PersistOK == IInv /\ Persist => IInv'
  <1> SUFFICES ASSUME IInv, Persist PROVE IInv'
    OBVIOUS
  <1>1. DOMAIN flash' = DOMAIN flash \cup ({reg} \cap Persisted)
    BY DEF Persist, Saved
  <1>2. \A r \in DOMAIN flash' : flash'[r] = IF r = reg THEN val[reg] ELSE flash[r]
    BY DEF Persist, Saved
  <1>3. val[reg] \subseteq Bits
    BY DEF IInv, TypeOK, RegValues
  <1>4. \A r \in DOMAIN flash' : flash'[r] \subseteq Bits
    BY <1>1, <1>2, <1>3 DEF IInv, TypeOK
  <1>5. flash' \in [DOMAIN flash' -> SUBSET Bits]
    <2>1. flash' = [r \in DOMAIN flash' |-> flash'[r]]
      BY DEF Persist, Saved
    <2> QED BY <1>4, <2>1
  <1>6. echo' \in BOOLEAN
    BY DEF Persist, Echo, IInv, TypeOK
  <1>7. TypeOK'
    BY <1>1, <1>5, <1>6 DEF IInv, TypeOK, Persist
  <1>8. \A r \in Persisted : Stored(flash')[r] = val'[r]
    <2> SUFFICES ASSUME NEW r \in Persisted PROVE Stored(flash')[r] = val[r]
      BY DEF Persist
    <2>1. r \in Regs
      BY AssumptionsHold DEF Assumptions, FlagsAssumption
    <2>2. CASE r = reg
      BY <1>1, <1>2, <2>1, <2>2 DEF Stored
    <2>3. CASE r # reg
      <3>1. Stored(flash)[r] = val[r]
        BY <2>3 DEF IInv, Durable, Persist, Copied
      <3>2. Stored(flash')[r] = Stored(flash)[r]
        BY <1>1, <1>2, <2>1, <2>3 DEF Stored
      <3> QED BY <3>1, <3>2
    <2> QED BY <2>2, <2>3
  <1>9. echo' = Echo(val)'
    BY DEF IInv, EchoInv, Persist, Copied, Echo
  <1>10. Durable'
    BY <1>8, <1>9 DEF Durable, Persist
  <1>11. (CopyInv /\ EchoInv /\ DeleteInv)'
    BY DEF CopyInv, EchoInv, DeleteInv, Persist
  <1> QED BY <1>7, <1>10, <1>11 DEF IInv

LEMMA AnswerOK == IInv /\ Answer => IInv'
  <1> SUFFICES ASSUME IInv, Answer PROVE IInv'
    OBVIOUS
  <1>1. Len(Digits) \in Nat /\ Password \in Regs
    BY AssumptionsHold DEF Assumptions, TableAssumption, FlagsAssumption
  <1>2. TypeOK'
    BY <1>1 DEF IInv, TypeOK, Answer
  <1>3. Durable'
    BY DEF IInv, Durable, Answer, Stored, Echo
  <1>4. (CopyInv /\ EchoInv /\ DeleteInv)'
    BY DEF CopyInv, EchoInv, DeleteInv, Answer
  <1> QED BY <1>2, <1>3, <1>4 DEF IInv

LEMMA StutterOK == IInv /\ UNCHANGED sregs => IInv'
  BY DEF sregs, IInv, TypeOK, RegValues, Durable, Stored, Echo, CopyInv, EchoInv, DeleteInv,
         Loaded, StartVolatile

LEMMA NextOK == IInv /\ [Next]_sregs => IInv'
  <1> SUFFICES ASSUME IInv, [Next]_sregs PROVE IInv'
    OBVIOUS
  <1>1. CASE Commands
    BY <1>1, CommandsOK
  <1>2. CASE CopyDigit
    BY <1>2, CopyDigitOK
  <1>3. CASE Persist
    BY <1>3, PersistOK
  <1>4. CASE DeleteSetting
    BY <1>4, DeleteSettingOK
  <1>5. CASE LoadDefaults
    BY <1>5, LoadDefaultsOK
  <1>6. CASE Answer
    BY <1>6, AnswerOK
  <1>7. CASE FactoryReset
    BY <1>7, FactoryResetOK
  <1>8. CASE SregInit
    BY <1>8, SregInitOK
  <1>9. CASE UNCHANGED sregs
    BY <1>9, StutterOK
  <1> QED BY <1>1, <1>2, <1>3, <1>4, <1>5, <1>6, <1>7, <1>8, <1>9 DEF Next, Quiet

THEOREM Invariance == Spec => []IInv
  <1> QED BY InitOK, NextOK, PTL DEF Spec

-----------------------------------------------------------------------------

\* The table, the settings and the writer have their types (sreg.c).
THEOREM TypeCorrect == Spec => []TypeOK
  <1>1. IInv => TypeOK
    BY DEF IInv
  <1> QED BY <1>1, Invariance, PTL

\* What was answered OK outlives a reset, AT&F included, and a write loses no other register.
THEOREM DurableHolds == Spec => []Durable
  <1>1. IInv => Durable
    BY DEF IInv
  <1> QED BY <1>1, Invariance, PTL

\* No mixture of an old and a new value is ever stored.
THEOREM SavedAsTypedHolds == Spec => SavedAsTyped
  <1> DEFINE A == \A r \in Persisted :
                    \/ Stored(flash')[r] = Stored(flash)[r]
                    \/ r = reg /\ Stored(flash')[r] = new
                    \/ Stored(flash')[r] = Default[r]
  <1>1. IInv /\ [Next]_sregs => [A]_sregs
    <2> SUFFICES ASSUME IInv, [Next]_sregs PROVE A
      OBVIOUS
    <2>1. \A r \in Persisted : r \in Regs
      BY AssumptionsHold DEF Assumptions, FlagsAssumption
    <2>2. CASE Persist
      <3>1. val[reg] = new
        BY <2>2, CopiedIsNew DEF Persist
      <3>2. \A r \in Persisted :
              Stored(flash')[r] = IF r = reg THEN val[reg] ELSE Stored(flash)[r]
        BY <2>1, <2>2 DEF Persist, Saved, Stored
      <3> QED BY <3>1, <3>2
    <2>3. CASE DeleteSetting
      BY <2>1, <2>3 DEF DeleteSetting, Stored
    <2>4. CASE flash' = flash
      BY <2>4 DEF Stored
    <2> QED BY <2>2, <2>3, <2>4 DEF Next, Commands, Write, WriteBit, Begin, Quiet, CopyDigit,
                LoadDefaults, Answer, FactoryReset, SregInit, sregs
  <1>2. Spec => [][A]_sregs
    BY <1>1, Invariance, PTL DEF Spec
  <1> QED BY <1>2 DEF SavedAsTyped

\* The password is the last protected setting that a factory reset deletes.
THEOREM PasswordFallsLastHolds == Spec => PasswordFallsLast
  <1> DEFINE A == (Password \in DOMAIN flash \ DOMAIN flash') => DOMAIN flash' \cap Protected = {}
  <1>1. IInv /\ [Next]_sregs => [A]_sregs
    <2> SUFFICES ASSUME IInv, [Next]_sregs, Password \in DOMAIN flash \ DOMAIN flash',
                        NEW r \in DOMAIN flash', r \in Protected
                 PROVE  FALSE
      OBVIOUS
    <2>1. CASE DeleteSetting
      <3>1. DOMAIN flash' = DOMAIN flash \ ({Table[n]} \cap Persisted)
        BY <2>1 DEF DeleteSetting, NextReg
      <3>2. Table[n] = Password
        BY <3>1
      <3>3. PICK i \in 1..Len(Table) : Table[i] = r
        BY AssumptionsHold DEF Assumptions, FlagsAssumption, Regs
      <3>4. n \in 1..Len(Table) /\ Len(Table) \in Nat
        BY <2>1, AssumptionsHold
        DEF DeleteSetting, AllDeleted, IInv, TypeOK, Assumptions, TableAssumption
      <3>5. i <= n
        BY <3>2, <3>3, <3>4, AssumptionsHold DEF Assumptions, OrderAssumption
      <3>6. i # n
        BY <3>1, <3>2, <3>3, AssumptionsHold DEF Assumptions, FlagsAssumption
      <3>7. i \in 1..n - 1
        BY <3>4, <3>5, <3>6
      <3> QED BY <2>1, <3>1, <3>3, <3>7 DEF IInv, DeleteInv, DeleteSetting
    <2>2. CASE Persist
      BY <2>2 DEF Persist, Saved
    <2>3. CASE flash' = flash
      BY <2>3
    <2> QED BY <2>1, <2>2, <2>3 DEF Next, Commands, Write, WriteBit, Begin, Quiet, CopyDigit,
                LoadDefaults, Answer, FactoryReset, SregInit, sregs
  <1>2. Spec => [][A]_sregs
    BY <1>1, Invariance, PTL DEF Spec
  <1> QED BY <1>2 DEF PasswordFallsLast

-----------------------------------------------------------------------------
(* Join control.                                                           *)


Callbacks == {"apply", "refresh"}
Signals   == {"UP", "PERMIT", "STEERING_OK", "STEERING_FAIL"}
Requests  == {"open", "close_network", "close_local"}

JTypes ==
    /\ joined \in BOOLEAN /\ recorded \in BOOLEAN /\ role \in {"none", "ZC", "ZR"}
    /\ cbs \in Seq(Callbacks) /\ sigs \in Seq(Signals) /\ bufs \in Seq(Requests)
    /\ steering \in BOOLEAN /\ alarms \in [renew : {0, 1}, retry : Nat]
    /\ local_open \in BOOLEAN /\ tc_open \in BOOLEAN /\ by_peer \in BOOLEAN
    /\ tc_policy \subseteq PolicyBits /\ refused \subseteq {"local", "tc"}

JoinInv ==
    /\ IInv /\ JTypes
    /\ ChainAlive /\ TcStaysClosed /\ LocalStaysClosed /\ PolicyFollows

Promises == ChainAlive /\ TcStaysClosed /\ LocalStaysClosed /\ PolicyFollows

-----------------------------------------------------------------------------
(* Queues.                                                                 *)

LEMMA AppendType ==
  ASSUME NEW S, NEW q \in Seq(S), NEW y \in S
  PROVE  Append(q, y) \in Seq(S)
  OBVIOUS

LEMMA TailType ==
  ASSUME NEW S, NEW q \in Seq(S), q # <<>>
  PROVE  Tail(q) \in Seq(S)
  OBVIOUS

LEMMA EmptyType == \A S : <<>> \in Seq(S)
  OBVIOUS

LEMMA InAppend ==
  ASSUME NEW S, NEW q \in Seq(S), NEW x, NEW y \in S
  PROVE  In(x, Append(q, y)) <=> In(x, q) \/ x = y
  <1>1. Len(q) \in Nat /\ Len(Append(q, y)) = Len(q) + 1
    OBVIOUS
  <1>2. Append(q, y)[Len(q) + 1] = y /\ \A i \in 1..Len(q) : Append(q, y)[i] = q[i]
    OBVIOUS
  <1>3. ASSUME In(x, Append(q, y)), x # y PROVE In(x, q)
    <2>1. PICK i \in 1..Len(q) + 1 : Append(q, y)[i] = x
      BY <1>1, <1>3 DEF In
    <2>2. i \in 1..Len(q)
      BY <1>1, <1>2, <1>3, <2>1
    <2> QED BY <1>2, <2>1, <2>2 DEF In
  <1>4. ASSUME In(x, q) PROVE In(x, Append(q, y))
    <2>1. PICK i \in 1..Len(q) : q[i] = x
      BY <1>4 DEF In
    <2>2. i \in 1..Len(Append(q, y)) /\ Append(q, y)[i] = x
      BY <1>1, <1>2, <2>1
    <2> QED BY <2>2 DEF In
  <1>5. In(y, Append(q, y))
    <2>1. Len(q) + 1 \in 1..Len(Append(q, y))
      BY <1>1
    <2> QED BY <1>2, <2>1 DEF In
  <1> QED BY <1>3, <1>4, <1>5

LEMMA InTail ==
  ASSUME NEW S, NEW q \in Seq(S), q # <<>>, NEW x
  PROVE  In(x, q) <=> x = Head(q) \/ In(x, Tail(q))
  <1>1. Len(q) \in Nat \ {0} /\ Len(Tail(q)) = Len(q) - 1 /\ Head(q) = q[1]
    OBVIOUS
  <1>2. \A i \in 1..Len(q) - 1 : Tail(q)[i] = q[i + 1]
    OBVIOUS
  <1>3. ASSUME In(x, q), x # Head(q) PROVE In(x, Tail(q))
    <2>1. PICK i \in 1..Len(q) : q[i] = x
      BY <1>3 DEF In
    <2>2. i - 1 \in 1..Len(q) - 1
      BY <1>1, <1>3, <2>1
    <2>3. Tail(q)[i - 1] = x
      BY <1>2, <2>1, <2>2
    <2> QED BY <1>1, <2>2, <2>3 DEF In
  <1>4. ASSUME In(x, Tail(q)) PROVE In(x, q)
    <2>1. PICK i \in 1..Len(q) - 1 : Tail(q)[i] = x
      BY <1>1, <1>4 DEF In
    <2>2. i + 1 \in 1..Len(q) /\ q[i + 1] = x
      BY <1>1, <1>2, <2>1
    <2> QED BY <2>2 DEF In
  <1>5. In(Head(q), q)
    <2>1. 1 \in 1..Len(q)
      BY <1>1
    <2> QED BY <1>1, <2>1 DEF In
  <1> QED BY <1>3, <1>4, <1>5

\* What is asked for after the last closing does not open.
Last(q) == \E i \in 1..Len(q) : q[i] = "close_network" /\ \A j \in i..Len(q) : q[j] # "open"

LEMMA LastAppend ==
  ASSUME NEW q \in Seq(Requests), NEW y \in Requests
  PROVE  /\ y = "close_network" => Last(Append(q, y))
         /\ Last(q) /\ y # "open" => Last(Append(q, y))
  <1>1. Len(q) \in Nat /\ Len(Append(q, y)) = Len(q) + 1
    OBVIOUS
  <1>2. Append(q, y)[Len(q) + 1] = y /\ \A i \in 1..Len(q) : Append(q, y)[i] = q[i]
    OBVIOUS
  <1>3. ASSUME y = "close_network" PROVE Last(Append(q, y))
    <2>1. Len(q) + 1 \in 1..Len(Append(q, y))
      BY <1>1
    <2>2. \A j \in Len(q) + 1..Len(Append(q, y)) : j = Len(q) + 1
      BY <1>1
    <2> QED BY <1>2, <1>3, <2>1, <2>2 DEF Last
  <1>4. ASSUME Last(q), y # "open" PROVE Last(Append(q, y))
    <2>1. PICK i \in 1..Len(q) : q[i] = "close_network" /\ \A j \in i..Len(q) : q[j] # "open"
      BY <1>4 DEF Last
    <2>2. i \in 1..Len(Append(q, y)) /\ Append(q, y)[i] = "close_network"
      BY <1>1, <1>2, <2>1
    <2>3. ASSUME NEW j \in i..Len(Append(q, y)) PROVE Append(q, y)[j] # "open"
      <3>1. j = Len(q) + 1 \/ (j \in i..Len(q) /\ j \in 1..Len(q))
        BY <1>1, <2>1, <2>3
      <3> QED BY <1>2, <1>4, <2>1, <3>1
    <2> QED BY <2>2, <2>3 DEF Last
  <1> QED BY <1>3, <1>4

LEMMA LastTail ==
  ASSUME NEW q \in Seq(Requests), q # <<>>, Last(q)
  PROVE  \/ Last(Tail(q))
         \/ Head(q) = "close_network" /\ ~In("open", Tail(q))
  <1>1. Len(q) \in Nat \ {0} /\ Len(Tail(q)) = Len(q) - 1 /\ Head(q) = q[1]
    OBVIOUS
  <1>2. \A i \in 1..Len(q) - 1 : Tail(q)[i] = q[i + 1]
    OBVIOUS
  <1>3. PICK i \in 1..Len(q) : q[i] = "close_network" /\ \A j \in i..Len(q) : q[j] # "open"
    BY DEF Last
  <1>4. CASE i = 1
    <2>1. ASSUME NEW j \in 1..Len(q) - 1 PROVE Tail(q)[j] # "open"
      <3>1. j + 1 \in i..Len(q)
        BY <1>1, <1>4, <2>1
      <3> QED BY <1>2, <1>3, <3>1
    <2> QED BY <1>1, <1>3, <1>4, <2>1 DEF In
  <1>5. CASE i # 1
    <2>1. i - 1 \in 1..Len(q) - 1 /\ Tail(q)[i - 1] = "close_network"
      BY <1>1, <1>2, <1>3, <1>5
    <2>2. ASSUME NEW j \in i - 1..Len(q) - 1 PROVE Tail(q)[j] # "open"
      <3>1. j + 1 \in i..Len(q) /\ j \in 1..Len(q) - 1
        BY <1>1, <1>5, <2>2
      <3> QED BY <1>2, <1>3, <3>1
    <2> QED BY <1>1, <2>1, <2>2 DEF Last
  <1> QED BY <1>4, <1>5

-----------------------------------------------------------------------------
(* Types.                                                                  *)

LEMMA AlarmsLeftType ==
  ASSUME JTypes, NEW left \in {alarms} \cup AlarmsLeft
  PROVE  left \in [renew : {0, 1}, retry : Nat]
  <1>1. alarms.renew \in {0, 1} /\ alarms.retry \in Nat
    BY DEF JTypes
  <1>2. ASSUME NEW i \in 1..alarms.retry PROVE alarms.retry - 1 \in Nat
    BY <1>1
  <1> QED BY <1>1, <1>2 DEF AlarmsLeft, JTypes

LEMMA AtTypes ==
  ASSUME JTypes, AtWrites \/ SregWritten \/ CmdFactory \/ Restart
  PROVE  JTypes'
  <1>1. CASE AtWrites
    BY <1>1 DEF AtWrites, joins, node, queues, opens, JTypes
  <1>2. CASE SregWritten
    <2>1. "apply" \in Callbacks /\ cbs \in Seq(Callbacks)
      BY DEF Callbacks, JTypes
    <2>2. Append(cbs, "apply") \in Seq(Callbacks)
      BY <2>1, AppendType
    <2>3. cbs' \in Seq(Callbacks)
      BY <1>2, <2>1, <2>2 DEF SregWritten
    <2> QED BY <1>2, <2>3 DEF SregWritten, node, opens, JTypes
  <1>3. CASE CmdFactory
    BY <1>3 DEF CmdFactory, queues, opens, JTypes
  <1>4. CASE Restart
    BY <1>4, EmptyType DEF Restart, JTypes, NoAlarm
  <1> QED BY <1>1, <1>2, <1>3, <1>4

\* A closing that is asked for comes last, or is refused for want of a buffer.
LEMMA Asked ==
  ASSUME JTypes, NEW m \in {"close_network", "close_local"}, NEW w, AskToClose(m, w)
  PROVE  /\ bufs' \in Seq(Requests)
         /\ refused' = refused \ w \/ refused' = refused \cup w
         /\ In(m, bufs') \/ w \subseteq refused'
         /\ m = "close_network" => ClosingLast' \/ w \subseteq refused'
         /\ ClosingLast => ClosingLast'
         /\ In("open", bufs') <=> In("open", bufs)
  <1>1. bufs \in Seq(Requests) /\ m \in Requests /\ m # "open"
    BY DEF JTypes, Requests
  <1>2. CASE bufs' = Append(bufs, m) /\ refused' = refused \ w
    <2>1. Append(bufs, m) \in Seq(Requests) /\ In(m, Append(bufs, m))
          /\ (In("open", Append(bufs, m)) <=> In("open", bufs))
      BY <1>1, AppendType, InAppend
    <2>2. /\ m = "close_network" => Last(Append(bufs, m))
          /\ Last(bufs) => Last(Append(bufs, m))
      BY <1>1, LastAppend
    <2> QED BY <1>2, <2>1, <2>2 DEF ClosingLast, Last, In
  <1>3. CASE UNCHANGED bufs /\ refused' = refused \cup w
    BY <1>1, <1>3 DEF ClosingLast, In
  <1> QED BY <1>2, <1>3 DEF AskToClose

LEMMA ClosesLocal ==
  ASSUME JTypes, CloseLocal
  PROVE  /\ bufs' \in Seq(Requests) /\ refused' \subseteq {"local", "tc"}
         /\ "tc" \in refused' <=> "tc" \in refused
         /\ Blocks(S0A_BLOCK_JOIN_LOCAL) => In("close_local", bufs') \/ "local" \in refused'
         /\ ClosingLast => ClosingLast'
         /\ In("open", bufs') <=> In("open", bufs)
  <1>1. refused \subseteq {"local", "tc"} /\ bufs \in Seq(Requests)
    BY DEF JTypes
  <1>2. CASE Blocks(S0A_BLOCK_JOIN_LOCAL)
    <2>1. AskToClose("close_local", {"local"})
      BY <1>2 DEF CloseLocal
    <2>2. /\ bufs' \in Seq(Requests)
          /\ refused' = refused \ {"local"} \/ refused' = refused \cup {"local"}
          /\ In("close_local", bufs') \/ {"local"} \subseteq refused'
          /\ ClosingLast => ClosingLast'
          /\ In("open", bufs') <=> In("open", bufs)
      BY <2>1, Asked
    <2> QED BY <1>1, <2>2
  <1>3. CASE ~Blocks(S0A_BLOCK_JOIN_LOCAL)
    <2>1. UNCHANGED <<bufs, refused>>
      BY <1>3 DEF CloseLocal
    <2> QED BY <1>1, <1>3, <2>1 DEF ClosingLast, In
  <1> QED BY <1>2, <1>3

LEMMA ApplyTypes == JTypes /\ JoinPolicyApply => JTypes'
  <1> SUFFICES ASSUME JTypes, JoinPolicyApply PROVE JTypes'
    OBVIOUS
  <1>1. Tail(cbs) \in Seq(Callbacks)
    BY TailType DEF JoinPolicyApply, JTypes
  <1>2. "refresh" \in Callbacks /\ bufs \in Seq(Requests) /\ refused \subseteq {"local", "tc"}
    BY DEF Callbacks, JTypes
  <1>3. Append(Tail(cbs), "refresh") \in Seq(Callbacks)
    BY <1>1, <1>2, AppendType
  <1>4. cbs' \in Seq(Callbacks)
    BY <1>1, <1>3 DEF JoinPolicyApply, ApplyCoordinator, ApplyRouter, ApplyOff
  <1>7. bufs' \in Seq(Requests) /\ refused' \subseteq {"local", "tc"}
    <2>1. CASE AskToClose("close_network", {"local", "tc"})
      <3>1. /\ bufs' \in Seq(Requests)
            /\ refused' = refused \ {"local", "tc"} \/ refused' = refused \cup {"local", "tc"}
        BY <2>1, Asked
      <3> QED BY <1>2, <3>1
    <2>2. CASE CloseLocal
      BY <2>2, ClosesLocal
    <2>3. CASE UNCHANGED <<bufs, refused>>
      BY <1>2, <2>3
    <2> QED BY <2>1, <2>2, <2>3 DEF JoinPolicyApply, ApplyCoordinator, ApplyRouter, ApplyOff
  <1>5. tc_policy' \subseteq PolicyBits
    BY DEF JoinPolicyApply, ApplyCoordinator, ApplyRouter, ApplyOff, JTypes, Policy
  <1>6. alarms' \in [renew : {0, 1}, retry : Nat]
    BY DEF JoinPolicyApply, ApplyCoordinator, ApplyRouter, ApplyOff, JTypes, NoAlarm
  <1> QED BY <1>4, <1>5, <1>6, <1>7 DEF JoinPolicyApply, node, JTypes

LEMMA RefreshTypes == JTypes /\ PermitJoinRefresh => JTypes'
  <1> SUFFICES ASSUME JTypes, PermitJoinRefresh PROVE JTypes'
    OBVIOUS
  <1>1. PICK left \in {alarms} \cup AlarmsLeft :
          /\ Due(left) /\ RefreshUnchanged
          /\ \/ steering' = TRUE /\ bufs' = Append(bufs, "open") /\ alarms' = left
             \/ alarms' = TryAgain(left) /\ UNCHANGED <<steering, bufs>>
             \/ alarms' = left /\ UNCHANGED <<steering, bufs>>
    BY DEF PermitJoinRefresh, RefreshStarts, RefreshFails, RefreshBlocked
  <1>2. left \in [renew : {0, 1}, retry : Nat]
    BY AlarmsLeftType
  <1>3. TryAgain(left) \in [renew : {0, 1}, retry : Nat]
    BY <1>2 DEF TryAgain
  <1>4. cbs \in Seq(Callbacks) /\ bufs \in Seq(Requests) /\ "open" \in Requests
    BY DEF JTypes, Requests
  <1>5. Append(bufs, "open") \in Seq(Requests)
    BY <1>4, AppendType
  <1>6. cbs' \in Seq(Callbacks)
    BY <1>1, <1>4, TailType DEF Due
  <1>7. bufs' \in Seq(Requests) /\ steering' \in BOOLEAN
    BY <1>1, <1>4, <1>5 DEF JTypes
  <1> QED BY <1>1, <1>2, <1>3, <1>6, <1>7 DEF RefreshUnchanged, node, opens, JTypes

LEMMA SignalTypes == JTypes /\ Signal => JTypes'
  <1> SUFFICES ASSUME JTypes, Signal PROVE JTypes'
    OBVIOUS
  <1>1. sigs' \in Seq(Signals)
    BY TailType DEF Signal, JTypes
  <1>2. cbs \in Seq(Callbacks) /\ bufs \in Seq(Requests) /\ "apply" \in Callbacks
    BY DEF JTypes, Callbacks
  <1>3. Append(cbs, "apply") \in Seq(Callbacks)
    BY <1>2, AppendType
  <1>4. cbs' \in Seq(Callbacks) /\ recorded' \in BOOLEAN
    <2>1. cbs' \in {cbs, Append(cbs, "apply")}
      BY Zenon DEF Signal
    <2>2. recorded' \in BOOLEAN
      <3>1. recorded \in BOOLEAN
        BY DEF JTypes
      <3> QED BY <3>1, Zenon DEF Signal
    <2> QED BY <1>2, <1>3, <2>1, <2>2
  <1>6. bufs' \in Seq(Requests) /\ refused' \subseteq {"local", "tc"}
    <2>1. CloseLocal \/ UNCHANGED <<bufs, refused>>
      BY DEF Signal, WhenOpened
    <2> QED BY <2>1, ClosesLocal DEF JTypes
  <1>5. alarms' \in [renew : {0, 1}, retry : Nat]
    BY DEF Signal, JTypes, SetAlarm, AfterSteering, NoAlarm
  <1> QED BY <1>1, <1>4, <1>5, <1>6 DEF Signal, JTypes

LEMMA StackTypes == JTypes /\ (Buffers \/ Network) => JTypes'
  <1> SUFFICES ASSUME JTypes, Buffers \/ Network PROVE JTypes'
    OBVIOUS
  <1> DEFINE T == Seq(Signals)
  <1>a. \A x \in Signals : sigs \in T /\ Append(sigs, x) \in T
    BY AppendType DEF JTypes
  <1>b. {"UP", "PERMIT", "STEERING_OK", "STEERING_FAIL"} = Signals
    BY DEF Signals
  <1>c. bufs # <<>> => Tail(bufs) \in Seq(Requests)
    BY TailType DEF JTypes
  <1> HIDE DEF T
  <1>1. CASE Opens
    <2>1. Append(sigs, "PERMIT") \in Seq(Signals)
      BY <1>a, <1>b DEF T
    <2>2. Append(Append(sigs, "PERMIT"), "STEERING_OK") \in Seq(Signals)
      BY <1>b, <2>1, AppendType
    <2>3. sigs' \in Seq(Signals) /\ bufs' \in Seq(Requests)
      BY <1>1, <1>c, <2>2 DEF Opens, NextBuf
    <2> QED BY <1>1, <2>3 DEF Opens, NextBuf, node, JTypes
  <1>2. CASE OpenFails
    <2>1. sigs' \in Seq(Signals) /\ bufs' \in Seq(Requests)
      BY <1>2, <1>a, <1>b, <1>c DEF OpenFails, NextBuf, T
    <2> QED BY <1>2, <2>1 DEF OpenFails, NextBuf, node, opens, JTypes
  <1>3. CASE CloseSent
    <2>1. bufs' \in Seq(Requests)
      BY <1>3, <1>c DEF CloseSent, NextBuf
    <2>2. /\ UNCHANGED <<sigs, steering, node, cbs, alarms, tc_policy>>
          /\ local_open' = FALSE /\ tc_open' \in {FALSE, tc_open} /\ by_peer' \in {FALSE, by_peer}
          /\ refused' \in {{}, refused \ {"local"}}
      BY <1>3 DEF CloseSent, NextBuf
    <2> QED BY <2>1, <2>2 DEF node, JTypes
  <1>4. CASE CloseRefused
    <2>1. bufs' \in Seq(Requests)
      BY <1>4, <1>c DEF CloseRefused, NextBuf
    <2>2. /\ UNCHANGED <<sigs, steering, node, cbs, alarms, tc_policy, local_open, tc_open, by_peer>>
          /\ refused' \in {{"local", "tc"}, refused \cup {"local"}}
      BY <1>4 DEF CloseRefused, NextBuf
    <2> QED BY <2>1, <2>2 DEF node, JTypes
  <1>5. ASSUME NEW r \in {"ZC", "ZR"}, NetworkStarts(r) PROVE JTypes'
    <2>1. sigs' \in Seq(Signals) /\ r \in {"none", "ZC", "ZR"}
      BY <1>5, <1>a, <1>b DEF NetworkStarts, T
    <2> QED BY <1>5, <2>1 DEF NetworkStarts, opens, JTypes
  <1>6. CASE ParentLost
    BY <1>6 DEF ParentLost, queues, opens, JTypes
  <1>7. CASE Lapse
    <2>1. refused' \in {{}, refused}
      BY <1>7 DEF Lapse
    <2> QED BY <1>7, <2>1 DEF Lapse, node, queues, JTypes
  <1>8. CASE PeerOpens
    <2>1. sigs' \in Seq(Signals)
      BY <1>8, <1>a, <1>b DEF PeerOpens, T
    <2>2. tc_open' \in {TRUE, tc_open} /\ by_peer' \in {TRUE, by_peer}
      BY <1>8, Zenon DEF PeerOpens
    <2> QED BY <1>8, <2>1, <2>2 DEF PeerOpens, node, JTypes
  <1> QED BY <1>1, <1>2, <1>3, <1>4, <1>5, <1>6, <1>7, <1>8 DEF Buffers, Network

-----------------------------------------------------------------------------
(* The promises, step by step.                                             *)

\* Nothing is promised of a state that is not settled.
LEMMA Unsettled == ~Settled => Promises
  BY DEF Promises, ChainAlive, TcStaysClosed, LocalStaysClosed, PolicyFollows, Coordinator

\* A step of the AT thread that leaves S0A alone breaks no promise.
LEMMA Frame ==
  ASSUME Promises, UNCHANGED joins, Settled' => Settled /\ val'[MainReg] = val[MainReg]
  PROVE  Promises'
  <1>1. CASE ~Settled'
    BY <1>1 DEF Promises, ChainAlive, TcStaysClosed, LocalStaysClosed, PolicyFollows, Coordinator
  <1>2. CASE Settled'
    <2>1. Settled /\ val'[MainReg] = val[MainReg]
      BY <1>2
    <2>2. UNCHANGED <<joined, role, recorded, cbs, sigs, bufs, steering, alarms, local_open, tc_open,
                      by_peer, refused, tc_policy>>
      BY DEF joins, node, queues, opens
    <2>3. ChainAlive' /\ PolicyFollows'
      BY <2>1, <2>2 DEF Promises, ChainAlive, PolicyFollows, Coordinator, Blocks, In
    <2>4. TcStaysClosed'
      BY <2>1, <2>2 DEF Promises, TcStaysClosed, Shut, Coordinator, Blocks, In, ClosingLast
    <2>5. LocalStaysClosed'
      BY <2>1, <2>2 DEF Promises, LocalStaysClosed, Coordinator, Blocks, In, Closing
    <2> QED BY <2>3, <2>4, <2>5 DEF Promises
  <1> QED BY <1>1, <1>2

LEMMA AtStep ==
  ASSUME JoinInv, AtWrites \/ SregWritten \/ CmdFactory \/ Restart
  PROVE  Promises'
  <1>1. Promises
    BY DEF JoinInv, Promises
  <1>2. CASE AtWrites
    <2>1. UNCHANGED joins
      BY <1>2 DEF AtWrites
    <2>2. UNCHANGED <<joined, cbs, sigs>>
      BY <2>1 DEF joins, node, queues
    <2>3. ASSUME Settled' PROVE Settled /\ val'[MainReg] = val[MainReg]
      <3>1. CASE Commands
        BY <2>2, <2>3, <3>1 DEF Commands, Write, WriteBit, Begin, Settled, In
      <3>2. CASE CopyDigit
        BY <2>2, <2>3, <3>2 DEF CopyDigit, Settled, In, JoinInv, IInv, TypeOK, RegValues
      <3>3. CASE Persist
        BY <2>2, <2>3, <3>3 DEF Persist, Copied, Settled, In
      <3>4. CASE DeleteSetting \/ LoadDefaults
        BY <2>3, <3>4 DEF DeleteSetting, LoadDefaults, Settled
      <3> QED BY <1>2, <3>1, <3>2, <3>3, <3>4 DEF AtWrites, Quiet
    <2> QED BY <1>1, <2>1, <2>3, Frame
  <1>3. CASE SregWritten
    <2>1. CASE ApplyNow
      <3>1. In("apply", cbs')
        BY <1>3, <2>1, InAppend DEF SregWritten, JoinInv, JTypes, Callbacks
      <3>2. ~Settled'
        BY <3>1 DEF Settled, In
      <3> QED BY <3>2, Unsettled DEF Promises, ChainAlive, TcStaysClosed, LocalStaysClosed,
                 PolicyFollows, Coordinator
    <2>2. CASE ~ApplyNow
      <3>1. UNCHANGED joins
        BY <1>3, <2>2 DEF SregWritten, joins, queues
      <3>2. UNCHANGED <<joined, cbs, sigs>>
        BY <3>1 DEF joins, node, queues
      <3>3. Settled' => Settled /\ val'[MainReg] = val[MainReg]
        BY <1>3, <2>2, <3>2 DEF SregWritten, Answer, ApplyNow, Settled, In
      <3> QED BY <1>1, <3>1, <3>3, Frame
    <2> QED BY <2>1, <2>2
  <1>4. CASE CmdFactory \/ Restart
    <2>1. ~Settled'
      BY <1>4 DEF CmdFactory, FactoryReset, Restart, Settled
    <2> QED BY <2>1 DEF Promises, ChainAlive, TcStaysClosed, LocalStaysClosed, PolicyFollows,
               Coordinator
  <1> QED BY <1>2, <1>3, <1>4

\* What a step of the ZBOSS thread or of the stack leaves alone.
LEMMA ZbossFrame ==
  ASSUME UNCHANGED sregs
  PROVE  /\ \A bit : Blocks(bit)' <=> Blocks(bit)
         /\ UNCHANGED <<val, pc, reg>>
  BY DEF sregs, Blocks

LEMMA ApplyStep == JoinInv /\ JoinPolicyApply => Promises'
  <1> SUFFICES ASSUME JoinInv, JoinPolicyApply PROVE Promises'
    OBVIOUS
  <1> USE DEF JoinInv
  <1>1. cbs \in Seq(Callbacks) /\ bufs \in Seq(Requests) /\ cbs # <<>> /\ Tail(cbs) \in Seq(Callbacks)
    BY DEF JTypes, JoinPolicyApply
  <1>2. UNCHANGED <<sregs, joined, role, recorded, sigs, steering, local_open, tc_open, by_peer>>
    BY DEF JoinPolicyApply, node
  <1>3. /\ \A bit : Blocks(bit)' <=> Blocks(bit)
        /\ UNCHANGED <<val, pc, reg>>
    BY <1>2, ZbossFrame
  <1>4. CASE ApplyCoordinator
    <2>1. PolicyFollows'
      BY <1>3, <1>4 DEF ApplyCoordinator, PolicyFollows, Policy
    <2>2. CASE Blocks(S0A_BLOCK_JOIN_TC)
      <3>1. AskToClose("close_network", {"local", "tc"})
        BY <1>4, <2>2 DEF ApplyCoordinator
      <3>2. /\ In("close_network", bufs') \/ {"local", "tc"} \subseteq refused'
            /\ ClosingLast' \/ {"local", "tc"} \subseteq refused'
        BY <3>1, Asked
      <3>3. Closing' \/ "local" \in refused'
        BY <3>2 DEF Closing, In
      <3>4. ChainAlive'
        BY <1>3, <2>2 DEF ChainAlive
      <3>5. TcStaysClosed'
        BY <3>2 DEF TcStaysClosed, Shut
      <3>6. LocalStaysClosed'
        BY <3>3 DEF LocalStaysClosed
      <3> QED BY <2>1, <3>4, <3>5, <3>6 DEF Promises
    <2>3. CASE ~Blocks(S0A_BLOCK_JOIN_TC)
      <3>1. cbs' = Append(Tail(cbs), "refresh")
        BY <1>4, <2>3 DEF ApplyCoordinator
      <3>2. In("refresh", cbs')
        <4>1. "refresh" \in Callbacks
          BY DEF Callbacks
        <4> QED BY <1>1, <3>1, <4>1, InAppend
      <3>3. ChainAlive'
        BY <3>2 DEF ChainAlive, In
      <3>4. role' = "ZC" /\ ~Blocks(S0A_BLOCK_JOIN_TC)'
        BY <1>2, <1>3, <1>4, <2>3 DEF ApplyCoordinator
      <3>5. TcStaysClosed' /\ LocalStaysClosed'
        BY <3>4 DEF TcStaysClosed, LocalStaysClosed
      <3> QED BY <2>1, <3>3, <3>5 DEF Promises
    <2> QED BY <2>2, <2>3
  <1>5. CASE ApplyRouter
    <2>1. role' = "ZR"
      BY <1>2, <1>5 DEF ApplyRouter
    <2>2. ChainAlive' /\ TcStaysClosed' /\ PolicyFollows'
      BY <2>1 DEF ChainAlive, TcStaysClosed, PolicyFollows, Coordinator
    <2>3. Blocks(S0A_BLOCK_JOIN_LOCAL) => In("close_local", bufs') \/ "local" \in refused'
      BY <1>5, ClosesLocal DEF ApplyRouter
    <2>4. LocalStaysClosed'
      BY <1>3, <2>3 DEF LocalStaysClosed, Closing, In
    <2> QED BY <2>2, <2>4 DEF Promises
  <1>6. CASE ApplyOff
    <2>1. ~Settled'
      BY <1>2, <1>6 DEF ApplyOff, Settled
    <2> QED BY <2>1 DEF Promises, ChainAlive, TcStaysClosed, LocalStaysClosed, PolicyFollows,
               Coordinator
  <1> QED BY <1>4, <1>5, <1>6 DEF JoinPolicyApply

\* A step that leaves the registers, the role and the schedule's order to apply alone is
\* settled only if it was before.
LEMMA SettledBefore ==
  ASSUME UNCHANGED <<sregs, joined, role>>, Settled',
         In("apply", cbs) => In("apply", cbs'), In("UP", sigs) => In("UP", sigs')
  PROVE  /\ Settled /\ (Coordinator' <=> Coordinator)
         /\ \A bit : Blocks(bit)' <=> Blocks(bit)
         /\ UNCHANGED val
  BY DEF sregs, Settled, Coordinator, Blocks, In

LEMMA NoPromise == ~Settled' => Promises'
  BY DEF Promises, ChainAlive, TcStaysClosed, LocalStaysClosed, PolicyFollows, Coordinator

LEMMA RefreshStep == JoinInv /\ PermitJoinRefresh => Promises'
  <1> SUFFICES ASSUME JoinInv, PermitJoinRefresh, Settled' PROVE Promises'
    BY NoPromise
  <1>1. PICK left \in {alarms} \cup AlarmsLeft :
          /\ Due(left) /\ RefreshUnchanged
          /\ \/ NotBlocked /\ steering' = TRUE /\ bufs' = Append(bufs, "open")
             \/ NotBlocked /\ alarms' = TryAgain(left) /\ UNCHANGED <<steering, bufs>>
             \/ ~NotBlocked /\ UNCHANGED <<steering, bufs>>
    BY DEF PermitJoinRefresh, RefreshStarts, RefreshFails, RefreshBlocked
  <1>2. /\ cbs \in Seq(Callbacks) /\ bufs \in Seq(Requests) /\ "open" \in Requests
        /\ ChainAlive /\ TcStaysClosed /\ LocalStaysClosed /\ PolicyFollows
    BY DEF JoinInv, JTypes, Requests
  <1>3. UNCHANGED <<sregs, joined, role, recorded, sigs, local_open, tc_open, by_peer, refused, tc_policy>>
    BY <1>1 DEF RefreshUnchanged, node, opens
  <1>4. In("apply", cbs) => In("apply", cbs')
    <2>1. CASE UNCHANGED cbs
      BY <2>1 DEF In
    <2>2. CASE cbs # <<>> /\ Head(cbs) = "refresh" /\ cbs' = Tail(cbs)
      <3>1. In("apply", cbs) => In("apply", Tail(cbs))
        BY <1>2, <2>2, InTail
      <3> QED BY <2>2, <3>1 DEF In
    <2> QED BY <1>1, <2>1, <2>2 DEF Due
  <1>5. /\ Settled /\ (Coordinator' <=> Coordinator)
        /\ \A bit : Blocks(bit)' <=> Blocks(bit)
        /\ UNCHANGED val
    BY <1>3, <1>4, SettledBefore
  <1>6. PolicyFollows'
    BY <1>2, <1>3, <1>5 DEF PolicyFollows
  <1>7. CASE NotBlocked
    <2>1. ~Blocks(S0A_BLOCK_JOIN_TC)
      BY <1>7 DEF NotBlocked
    <2>2. CASE steering' = TRUE /\ bufs' = Append(bufs, "open")
      <3>1. ChainAlive'
        BY <2>2 DEF ChainAlive
      <3>2. \A x : In(x, bufs) => In(x, bufs')
        BY <1>2, <2>2, InAppend
      <3>3. Closing => Closing'
        BY <1>3, <3>2 DEF Closing, In
      <3>4. TcStaysClosed' /\ LocalStaysClosed'
        BY <1>2, <1>3, <1>5, <2>1, <3>3 DEF TcStaysClosed, LocalStaysClosed
      <3> QED BY <1>6, <3>1, <3>4 DEF Promises
    <2>3. CASE alarms' = TryAgain(left) /\ UNCHANGED <<steering, bufs>>
      <3>1. left.retry \in Nat /\ left \in [renew : {0, 1}, retry : Nat]
        BY AlarmsLeftType DEF JoinInv
      <3>2. alarms'.retry = left.retry + 1
        BY <2>3, <3>1 DEF TryAgain
      <3>3. alarms' # NoAlarm
        BY <3>1, <3>2 DEF NoAlarm
      <3>4. ChainAlive'
        BY <3>3 DEF ChainAlive, NoAlarm
      <3>5. TcStaysClosed' /\ LocalStaysClosed'
        BY <1>2, <1>3, <1>5, <2>1, <2>3 DEF TcStaysClosed, LocalStaysClosed, Closing, In
      <3> QED BY <1>6, <3>4, <3>5 DEF Promises
    <2> QED BY <1>1, <1>7, <2>2, <2>3
  <1>8. CASE ~NotBlocked
    <2>1. Blocks(S0A_BLOCK_JOIN_TC) /\ UNCHANGED bufs
      BY <1>1, <1>8 DEF NotBlocked
    <2>2. ChainAlive'
      BY <1>5, <2>1 DEF ChainAlive
    <2>3. TcStaysClosed' /\ LocalStaysClosed'
      BY <1>2, <1>3, <1>5, <2>1
         DEF TcStaysClosed, Shut, LocalStaysClosed, Closing, ClosingLast, In
    <2> QED BY <1>6, <2>2, <2>3 DEF Promises
  <1> QED BY <1>7, <1>8

LEMMA SignalStep == JoinInv /\ Signal => Promises'
  <1> SUFFICES ASSUME JoinInv, Signal, Settled' PROVE Promises'
    BY NoPromise
  <1>1. /\ cbs \in Seq(Callbacks) /\ bufs \in Seq(Requests) /\ sigs \in Seq(Signals)
        /\ "apply" \in Callbacks /\ "close_local" \in Requests /\ sigs # <<>>
        /\ ChainAlive /\ TcStaysClosed /\ LocalStaysClosed /\ PolicyFollows
    BY DEF JoinInv, JTypes, Callbacks, Requests, Signal
  <1>2. /\ UNCHANGED <<sregs, joined, role, steering, local_open, tc_open, by_peer, tc_policy>>
        /\ sigs' = Tail(sigs)
    BY DEF Signal
  <1>3. \A x : In(x, sigs) <=> x = Head(sigs) \/ In(x, sigs')
    BY <1>1, <1>2, InTail
  <1>4. Head(sigs) # "UP"
    <2>1. SUFFICES ASSUME Head(sigs) = "UP" PROVE FALSE
      OBVIOUS
    <2>2. cbs' = Append(cbs, "apply")
      BY <2>1 DEF Signal
    <2>3. In("apply", cbs')
      BY <1>1, <2>2, InAppend
    <2> QED BY <2>3 DEF Settled, In
  <1>5. UNCHANGED <<cbs, recorded>>
    BY <1>4 DEF Signal
  <1>6. /\ Settled /\ (Coordinator' <=> Coordinator)
        /\ \A bit : Blocks(bit)' <=> Blocks(bit)
        /\ UNCHANGED val
    BY <1>2, <1>3, <1>4, <1>5, SettledBefore DEF In
  <1>7. PolicyFollows'
    BY <1>1, <1>2, <1>6 DEF PolicyFollows
  <1>8. CASE Head(sigs) = "PERMIT"
    <2>1. CloseLocal /\ UNCHANGED alarms
      BY <1>8 DEF Signal, WhenOpened
    <2>5. /\ "tc" \in refused' <=> "tc" \in refused
          /\ Blocks(S0A_BLOCK_JOIN_LOCAL) => In("close_local", bufs') \/ "local" \in refused'
          /\ ClosingLast => ClosingLast'
          /\ In("open", bufs') <=> In("open", bufs)
      BY <2>1, ClosesLocal DEF JoinInv
    <2>2. ChainAlive'
      BY <1>1, <1>2, <1>3, <1>5, <1>6, <1>8, <2>1 DEF ChainAlive, In
    <2>3. LocalStaysClosed'
      BY <1>6, <2>5 DEF LocalStaysClosed, Closing, In
    <2>4. TcStaysClosed'
      <3>1. Coordinator' /\ Blocks(S0A_BLOCK_JOIN_TC)' => Shut
        BY <1>1, <1>6 DEF TcStaysClosed
      <3>2. Shut => Shut'
        BY <1>2, <2>5 DEF Shut, In
      <3> QED BY <3>1, <3>2 DEF TcStaysClosed
    <2> QED BY <1>7, <2>2, <2>3, <2>4 DEF Promises
  <1>9. CASE Head(sigs) # "PERMIT"
    <2>1. PICK ok \in BOOLEAN : alarms' = SetAlarm(AfterSteering(ok)) /\ UNCHANGED <<bufs, refused>>
      BY <1>4, <1>9 DEF Signal
    <2>2. alarms' # NoAlarm
      <3>1. NoAlarm.renew = 0 /\ NoAlarm.retry = 0
        BY DEF NoAlarm
      <3>2. alarms'.renew = 1 \/ alarms'.retry = 1
        BY <2>1 DEF SetAlarm, AfterSteering, NoAlarm
      <3> QED BY <3>1, <3>2
    <2>3. ChainAlive'
      BY <2>2 DEF ChainAlive, NoAlarm
    <2>4. TcStaysClosed'
      BY <1>1, <1>2, <1>6, <2>1 DEF TcStaysClosed, Shut, ClosingLast, In
    <2>5. Closing => Closing'
      BY <1>3, <1>9, <2>1 DEF Closing, In
    <2>6. LocalStaysClosed'
      BY <1>1, <1>2, <1>5, <1>6, <2>1, <2>5 DEF LocalStaysClosed
    <2> QED BY <1>7, <2>3, <2>4, <2>6 DEF Promises
  <1> QED BY <1>8, <1>9

\* The end of a steering, or a message that closes, leaves the queue of buffers.
LEMMA BufferServed ==
  ASSUME JoinInv, NEW what, NextBuf(what)
  PROVE  /\ bufs \in Seq(Requests) /\ sigs \in Seq(Signals)
         /\ "PERMIT" \in Signals /\ "STEERING_OK" \in Signals /\ "STEERING_FAIL" \in Signals
         /\ ChainAlive /\ TcStaysClosed /\ LocalStaysClosed /\ PolicyFollows
         /\ UNCHANGED <<sregs, joined, role, recorded, cbs, alarms, tc_policy>>
         /\ \A x : In(x, bufs) <=> x = what \/ In(x, bufs')
         /\ ClosingLast => ClosingLast' \/ (what = "close_network" /\ ~In("open", bufs'))
  <1>1. /\ bufs # <<>> /\ Head(bufs) = what /\ bufs' = Tail(bufs) /\ bufs \in Seq(Requests)
        /\ UNCHANGED <<sregs, joined, role, recorded, cbs, alarms, tc_policy>>
    BY DEF NextBuf, node, JoinInv, JTypes
  <1>2. \A x : In(x, bufs) <=> x = what \/ In(x, bufs')
    BY <1>1, InTail
  <1>3. Last(bufs) => Last(bufs') \/ (what = "close_network" /\ ~In("open", bufs'))
    BY <1>1, LastTail
  <1>4. ClosingLast => ClosingLast' \/ (what = "close_network" /\ ~In("open", bufs'))
    BY <1>3 DEF ClosingLast, Last
  <1> QED BY <1>1, <1>2, <1>4 DEF JoinInv, JTypes, Signals

LEMMA OpenedStep == JoinInv /\ (Opens \/ OpenFails) => Promises'
  <1> SUFFICES ASSUME JoinInv, Opens \/ OpenFails, Settled' PROVE Promises'
    BY NoPromise
  <1>1. NextBuf("open")
    BY DEF Opens, OpenFails
  <1>2. /\ bufs \in Seq(Requests) /\ sigs \in Seq(Signals)
        /\ "PERMIT" \in Signals /\ "STEERING_OK" \in Signals /\ "STEERING_FAIL" \in Signals
        /\ ChainAlive /\ TcStaysClosed /\ LocalStaysClosed /\ PolicyFollows
        /\ UNCHANGED <<sregs, joined, role, recorded, cbs, alarms, tc_policy>>
        /\ \A x : In(x, bufs) <=> x = "open" \/ In(x, bufs')
        /\ ClosingLast => ClosingLast'
    BY <1>1, BufferServed
  <1>3. /\ \A x : In(x, sigs) => In(x, sigs')
        /\ In("STEERING_OK", sigs') \/ In("STEERING_FAIL", sigs')
        /\ Opens => In("PERMIT", sigs')
    <2>1. CASE Opens
      <3>1. /\ sigs' = Append(Append(sigs, "PERMIT"), "STEERING_OK")
            /\ Append(sigs, "PERMIT") \in Seq(Signals)
        BY <1>2, <2>1, AppendType DEF Opens
      <3>2. \A x : In(x, sigs') <=> In(x, sigs) \/ x = "PERMIT" \/ x = "STEERING_OK"
        BY <1>2, <3>1, InAppend
      <3> QED BY <3>2
    <2>2. CASE OpenFails /\ ~Opens
      <3>1. sigs' = Append(sigs, "STEERING_FAIL")
        BY <2>2 DEF OpenFails
      <3>2. \A x : In(x, sigs') <=> In(x, sigs) \/ x = "STEERING_FAIL"
        BY <1>2, <3>1, InAppend
      <3> QED BY <2>2, <3>2
    <2> QED BY <2>1, <2>2
  <1>4. /\ Settled /\ (Coordinator' <=> Coordinator)
        /\ \A bit : Blocks(bit)' <=> Blocks(bit)
        /\ UNCHANGED val
    BY <1>2, <1>3, SettledBefore DEF In
  <1>5. PolicyFollows'
    BY <1>2, <1>4 DEF PolicyFollows
  <1>6. ChainAlive'
    BY <1>3 DEF ChainAlive, In
  <1>7. TcStaysClosed'
    <2>1. In("open", bufs)
      BY <1>2
    <2>2. Coordinator /\ Blocks(S0A_BLOCK_JOIN_TC) => "tc" \in refused \/ ClosingLast
      BY <1>2, <2>1 DEF TcStaysClosed, Shut
    <2>3. UNCHANGED refused
      BY DEF Opens, OpenFails, opens
    <2> QED BY <1>2, <1>4, <2>2, <2>3 DEF TcStaysClosed, Shut
  <1>8. LocalStaysClosed'
    <2>1. CASE Opens
      BY <1>3, <2>1 DEF LocalStaysClosed, Closing, In
    <2>2. CASE OpenFails
      <3>1. UNCHANGED <<local_open, refused>>
        BY <2>2 DEF OpenFails, opens
      <3>2. Closing => Closing'
        BY <1>2, <1>3 DEF Closing, In
      <3> QED BY <1>2, <1>4, <3>1, <3>2 DEF LocalStaysClosed
    <2> QED BY <2>1, <2>2
  <1> QED BY <1>5, <1>6, <1>7, <1>8 DEF Promises

LEMMA ClosedStep == JoinInv /\ (CloseSent \/ CloseRefused) => Promises'
  <1> SUFFICES ASSUME JoinInv, CloseSent \/ CloseRefused, Settled' PROVE Promises'
    BY NoPromise
  <1>1. PICK what \in {"close_network", "close_local"} :
          /\ NextBuf(what) /\ UNCHANGED <<sigs, steering>>
          /\ local_open' = FALSE \/ "local" \in refused'
          /\ what = "close_network" =>
                \/ "tc" \in refused'
                \/ tc_open' = FALSE /\ (In("open", bufs') => "tc" \notin refused)
          /\ what = "close_local" =>
                /\ UNCHANGED <<tc_open, by_peer>>
                /\ refused' = refused \ {"local"} \/ refused' = refused \cup {"local"}
    BY DEF CloseSent, CloseRefused
  <1>2. /\ ChainAlive /\ TcStaysClosed /\ LocalStaysClosed /\ PolicyFollows
        /\ UNCHANGED <<sregs, joined, role, recorded, cbs, alarms, tc_policy>>
        /\ \A x : In(x, bufs) <=> x = what \/ In(x, bufs')
        /\ ClosingLast => ClosingLast' \/ (what = "close_network" /\ ~In("open", bufs'))
    BY <1>1, BufferServed
  <1>3. /\ Settled /\ (Coordinator' <=> Coordinator)
        /\ \A bit : Blocks(bit)' <=> Blocks(bit)
        /\ UNCHANGED val
    BY <1>1, <1>2, SettledBefore DEF In
  <1>4. PolicyFollows'
    BY <1>2, <1>3 DEF PolicyFollows
  <1>5. ChainAlive'
    BY <1>1, <1>2, <1>3 DEF ChainAlive, In
  <1>6. LocalStaysClosed'
    BY <1>1 DEF LocalStaysClosed
  <1>7. TcStaysClosed'
    <2> SUFFICES ASSUME Coordinator, Blocks(S0A_BLOCK_JOIN_TC), ~ClosingLast', "tc" \notin refused'
                 PROVE  ~In("open", bufs') /\ (~tc_open' \/ by_peer')
      BY <1>3 DEF TcStaysClosed, Shut, In
    <2>1. CASE what = "close_network"
      <3>1. tc_open' = FALSE /\ (In("open", bufs') => "tc" \notin refused)
        BY <1>1, <2>1
      <3>2. ~In("open", bufs')
        BY <1>2, <3>1 DEF TcStaysClosed, Shut
      <3> QED BY <3>1, <3>2
    <2>2. CASE what = "close_local"
      <3>1. "tc" \notin refused /\ ~ClosingLast
        BY <1>1, <1>2, <2>2
      <3>2. ~In("open", bufs) /\ (~tc_open \/ by_peer)
        BY <1>2, <3>1 DEF TcStaysClosed, Shut
      <3> QED BY <1>1, <1>2, <2>2, <3>2
    <2> QED BY <2>1, <2>2
  <1> QED BY <1>4, <1>5, <1>6, <1>7 DEF Promises

LEMMA NetworkStep == JoinInv /\ Network => Promises'
  <1> SUFFICES ASSUME JoinInv, Network, Settled' PROVE Promises'
    BY NoPromise
  <1>1. /\ sigs \in Seq(Signals) /\ "UP" \in Signals /\ "PERMIT" \in Signals
        /\ ChainAlive /\ TcStaysClosed /\ LocalStaysClosed /\ PolicyFollows
    BY DEF JoinInv, JTypes, Signals
  <1>2. ASSUME NEW r \in {"ZC", "ZR"}, NetworkStarts(r) PROVE Promises'
    <2>1. sigs' # Append(sigs, "UP")
      <3>1. In("UP", Append(sigs, "UP"))
        BY <1>1, InAppend
      <3> QED BY <3>1 DEF Settled, In
    <2>2. role' = "ZR" /\ ~recorded'
      BY <1>2, <2>1 DEF NetworkStarts
    <2> QED BY <2>2 DEF Promises, ChainAlive, TcStaysClosed, LocalStaysClosed, PolicyFollows, Coordinator
  <1>3. CASE ParentLost
    BY <1>3 DEF ParentLost, Settled
  <1>4. CASE Lapse
    <2>1. /\ UNCHANGED <<sregs, joined, role, cbs, sigs, bufs, steering, alarms, tc_policy>>
          /\ local_open' = FALSE /\ tc_open' = FALSE
          /\ In("open", bufs) => refused' = refused
      BY <1>4 DEF Lapse, node, queues
    <2>2. /\ Settled /\ (Coordinator' <=> Coordinator)
          /\ \A bit : Blocks(bit)' <=> Blocks(bit)
          /\ UNCHANGED val
      BY <2>1, SettledBefore DEF In
    <2>3. ChainAlive' /\ PolicyFollows'
      BY <1>1, <2>1, <2>2 DEF ChainAlive, PolicyFollows, In
    <2>4. TcStaysClosed'
      BY <1>1, <2>1, <2>2 DEF TcStaysClosed, Shut, ClosingLast, In
    <2>5. LocalStaysClosed'
      BY <2>1 DEF LocalStaysClosed
    <2> QED BY <2>3, <2>4, <2>5 DEF Promises
  <1>5. CASE PeerOpens
    <2>1. /\ UNCHANGED <<sregs, joined, role, cbs, bufs, steering, alarms, tc_policy, refused>>
          /\ role = "ZC" => by_peer' = TRUE
          /\ sigs' = Append(sigs, "PERMIT")
      BY <1>5 DEF PeerOpens, node
    <2>2. /\ In("PERMIT", sigs')
          /\ \A x : In(x, sigs) => In(x, sigs')
      BY <1>1, <2>1, InAppend
    <2>3. LocalStaysClosed'
      BY <2>2 DEF LocalStaysClosed, Closing, In
    <2>5. /\ Settled /\ (Coordinator' <=> Coordinator)
          /\ \A bit : Blocks(bit)' <=> Blocks(bit)
          /\ UNCHANGED val
      BY <2>1, <2>2, SettledBefore DEF In
    <2>4. ChainAlive' /\ PolicyFollows'
      BY <1>1, <2>1, <2>2, <2>5 DEF ChainAlive, PolicyFollows, In
    <2>6. TcStaysClosed'
      BY <1>1, <2>1, <2>5 DEF TcStaysClosed, Coordinator, Shut, ClosingLast, In
    <2> QED BY <2>3, <2>4, <2>6 DEF Promises
  <1> QED BY <1>2, <1>3, <1>4, <1>5 DEF Network

-----------------------------------------------------------------------------

LEMMA JoinInitOK == JoinInit => JoinInv
  <1> SUFFICES ASSUME JoinInit PROVE JoinInv
    OBVIOUS
  <1>1. IInv
    BY InitOK DEF JoinInit
  <1>2. JTypes
    BY EmptyType DEF JoinInit, Off, JTypes, NoAlarm
  <1>3. ~Settled
    BY DEF JoinInit, Off, Settled
  <1> QED BY <1>1, <1>2, <1>3, Unsettled DEF JoinInv, Promises

LEMMA JoinNextOK == JoinInv /\ [JoinNext]_vars => JoinInv'
  <1> SUFFICES ASSUME JoinInv, [JoinNext]_vars PROVE JoinInv'
    OBVIOUS
  <1>1. [Next]_sregs
    <2>1. CASE UNCHANGED vars
      BY <2>1 DEF vars
    <2>2. CASE AtThread \/ CmdFactory \/ Restart
      BY <2>2 DEF AtThread, AtWrites, SregWritten, CmdFactory, Restart, Next
    <2>3. CASE Zboss
      BY <2>3 DEF Zboss, JoinPolicyApply, PermitJoinRefresh, RefreshStarts, RefreshFails,
                  RefreshBlocked, RefreshUnchanged, Signal
    <2>4. CASE Buffers
      BY <2>4 DEF Buffers, Opens, OpenFails, CloseSent, CloseRefused, NextBuf
    <2>5. CASE Network
      BY <2>5 DEF Network, NetworkStarts, ParentLost, Lapse, PeerOpens
    <2> QED BY <2>1, <2>2, <2>3, <2>4, <2>5 DEF JoinNext
  <1>2. IInv'
    BY <1>1, NextOK DEF JoinInv
  <1>3. JTypes'
    <2>1. JTypes
      BY DEF JoinInv
    <2>2. CASE UNCHANGED vars
      BY <2>1, <2>2 DEF vars, joins, node, queues, opens, JTypes
    <2>3. CASE JoinNext
      BY <2>1, <2>3, AtTypes, ApplyTypes, RefreshTypes, SignalTypes, StackTypes
         DEF JoinNext, AtThread, Zboss
    <2> QED BY <2>2, <2>3
  <1>4. Promises'
    <2>1. CASE UNCHANGED vars
      <3>1. UNCHANGED sregs /\ UNCHANGED joins
        BY <2>1 DEF vars
      <3>2. Settled' => Settled /\ val'[MainReg] = val[MainReg]
        BY <3>1 DEF sregs, joins, node, queues, Settled, In
      <3>3. Promises
        BY DEF JoinInv, Promises
      <3> QED BY <3>1, <3>2, <3>3, Frame
    <2>2. CASE JoinNext
      BY <2>2, AtStep, ApplyStep, RefreshStep, SignalStep, OpenedStep, ClosedStep, NetworkStep
         DEF JoinNext, AtThread, Zboss, Buffers
    <2> QED BY <2>1, <2>2
  <1> QED BY <1>2, <1>3, <1>4 DEF JoinInv, Promises

\* The inductive invariant of the registers and the control of joining.
THEOREM JoinInvariance == JoinSpec => []JoinInv
  <1> QED BY JoinInitOK, JoinNextOK, PTL DEF JoinSpec

-----------------------------------------------------------------------------

\* The registers, the queues and the alarms have their types (zb_core.c).
THEOREM JoinTypeCorrect == JoinSpec => []JoinTypeOK
  <1>1. JoinInv => JoinTypeOK
    BY DEF JoinInv, JoinTypeOK, JTypes, IInv, Callbacks, Signals, Requests
  <1> QED BY <1>1, JoinInvariance, PTL

\* With bit 5 clear a coordinator is always about to open its network again: an alarm or
\* a steering is pending, whatever failed (permit_join_refresh and the steering's signal).
THEOREM ChainAliveHolds == JoinSpec => []ChainAlive
  <1>1. JoinInv => ChainAlive
    BY DEF JoinInv
  <1> QED BY <1>1, JoinInvariance, PTL

\* With bit 5 set and applied, nothing of this node opens the Trust Centre after the last
\* closing, unless that was refused; only another node may have opened it (close_network
\* behind a steering under way, permit_join_refresh that finds the bit set).
THEOREM TcStaysClosedHolds == JoinSpec => []TcStaysClosed
  <1>1. JoinInv => TcStaysClosed
    BY DEF JoinInv
  <1> QED BY <1>1, JoinInvariance, PTL

\* With bit 0 set and applied, what opens this node, another one included, is followed by
\* what closes it, unless that is refused (ZB_NWK_SIGNAL_PERMIT_JOIN_STATUS).
THEOREM LocalStaysClosedHolds == JoinSpec => []LocalStaysClosed
  <1>1. JoinInv => LocalStaysClosed
    BY DEF JoinInv
  <1> QED BY <1>1, JoinInvariance, PTL

\* The Trust Centre's policy is that of S0A whenever nothing is about to apply S0A, though
\* the ZBOSS thread may have applied a half written value (join_policy_apply, sreg_written).
THEOREM PolicyFollowsHolds == JoinSpec => []PolicyFollows
  <1>1. JoinInv => PolicyFollows
    BY DEF JoinInv
  <1> QED BY <1>1, JoinInvariance, PTL
=============================================================================
