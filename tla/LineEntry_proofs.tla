-------------------------- MODULE LineEntry_proofs --------------------------
(***************************************************************************)
(* Safety of LineEntry for any keys, sizes, lengths and number of bytes:   *)
(* a binary entry gets its bytes, all of them and no other, and a line is  *)
(* executed as it was typed.                                               *)
(***************************************************************************)
EXTENDS LineEntry, SequenceTheorems, WellFoundedInduction, TLAPS

-----------------------------------------------------------------------------
(* The inductive invariant.                                                *)

\* The first n bytes after the entry began.
FirstBytes(n) == [k \in 1..n |-> asked + k]

\* An entry that is asked for either lacks bytes and has no completion, or is complete
\* and has its completion, which only this entry can have given.
EntryInv ==
  /\ pc \in {"reset", "arm", "prompt", "wait", "disarm"} => len \in Lens
  /\ pc \in {"prompt", "wait", "disarm"} =>
       \/ /\ bin_need = len /\ bin_have < len /\ bin_done = 0
          /\ received = asked + bin_have /\ buf = FirstBytes(bin_have)
       \/ /\ bin_need = 0 /\ bin_done = 1 /\ buf = FirstBytes(len)
  /\ pc \notin {"prompt", "wait", "disarm"} => bin_need = 0
  /\ pc = "arm" => bin_done = 0

IInv == TypeOK /\ EntryInv /\ EntryIntact

LEMMA LensPositive == \A n \in Lens : n \in Nat /\ n > 0
  BY SizesAssumption

LEMMA FirstBytesType ==
  ASSUME NEW n \in Nat, asked \in Nat, asked + n <= MaxBytes, MaxBytes \in Nat
  PROVE  FirstBytes(n) \in Seq(1..MaxBytes)
  BY DEF FirstBytes

LEMMA InitInv == Init => IInv
  <1> SUFFICES ASSUME Init PROVE IInv
    OBVIOUS
  <1>1. rx_overflow \in BOOLEAN
    BY Zenon DEF Init
  <1>2. TypeOK
    BY <1>1, SizesAssumption DEF Init, TypeOK
  <1>3. EntryInv /\ EntryIntact
    BY DEF Init, EntryInv, EntryIntact
  <1> QED BY <1>2, <1>3 DEF IInv

-----------------------------------------------------------------------------
(* The RX thread.                                                          *)

LEMMA BinByteInv ==
  ASSUME IInv, NEW c, RxByte(c), BinByte
  PROVE  IInv'
  <1>1. pc \in {"prompt", "wait", "disarm"} /\ bin_need = len /\ len \in Lens /\ bin_have < len
        /\ bin_done = 0 /\ received = asked + bin_have /\ buf = FirstBytes(bin_have)
    BY DEF IInv, TypeOK, EntryInv, BinByte, BinPending
  <1>2. /\ bin_have' = bin_have + 1 /\ received' = received + 1 /\ received < MaxBytes
        /\ bin_have \in Nat /\ asked \in Nat /\ len \in Nat /\ MaxBytes \in Nat /\ received \in Nat
        /\ UNCHANGED <<pc, current_line, len, result, asked, rx_line, typed, line_q, rx_overflow>>
    BY <1>1, LensPositive, SizesAssumption DEF IInv, TypeOK, RxByte, BinByte, caller, typing
  <1>3. buf' = FirstBytes(bin_have + 1)
    <2> DEFINE next == [k \in 1..bin_have + 1 |-> IF k > bin_have THEN received + 1 ELSE buf[k]]
    <2>1. buf' = next
      BY DEF BinByte
    <2>2. \A k \in 1..bin_have + 1 : next[k] = asked + k
      BY <1>1, <1>2 DEF FirstBytes
    <2> QED BY <2>1, <2>2 DEF FirstBytes
  <1>4. buf' \in Seq(1..MaxBytes)
    BY <1>1, <1>2, <1>3, FirstBytesType
  <1>6. CASE bin_have + 1 = bin_need
    <2>1. bin_need' = 0 /\ bin_done' = 1 /\ bin_have' = len
      BY <1>1, <1>2, <1>6 DEF BinByte
    <2>2. EntryInv' /\ EntryIntact'
      BY <1>1, <1>2, <1>3, <2>1 DEF EntryInv, EntryIntact, FirstBytes
    <2>3. TypeOK'
      BY <1>2, <1>4, <2>1 DEF IInv, TypeOK
    <2> QED BY <2>2, <2>3 DEF IInv
  <1>7. CASE bin_have + 1 # bin_need
    <2>1. bin_need' = bin_need /\ bin_done' = 0 /\ bin_have' < len
      BY <1>1, <1>2, <1>7, LensPositive DEF BinByte
    <2>2. EntryInv' /\ EntryIntact'
      BY <1>1, <1>2, <1>3, <2>1 DEF EntryInv, EntryIntact, FirstBytes
    <2>3. TypeOK'
      BY <1>2, <1>4, <2>1 DEF IInv, TypeOK
    <2> QED BY <2>2, <2>3 DEF IInv
  <1> QED BY <1>6, <1>7

LEMMA LineByteInv ==
  ASSUME IInv, NEW c \in Keys \cup {"CR", "LF", "BS"}, RxByte(c), LineByte(c)
  PROVE  IInv'
  <1>1. /\ UNCHANGED <<pc, current_line, len, result, asked, bin_need, bin_have, bin_done, buf>>
        /\ received' = received + 1 /\ received < MaxBytes /\ ~BinPending
    BY DEF RxByte, LineByte, caller, bin
  <1>2. /\ rx_line' \in Seq(Keys) /\ Len(rx_line') < AT_LINE_MAX /\ rx_overflow' \in BOOLEAN
        /\ line_q' \in Seq(Seq(Keys) \cup {Overflow}) /\ Len(line_q') <= LINE_Q_DEPTH
        /\ typed' \in Seq(Keys \cup {"BS"})
    <2> USE DEF IInv, TypeOK
    <2>1. CASE c = "LF" /\ UNCHANGED <<typing, line_q>>
      BY <2>1 DEF typing
    <2>2. CASE c = "CR" /\ EndOfLine
      <3>1. rx_overflow' = FALSE
        BY <2>2, Zenon DEF EndOfLine
      <3>2. rx_line' = <<>> /\ typed' = <<>>
        BY <2>2, Zenon DEF EndOfLine
      <3>3. line_q' \in Seq(Seq(Keys) \cup {Overflow}) /\ Len(line_q') <= LINE_Q_DEPTH
        <4> DEFINE L == Seq(Keys) \cup {Overflow}
        <4>1. line_q \in Seq(L) /\ Len(line_q) <= LINE_Q_DEPTH /\ LINE_Q_DEPTH \in Nat
          BY SizesAssumption
        <4>2. line_q' = line_q \/ \E l \in L : line_q' = Append(line_q, l) /\ Len(line_q) # LINE_Q_DEPTH
          BY <2>2 DEF EndOfLine
        <4> HIDE DEF L
        <4>3. ASSUME NEW l \in L, line_q' = Append(line_q, l), Len(line_q) # LINE_Q_DEPTH
              PROVE  line_q' \in Seq(L) /\ Len(line_q') <= LINE_Q_DEPTH
          BY <4>1, <4>3
        <4>4. line_q' \in Seq(L) /\ Len(line_q') <= LINE_Q_DEPTH
          BY <4>1, <4>2, <4>3, Zenon
        <4> QED BY <4>4 DEF L
      <3>4. rx_overflow' \in BOOLEAN
        BY <3>1, Zenon
      <3>5. rx_line' \in Seq(Keys) /\ Len(rx_line') < AT_LINE_MAX /\ typed' \in Seq(Keys \cup {"BS"})
        BY <3>2, SizesAssumption
      <3> QED BY <3>3, <3>4, <3>5, Zenon
    <2>3. CASE c = "BS" /\ Backspace /\ typed' = Append(typed, c)
      BY <2>3, SizesAssumption DEF Backspace, Front
    <2>4. CASE c \in Keys /\ Key(c) /\ typed' = Append(typed, c)
      <3>1. rx_overflow' \in BOOLEAN
        BY <2>4, Zenon DEF Key
      <3>2. line_q' = line_q /\ typed' = Append(typed, c)
        BY <2>4, Zenon DEF Key
      <3>3. ASSUME Len(rx_line) < AT_LINE_MAX - 1
            PROVE  rx_line' \in Seq(Keys) /\ Len(rx_line') < AT_LINE_MAX
        <4>1. rx_line' = Append(rx_line, c)
          BY <2>4, <3>3, Zenon DEF Key
        <4>2. rx_line \in Seq(Keys) /\ c \in Keys
          BY <2>4
        <4> QED BY ONLY <4>1, <4>2, <3>3, SizesAssumption
      <3>4. ASSUME ~(Len(rx_line) < AT_LINE_MAX - 1)
            PROVE  rx_line' \in Seq(Keys) /\ Len(rx_line') < AT_LINE_MAX
        <4>1. rx_line' = rx_line
          BY <2>4, <3>4, Zenon DEF Key
        <4> QED BY <4>1
      <3>5. typed' \in Seq(Keys \cup {"BS"})
        BY <2>4, <3>2
      <3>6. line_q' \in Seq(Seq(Keys) \cup {Overflow}) /\ Len(line_q') <= LINE_Q_DEPTH
        BY <3>2, Zenon
      <3> QED BY <3>1, <3>3, <3>4, <3>5, <3>6, Zenon
    <2> QED BY <2>1, <2>2, <2>3, <2>4 DEF LineByte
  <1>3. TypeOK'
    BY <1>1, <1>2, SizesAssumption DEF IInv, TypeOK
  <1>4. EntryInv' /\ EntryIntact'
    BY <1>1, SizesAssumption, LensPositive DEF IInv, TypeOK, EntryInv, EntryIntact, FirstBytes, BinPending
  <1> QED BY <1>3, <1>4 DEF IInv

-----------------------------------------------------------------------------
(* The AT thread.                                                          *)

LEMMA AtThreadInv ==
  ASSUME IInv, AtThread
  PROVE  IInv'
  <1> USE DEF IInv, TypeOK, typing, bin, caller, Goto
  <1>1. CASE GetLine
    <2>1. line_q' \in Seq(Seq(Keys) \cup {Overflow}) /\ Len(line_q') <= LINE_Q_DEPTH
          /\ current_line' \in Seq(Keys) \cup {Overflow}
      <3> DEFINE L == Seq(Keys) \cup {Overflow}
      <3>1. line_q \in Seq(L) /\ line_q # <<>> /\ Len(line_q) <= LINE_Q_DEPTH
            /\ line_q' = Tail(line_q) /\ current_line' = Head(line_q)
        BY <1>1 DEF GetLine
      <3> HIDE DEF L
      <3>2. line_q' \in Seq(L) /\ Len(line_q') <= LINE_Q_DEPTH /\ current_line' \in L
        BY <3>1, SizesAssumption
      <3> QED BY <3>2 DEF L
    <2>2. TypeOK'
      BY <1>1, <2>1 DEF GetLine
    <2>3. EntryInv' /\ EntryIntact'
      BY <1>1 DEF GetLine, EntryInv, EntryIntact
    <2> QED BY <2>2, <2>3
  <1>2. CASE Execute
    <2>1. TypeOK'
      BY <1>2 DEF Execute
    <2>2. EntryInv' /\ EntryIntact'
      BY <1>2 DEF Execute, EntryInv, EntryIntact
    <2> QED BY <2>1, <2>2
  <1>3. CASE Reset
    <2>1. TypeOK'
      BY <1>3 DEF Reset, ResetDone
    <2>2. EntryInv' /\ EntryIntact'
      BY <1>3 DEF Reset, ResetDone, EntryInv, EntryIntact
    <2> QED BY <2>1, <2>2
  <1>4. CASE Arm
    <2>1. TypeOK'
      BY <1>4 DEF Arm, EntryInv
    <2>2. EntryInv' /\ EntryIntact'
      BY <1>4, LensPositive DEF Arm, EntryInv, EntryIntact, FirstBytes
    <2> QED BY <2>1, <2>2
  <1>5. CASE PromptHost
    BY <1>5 DEF PromptHost, EntryInv, EntryIntact, FirstBytes
  <1>6. CASE Take
    BY <1>6 DEF Take, EntryInv, EntryIntact, FirstBytes
  <1>7. CASE TakeTimesOut
    BY <1>7 DEF TakeTimesOut, EntryInv, EntryIntact, FirstBytes
  <1>8. CASE Disarm
    BY <1>8 DEF Disarm, ClearEntry, EntryInv, EntryIntact, FirstBytes
  <1>9. CASE Answer
    BY <1>9 DEF Answer, EntryInv, EntryIntact, FirstBytes
  <1> QED BY <1>1, <1>2, <1>3, <1>4, <1>5, <1>6, <1>7, <1>8, <1>9 DEF AtThread, Prepare

LEMMA NextInv == IInv /\ [Next]_vars => IInv'
  <1> SUFFICES ASSUME IInv, [Next]_vars PROVE IInv'
    OBVIOUS
  <1>1. CASE AtThread
    BY <1>1, AtThreadInv
  <1>2. ASSUME NEW c \in Keys \cup {"CR", "LF", "BS"}, RxByte(c)
        PROVE  IInv'
    BY <1>2, BinByteInv, LineByteInv DEF RxByte
  <1>3. CASE UNCHANGED vars
    BY <1>3 DEF vars, typing, bin, caller, IInv, TypeOK, EntryInv, EntryIntact, FirstBytes
  <1> QED BY <1>1, <1>2, <1>3 DEF Next

LEMMA Invariant == Spec => []IInv
  BY InitInv, NextInv, PTL DEF Spec

-----------------------------------------------------------------------------
(* Lines as they are edited: a function defined by recursion over the keys.  *)

\* Induction over the natural numbers, by the least number that is not in a set.
LEMMA Induction ==
  ASSUME NEW T, 0 \in T, \A n \in Nat : n \in T => n + 1 \in T
  PROVE  Nat \subseteq T
  <1> DEFINE R == {p \in Nat \X Nat : p[1] < p[2]}
             Out == Nat \ T
  <1>1. IsWellFoundedOn(R, Nat)
    <2>1. IsWellFoundedOn(OpToRel(<, Nat), Nat)
      BY NatLessThanWellFounded
    <2>2. OpToRel(<, Nat) = R
      BY DEF OpToRel
    <2> QED BY <2>1, <2>2
  <1> HIDE DEF R
  <1> SUFFICES ASSUME Out # {} PROVE FALSE
    OBVIOUS
  <1>2. PICK n \in Out : \A m \in Out : <<m, n>> \notin R
    <2>1. Out \subseteq Nat
      OBVIOUS
    <2> HIDE DEF Out
    <2> QED BY <1>1, <2>1, WFMin
  <1>3. n \in Nat /\ n # 0
    OBVIOUS
  <1>4. n - 1 \in Nat /\ <<n - 1, n>> \in R
    BY <1>3 DEF R
  <1>5. n - 1 \in T
    BY <1>2, <1>4
  <1> QED BY <1>3, <1>4, <1>5

\* The equation that defines Edits has a solution for every sequence of keys.
Lines(f, keys, N) == [n \in 0..N |-> IF n = 0 THEN <<>> ELSE EditKey(f[n - 1], keys[n])]

LEMMA EditsExist ==
  ASSUME NEW keys, NEW N \in Nat
  PROVE  \E f : f = Lines(f, keys, N)
  <1> DEFINE T == {n \in Nat : \E f : f = Lines(f, keys, n)}
  <1>1. 0 \in T
    <2> DEFINE f == [n \in 0..0 |-> <<>>]
    <2>1. f = Lines(f, keys, 0)
      BY DEF Lines
    <2> QED BY <2>1
  <1>2. ASSUME NEW n \in Nat, n \in T PROVE n + 1 \in T
    <2>1. PICK f : f = Lines(f, keys, n)
      BY <1>2
    <2> DEFINE g == [k \in 0..n + 1 |-> IF k <= n THEN f[k] ELSE EditKey(f[n], keys[n + 1])]
    <2>2. ASSUME NEW k \in 0..n + 1
          PROVE  g[k] = IF k = 0 THEN <<>> ELSE EditKey(g[k - 1], keys[k])
      <3>1. CASE k <= n
        <4>1. f[k] = IF k = 0 THEN <<>> ELSE EditKey(f[k - 1], keys[k])
          BY <2>1, <3>1 DEF Lines
        <4>2. k # 0 => g[k - 1] = f[k - 1]
          BY <3>1
        <4> QED BY <3>1, <4>1, <4>2
      <3>2. CASE k = n + 1
        BY <3>2
      <3> QED BY <3>1, <3>2
    <2>3. g = Lines(g, keys, n + 1)
      BY <2>2 DEF Lines
    <2> QED BY <2>3
  <1> HIDE DEF T
  <1>3. Nat \subseteq T
    BY <1>1, <1>2, Induction
  <1> QED BY <1>3 DEF T

LEMMA EditsDef ==
  ASSUME NEW keys, Len(keys) \in Nat
  PROVE  Edits(keys) = Lines(Edits(keys), keys, Len(keys))
  <1>1. Edits(keys) = CHOOSE f : f = Lines(f, keys, Len(keys))
    BY DEF Edits, Lines
  <1> QED BY <1>1, EditsExist

\* One key more is one more step of EditKey, and the lines before stay.
LEMMA EditsStep ==
  ASSUME NEW keys, Len(keys) \in Nat
  PROVE  /\ Edits(keys)[0] = <<>>
         /\ \A n \in 1..Len(keys) : Edits(keys)[n] = EditKey(Edits(keys)[n - 1], keys[n])
  <1> DEFINE E == Edits(keys)
  <1>1. \A n \in 0..Len(keys) : E[n] = IF n = 0 THEN <<>> ELSE EditKey(E[n - 1], keys[n])
    <2>1. E = Lines(E, keys, Len(keys))
      BY EditsDef
    <2> HIDE DEF E
    <2> QED BY <2>1 DEF Lines
  <1> HIDE DEF E
  <1>2. E[0] = <<>> /\ \A n \in 1..Len(keys) : E[n] = EditKey(E[n - 1], keys[n])
    BY <1>1
  <1> QED BY <1>2 DEF E

LEMMA FrontType ==
  ASSUME NEW line \in Seq(Keys), line # <<>>
  PROVE  Front(line) \in Seq(Keys) /\ Len(Front(line)) = Len(line) - 1
  <1> DEFINE n == Len(line) - 1
  <1>1. n \in Nat /\ \A i \in 1..n : line[i] \in Keys
    OBVIOUS
  <1> HIDE DEF n
  <1>2. /\ SubSeq(line, 1, n) \in Seq(Keys)
        /\ Len(SubSeq(line, 1, n)) = IF 1 <= n THEN n - 1 + 1 ELSE 0
    BY <1>1, SubSeqProperties
  <1>3. Front(line) = SubSeq(line, 1, n)
    BY DEF Front, n
  <1>4. Len(SubSeq(line, 1, n)) = n
    BY <1>1, <1>2
  <1> QED BY <1>2, <1>3, <1>4 DEF n

LEMMA EditKeyType ==
  ASSUME NEW line \in Seq(Keys), NEW c \in Keys \cup {"BS"}
  PROVE  EditKey(line, c) \in Seq(Keys)
  <1>1. CASE line # <<>>
    BY <1>1, FrontType DEF EditKey
  <1>2. CASE line = <<>>
    BY <1>2 DEF EditKey
  <1> QED BY <1>1, <1>2

LEMMA EditsAppend ==
  ASSUME NEW S, NEW keys \in Seq(S), NEW c \in S
  PROVE  /\ \A n \in 0..Len(keys) : Edits(Append(keys, c))[n] = Edits(keys)[n]
         /\ Edited(Append(keys, c)) = EditKey(Edited(keys), c)
  <1> DEFINE more == Append(keys, c)
             T == {n \in Nat : n <= Len(keys) => Edits(more)[n] = Edits(keys)[n]}
  <1>1. Len(more) = Len(keys) + 1 /\ more[Len(keys) + 1] = c /\ \A n \in 1..Len(keys) : more[n] = keys[n]
    OBVIOUS
  <1> HIDE DEF more
  <1>2. 0 \in T
    BY <1>1, EditsStep
  <1>3. ASSUME NEW n \in Nat, n \in T PROVE n + 1 \in T
    BY <1>1, <1>3, EditsStep
  <1> HIDE DEF T
  <1>4. Nat \subseteq T
    BY <1>2, <1>3, Induction
  <1>5. \A n \in 0..Len(keys) : Edits(more)[n] = Edits(keys)[n]
    BY <1>4 DEF T
  <1>6. Edits(more)[Len(keys) + 1] = EditKey(Edits(more)[Len(keys)], c)
    <2>1. Len(more) \in Nat /\ Len(keys) + 1 \in 1..Len(more) /\ Len(keys) + 1 - 1 = Len(keys)
      BY <1>1
    <2>2. Edits(more)[Len(keys) + 1] = EditKey(Edits(more)[Len(keys) + 1 - 1], more[Len(keys) + 1])
      BY <2>1, EditsStep
    <2> QED BY <1>1, <2>1, <2>2
  <1> QED BY <1>1, <1>5, <1>6 DEF Edited, more

LEMMA TooLongAppend ==
  ASSUME NEW S, NEW keys \in Seq(S), NEW c \in S
  PROVE  TooLong(Append(keys, c)) <=> TooLong(keys) \/ Len(EditKey(Edited(keys), c)) >= AT_LINE_MAX
  <1>1. Len(Append(keys, c)) = Len(keys) + 1
    OBVIOUS
  <1>2. /\ \A n \in 1..Len(keys) : Edits(Append(keys, c))[n] = Edits(keys)[n]
        /\ Edits(Append(keys, c))[Len(keys) + 1] = EditKey(Edited(keys), c)
    BY <1>1, EditsAppend DEF Edited
  <1> QED BY <1>1, <1>2 DEF TooLong

LEMMA NothingTyped == Edited(<<>>) = <<>> /\ ~TooLong(<<>>)
  <1>1. Len(<<>>) = 0
    OBVIOUS
  <1> QED BY <1>1, EditsStep DEF Edited, TooLong

-----------------------------------------------------------------------------
(* The line.                                                               *)

\* What is in rx_line is what was typed, unless that did not fit.
TypedInv ==
  IF rx_overflow THEN TooLong(typed) ELSE ~TooLong(typed) /\ rx_line = Edited(typed)

LEMMA TypedStep ==
  ASSUME TypeOK, TypedInv, [Next]_vars
  PROVE  TypedInv'
  <1>1. CASE UNCHANGED typing
    BY <1>1 DEF typing, TypedInv, TooLong, Edited
  <1>2. CASE EndOfLine
    <2>1. ~rx_overflow' /\ rx_line' = <<>> /\ typed' = <<>>
      BY <1>2, Zenon DEF EndOfLine
    <2> QED BY <2>1, NothingTyped DEF TypedInv
  <1>3. ASSUME NEW c \in Keys \cup {"BS"}, typed' = Append(typed, c),
               (c = "BS" /\ Backspace) \/ (c \in Keys /\ Key(c))
        PROVE  TypedInv'
    <2>1. TooLong(typed') <=> TooLong(typed) \/ Len(EditKey(Edited(typed), c)) >= AT_LINE_MAX
      BY <1>3, TooLongAppend DEF TypeOK
    <2>2. Edited(typed') = EditKey(Edited(typed), c)
      BY <1>3, EditsAppend DEF TypeOK
    <2>3. CASE rx_overflow
      <3>1. rx_overflow'
        BY <1>3, <2>3, Zenon DEF Key, Backspace
      <3> QED BY <2>1, <2>3, <3>1, Zenon DEF TypedInv
    <2>4. CASE ~rx_overflow
      <3>1. ~TooLong(typed) /\ rx_line = Edited(typed)
        BY <2>4, Zenon DEF TypedInv
      <3>2. CASE c = "BS" /\ Backspace
        <4>1. ~rx_overflow' /\ rx_line' = EditKey(rx_line, c)
          BY <2>4, <3>2, Zenon DEF Backspace, EditKey
        <4>2. Len(EditKey(rx_line, c)) < AT_LINE_MAX
          <5>1. rx_line # <<>> => Len(Front(rx_line)) = Len(rx_line) - 1
            BY FrontType DEF TypeOK
          <5> QED BY <3>2, <5>1, SizesAssumption DEF TypeOK, EditKey
        <4>3. EditKey(rx_line, c) \in Seq(Keys)
          BY EditKeyType DEF TypeOK
        <4>4. ~(Len(EditKey(rx_line, c)) >= AT_LINE_MAX)
          BY <4>2, <4>3, SizesAssumption
        <4> QED BY <2>1, <2>2, <3>1, <4>1, <4>4, Zenon DEF TypedInv
      <3>3. CASE c \in Keys /\ Key(c)
        <4>1. EditKey(rx_line, c) = Append(rx_line, c) /\ Len(Append(rx_line, c)) = Len(rx_line) + 1
              /\ Len(rx_line) \in Nat /\ Len(rx_line) < AT_LINE_MAX /\ AT_LINE_MAX \in Nat
          BY <3>3, KeysAssumption, SizesAssumption DEF EditKey, TypeOK
        <4>2. CASE Len(rx_line) < AT_LINE_MAX - 1
          <5>1. ~rx_overflow' /\ rx_line' = EditKey(rx_line, c)
            BY <2>4, <3>3, <4>1, <4>2, Zenon DEF Key
          <5>2. ~(Len(EditKey(rx_line, c)) >= AT_LINE_MAX)
            BY <4>1, <4>2
          <5> QED BY <2>1, <2>2, <3>1, <5>1, <5>2, Zenon DEF TypedInv
        <4>3. CASE ~(Len(rx_line) < AT_LINE_MAX - 1)
          <5>1. rx_overflow'
            BY <3>3, <4>3, Zenon DEF Key
          <5>2. Len(EditKey(rx_line, c)) >= AT_LINE_MAX
            BY <4>1, <4>3
          <5> QED BY <2>1, <3>1, <5>1, <5>2, Zenon DEF TypedInv
        <4> QED BY <4>2, <4>3
      <3> QED BY <1>3, <3>2, <3>3
    <2> QED BY <2>3, <2>4
  <1>4. AtThread => UNCHANGED typing
    BY DEF AtThread, Prepare, GetLine, Execute, Reset, Arm, PromptHost, Take, TakeTimesOut, Disarm, Answer
  <1>5. ASSUME NEW c \in Keys \cup {"CR", "LF", "BS"}, RxByte(c)
        PROVE  TypedInv'
    <2>1. CASE BinByte
      BY <2>1, <1>1 DEF BinByte
    <2>2. CASE LineByte(c)
      <3>1. CASE c = "LF" /\ UNCHANGED <<typing, line_q>>
        BY <3>1, <1>1
      <3>2. CASE c = "BS" /\ Backspace /\ typed' = Append(typed, c)
        <4>1. c \in Keys \cup {"BS"} /\ typed' = Append(typed, c) /\ ((c = "BS" /\ Backspace) \/ (c \in Keys /\ Key(c)))
          BY <3>2
        <4> QED BY <4>1, <1>3, Zenon
      <3>3. CASE c \in Keys /\ Key(c) /\ typed' = Append(typed, c)
        BY <3>3, <1>3
      <3> QED BY <2>2, <3>1, <3>2, <3>3, <1>2 DEF LineByte
    <2> QED BY <1>5, <2>1, <2>2 DEF RxByte
  <1> QED BY <1>1, <1>4, <1>5 DEF Next, vars

LEMMA AcceptsTyped ==
  ASSUME TypeOK, TypedInv, [Next]_vars, Len(line_q') > Len(line_q)
  PROVE  Last(line_q') = IF TooLong(typed) THEN Overflow ELSE Edited(typed)
  <1> DEFINE L == Seq(Keys) \cup {Overflow}
             line == IF rx_overflow THEN Overflow ELSE rx_line
  <1>1. line_q \in Seq(L) /\ Len(line_q) \in Nat
    BY DEF TypeOK
  <1>2. line_q' # line_q
    BY <1>1
  <1>3. line_q' # Tail(line_q) \/ line_q = <<>>
    BY <1>1
  <1>4. EndOfLine
    BY <1>2, <1>3 DEF Next, AtThread, Prepare, RxByte, BinByte, LineByte, Backspace, Key, GetLine, Execute,
             Reset, Arm, PromptHost, Take, TakeTimesOut, Disarm, Answer, vars
  <1>5. line_q' = Append(line_q, line)
    BY <1>2, <1>4, Zenon DEF EndOfLine
  <1>6. Last(line_q') = line
    <2>1. line \in L
      BY Zenon DEF TypeOK
    <2> HIDE DEF L, line
    <2> QED BY <1>1, <1>5, <2>1 DEF Last
  <1> QED BY <1>6, Zenon DEF TypedInv

-----------------------------------------------------------------------------
(* The theorems.                                                           *)

\* Every variable of rx_process, at_uart_read_binary and their callers keeps its type;
\* the line never outgrows rx_line, nor the queue its depth.
THEOREM TypeCorrect == Spec => []TypeOK
  BY Invariant, PTL DEF IInv

\* A binary entry that succeeds has the bytes that came after it began, all of them,
\* whatever entry timed out before it (at_uart_read_binary).
THEOREM EntryIntactHolds == Spec => []EntryIntact
  BY Invariant, PTL DEF IInv

\* A binary entry times out only when bytes are missing (at_uart_read_binary).
THEOREM TimeoutIsTrueHolds == Spec => TimeoutIsTrue
  <1>1. IInv /\ [Next]_vars => [pc = "wait" /\ pc' = "disarm" => received - asked < len]_vars
    <2> SUFFICES ASSUME IInv, Next, pc = "wait", pc' = "disarm"
                 PROVE  received - asked < len
      BY DEF vars
    <2>1. TakeTimesOut
      BY DEF Next, AtThread, Prepare, RxByte, GetLine, Execute, Reset, Arm, PromptHost, Take,
             Disarm, Answer, Goto
    <2> QED BY <2>1, LensPositive DEF TakeTimesOut, IInv, TypeOK, EntryInv
  <1> QED BY <1>1, Invariant, PTL DEF Spec, TimeoutIsTrue

\* The caller's buffer is written only while at_uart_read_binary has not returned
\* (bin_byte).
THEOREM WrittenWhileAskedHolds == Spec => WrittenWhileAsked
  <1>1. IInv /\ [Next]_vars => [bin_have' > bin_have => pc \in {"prompt", "wait", "disarm"}]_vars
    <2> SUFFICES ASSUME IInv, Next, bin_have' > bin_have
                 PROVE  pc \in {"prompt", "wait", "disarm"}
      BY DEF vars
    <2>1. \E c \in Keys \cup {"CR", "LF", "BS"} : RxByte(c) /\ BinByte
      <3>1. ~AtThread
        BY DEF AtThread, Prepare, GetLine, Execute, Reset, Arm, PromptHost, Take, TakeTimesOut,
               Disarm, ClearEntry, Answer, bin, IInv, TypeOK
      <3>2. ASSUME NEW c, LineByte(c) PROVE FALSE
        BY <3>2 DEF LineByte, bin, IInv, TypeOK
      <3> QED BY <3>1, <3>2 DEF Next, RxByte
    <2> QED BY <2>1 DEF BinByte, BinPending, IInv, TypeOK, EntryInv
  <1> QED BY <1>1, Invariant, PTL DEF Spec, WrittenWhileAsked

\* A line that is executed is what was typed, with its corrections, whole; one that did
\* not fit is refused and never cut, whatever entries came between (line_byte).
THEOREM LinesAsTypedHolds == Spec => LinesAsTyped
  <1>1. Init => TypedInv
    <2> SUFFICES ASSUME Init PROVE TypedInv
      OBVIOUS
    <2>1. ~rx_overflow /\ rx_line = <<>> /\ typed = <<>>
      BY Zenon DEF Init
    <2> QED BY <2>1, NothingTyped, Zenon DEF TypedInv
  <1>2. TypeOK /\ TypedInv /\ [Next]_vars => TypedInv'
    BY TypedStep
  <1>3. TypeOK /\ TypedInv /\ [Next]_vars =>
          [Len(line_q') > Len(line_q) => Last(line_q') = IF TooLong(typed) THEN Overflow ELSE Edited(typed)]_vars
    BY AcceptsTyped
  <1> QED BY <1>1, <1>2, <1>3, TypeCorrect, PTL DEF Spec, LinesAsTyped
=============================================================================
