----------------------------- MODULE Zdo_proofs -----------------------------
(***************************************************************************)
(* Safety of Zdo for any nodes, attempts and number of commands: what      *)
(* discover answers is true, and the last match request stands.            *)
(***************************************************************************)
EXTENDS Zdo, SequenceTheorems, TLAPS

-----------------------------------------------------------------------------
(* The inductive invariant.                                                *)

\* From the copy of the EUI64 on, disc_result can only hold what the target answered,
\* and once the first attempt has begun no answer of the target is lost.
DiscoverInv ==
  /\ pc \in {"clear", "reset", "ask", "wait", "look", "check"} =>
       target \in Nodes /\ disc_ieee = target
  /\ pc = "copy" => target \in Nodes
  /\ sends > 0 => disc_ieee \in Nodes
  /\ pc \in {"reset", "ask", "wait", "look", "check"} => disc_result \in {"unknown", target}
  /\ pc \in {"ask", "wait", "look", "check"} /\ target \in heard => disc_result = target
  /\ pc \in {"ask", "wait", "look"} => attempt < DISCOVERY_ATTEMPTS

Submitting == pc \in {"match", "second", "last"}

\* A request that is the last one stays in match_pending until it is sent.
MatchInv ==
  /\ Submitting => AsTyped(req) = line /\ answer = "none"
  /\ pc \in {"second", "last"} =>
       match_pending = [req EXCEPT !.clusters = match_pending.clusters]
  /\ pc = "last" => match_pending = req
  /\ answer = "OK" => match_pending = req /\ AsTyped(req) = line
  /\ answer = "OK" /\ match_sends = 0 => refused \/ broadcast = req

IInv == TypeOK /\ DiscoverInv /\ MatchInv /\ AnswerIsForAsked

LEMMA InitInv == Init => IInv
  <1> SUFFICES ASSUME Init PROVE IInv
    OBVIOUS
  <1>1. TypeOK
    <2>1. NoRequest \in Request
      BY SizesAssumption DEF NoRequest, Request
    <2>2. refused \in BOOLEAN
      BY DEF Init
    <2> QED BY <2>1, <2>2, SizesAssumption, NodesAssumption DEF Init, TypeOK, MatchTypeOK
  <1>2. DiscoverInv /\ MatchInv /\ AnswerIsForAsked
    BY NodesAssumption DEF Init, DiscoverInv, MatchInv, AnswerIsForAsked, Submitting
  <1> QED BY <1>1, <1>2 DEF IInv

\* The steps of discover and its handlers leave the match requests alone.
LEMMA MatchUnchanged ==
  ASSUME UNCHANGED match
  PROVE  /\ MatchTypeOK => MatchTypeOK'
         /\ MatchInv /\ ((~Submitting /\ ~Submitting') \/ pc' = pc) => MatchInv'
  <1>1. AsTyped(req)' = AsTyped(req)
    BY DEF match, AsTyped
  <1> QED BY <1>1 DEF MatchTypeOK, MatchInv, match, Submitting

-----------------------------------------------------------------------------
(* The AT thread in discover.                                              *)

LEMMA ResolveInv ==
  ASSUME IInv, NEW n \in Nodes, Resolve(n)
  PROVE  IInv'
  <1>1. TypeOK'
    BY SizesAssumption, MatchUnchanged DEF IInv, TypeOK, Resolve, Goto, disc, stack
  <1>2. DiscoverInv' /\ AnswerIsForAsked'
    BY NodesAssumption DEF IInv, TypeOK, DiscoverInv, AnswerIsForAsked, Resolve, Goto, disc, stack
  <1>3. MatchInv'
    BY MatchUnchanged DEF IInv, Resolve, Goto, Submitting
  <1> QED BY <1>1, <1>2, <1>3 DEF IInv

LEMMA AttemptBounds ==
  ASSUME attempt \in Nat, attempt < DISCOVERY_ATTEMPTS, NEW from, NextAttempt(from)
  PROVE  /\ attempt' \in 0..DISCOVERY_ATTEMPTS
         /\ pc' \in {"check", "ask"} /\ (pc' = "ask" => attempt' < DISCOVERY_ATTEMPTS)
  BY SizesAssumption DEF NextAttempt, Goto

LEMMA DiscoverStepInv ==
  ASSUME IInv, Discover
  PROVE  IInv'
  <1> USE DEF IInv, TypeOK, DiscoverInv, AnswerIsForAsked, Goto, End, disc, stack
  <1>1. MatchInv' /\ MatchTypeOK'
    <2>1. UNCHANGED match /\ ~Submitting /\ ~Submitting'
      BY DEF Discover, PrepareDiscovery, CopyAndClear, Copy, Clear, Reset, Ask, Take,
             TakeTimesOut, WaitTimesOut, NextAttempt, Look, Check, Conclude, Submitting
    <2> QED BY <2>1, MatchUnchanged
  <1>2. TypeOK' /\ DiscoverInv' /\ AnswerIsForAsked'
    <2>1. CASE PrepareDiscovery
      BY <1>1, <2>1, NodesAssumption DEF PrepareDiscovery, CopyAndClear, Copy, Clear
    <2>2. CASE Reset
      <3>1. TypeOK'
        BY <1>1, <2>2, SizesAssumption DEF Reset
      <3>2. DiscoverInv'
        <4>1. 0 < DISCOVERY_ATTEMPTS /\ attempt' = 0 /\ heard' = {} /\ pc = "reset" /\ pc' = "ask"
              /\ UNCHANGED <<target, disc_ieee, disc_result, sends>>
          BY <2>2, SizesAssumption DEF Reset
        <4> QED BY <4>1
      <3>3. AnswerIsForAsked'
        BY <2>2 DEF Reset
      <3> QED BY <3>1, <3>2, <3>3
    <2>3. CASE Ask
      BY <1>1, <2>3, NodesAssumption DEF Ask
    <2>4. CASE Take
      BY <1>1, <2>4 DEF Take
    <2>5. CASE TakeTimesOut
      <3>1. pc = "wait" /\ UNCHANGED <<target, result, resolves, disc_ieee, disc_result, disc_done, stack, match>>
            /\ NextAttempt("wait")
        BY <2>5 DEF TakeTimesOut, WaitTimesOut, NextAttempt
      <3> QED BY <1>1, <3>1, AttemptBounds
    <2>6. CASE Look
      <3>1. pc = "look" /\ UNCHANGED <<target, result, resolves, disc_ieee, disc_result, disc_done, stack, match>>
        BY <2>6 DEF Look, NextAttempt
      <3>2. CASE disc_result # "unknown" /\ pc' = "check" /\ attempt' = attempt
        BY <1>1, <3>1, <3>2
      <3>3. CASE NextAttempt("look")
        BY <1>1, <3>1, <3>3, AttemptBounds
      <3> QED BY <2>6, <3>2, <3>3 DEF Look
    <2>7. CASE Check
      BY <1>1, <2>7, NodesAssumption DEF Check, Conclude
    <2> QED BY <2>1, <2>2, <2>3, <2>4, <2>5, <2>6, <2>7 DEF Discover
  <1> QED BY <1>1, <1>2

-----------------------------------------------------------------------------
(* The AT thread in cmd_matchreq.                                          *)

LEMMA Slice ==
  ASSUME NEW S, NEW s \in Seq(S), NEW m \in Nat \ {0}, NEW n \in Nat, m <= n + 1, n <= Len(s)
  PROVE  /\ SubSeq(s, m, n) \in Seq(S) /\ Len(SubSeq(s, m, n)) = n + 1 - m
         /\ \A i \in 1..n + 1 - m : SubSeq(s, m, n)[i] = s[i + m - 1]
  <1>1. \A i \in m..n : s[i] \in S
    OBVIOUS
  <1>2. /\ SubSeq(s, m, n) \in Seq(S)
        /\ Len(SubSeq(s, m, n)) = IF m <= n THEN n - m + 1 ELSE 0
        /\ \A i \in 1..n - m + 1 : SubSeq(s, m, n)[i] = s[m + i - 1]
    BY <1>1, SubSeqProperties
  <1> QED BY <1>2

\* A list that parse_cluster_list reads is the list that is written for what it has read.
LEMMA ListRead ==
  ASSUME NEW fs \in Seq(Field), ListBegins(fs), NEW n, n = fs[1].value
  PROVE  /\ n \in Nat /\ n <= SREG_MAX_CLUSTERS /\ n + 1 <= Len(fs)
         /\ Clusters(fs) \in Seq(Nat) /\ Len(Clusters(fs)) = n
         /\ After(fs) \in Seq(Field) /\ Len(After(fs)) = Len(fs) - n - 1
         /\ \A i \in 1..Len(After(fs)) : After(fs)[i] = fs[i + n + 1]
         /\ Written(n, Clusters(fs)) = SubSeq(fs, 1, n + 1)
  <1> DEFINE l == Len(fs)
  <1>1. l \in Nat /\ \A i \in 1..l : fs[i].len \in Nat /\ fs[i].value \in Int
                                     /\ fs[i] = [len |-> fs[i].len, value |-> fs[i].value]
    <2>1. \A f \in Field : f.len \in Nat /\ f.value \in Int /\ f = [len |-> f.len, value |-> f.value]
      BY DEF Field
    <2> QED BY <2>1
  <1>2. n \in Nat /\ n <= SREG_MAX_CLUSTERS /\ n + 1 <= l /\ fs[1].len = 2
    <2>1. /\ Len(fs) > 0 /\ fs[1].len = 2 /\ n >= 0
          /\ n <= SREG_MAX_CLUSTERS /\ Len(fs) > n
      BY DEF ListBegins, Hex
    <2>2. 1 \in 1..l
      BY <1>1, <2>1
    <2>3. fs[1].value \in Int
      BY <1>1, <2>2
    <2> HIDE DEF l
    <2> QED BY <1>1, <2>1, <2>3 DEF l
  <1>3. \A i \in 2..n + 1 : fs[i] = [len |-> 4, value |-> fs[i].value] /\ fs[i].value \in Nat
    <2>1. \A i \in 2..n + 1 : i \in 1..l /\ fs[i].len = 4 /\ fs[i].value >= 0
      BY <1>1, <1>2 DEF ListBegins, Hex
    <2> QED BY <1>1, <2>1
  <1>4. fs[1] = [len |-> 2, value |-> n] /\ fs[1] \in Field
    BY <1>1, <1>2
  <1> DEFINE part == SubSeq(fs, 2, n + 1)
             cs == Clusters(fs)
             rest == After(fs)
  <1>5. part \in Seq(Field) /\ Len(part) = n /\ \A i \in 1..n : part[i] = fs[i + 1]
    <2>1. 2 \in Nat \ {0} /\ n + 1 \in Nat /\ 2 <= (n + 1) + 1 /\ n + 1 <= Len(fs)
      BY <1>2
    <2> QED BY <1>2, <2>1, Slice
  <1>6. cs = [i \in 1..n |-> fs[i + 1].value]
    <2>1. cs = [i \in 1..Len(part) |-> part[i].value]
      BY DEF Clusters, Values
    <2> HIDE DEF part, cs
    <2> QED BY <1>5, <2>1
  <1>7. cs \in Seq(Nat) /\ Len(cs) = n /\ \A i \in 1..n : cs[i] = fs[i + 1].value
    <2>1. \A i \in 1..n : fs[i + 1].value \in Nat
      <3>1. \A i \in 1..n : i + 1 \in 2..n + 1
        BY <1>2
      <3> QED BY <1>3, <3>1
    <2> HIDE DEF cs
    <2> QED BY <1>2, <1>6, <2>1
  <1>8. rest \in Seq(Field) /\ Len(rest) = l - n - 1 /\ \A i \in 1..l - n - 1 : rest[i] = fs[i + n + 1]
    <2>1. rest = SubSeq(fs, n + 2, l)
      BY DEF After, From
    <2>2. n + 2 \in Nat \ {0} /\ l \in Nat /\ n + 2 <= l + 1 /\ l <= Len(fs)
      BY <1>1, <1>2
    <2>3. /\ SubSeq(fs, n + 2, l) \in Seq(Field) /\ Len(SubSeq(fs, n + 2, l)) = l + 1 - (n + 2)
          /\ \A i \in 1..l + 1 - (n + 2) : SubSeq(fs, n + 2, l)[i] = fs[i + (n + 2) - 1]
      BY <2>2, Slice
    <2> HIDE DEF rest
    <2>4. l + 1 - (n + 2) = l - n - 1 /\ \A i \in 1..l - n - 1 : i + (n + 2) - 1 = i + n + 1
      <3>1. l \in Int /\ n \in Int
        BY <1>1, <1>2
      <3> HIDE DEF l
      <3> QED BY ONLY <3>1
    <2>5. /\ rest \in Seq(Field) /\ Len(rest) = l - n - 1
          /\ \A i \in 1..l - n - 1 : rest[i] = fs[i + (n + 2) - 1]
      BY <2>1, <2>3, <2>4
    <2> HIDE DEF l
    <2> QED BY <2>4, <2>5
  <1> DEFINE tail == [i \in 1..Len(cs) |-> [len |-> 4, value |-> cs[i]]]
             head == <<fs[1]>>
             front == SubSeq(fs, 1, n + 1)
  <1>9. tail \in Seq(Field) /\ Len(tail) = n /\ \A i \in 1..n : tail[i] = fs[i + 1]
    <2>1. \A i \in 1..n : i + 1 \in 2..n + 1 /\ i + 1 \in 1..l
      BY <1>1, <1>2
    <2>2. \A i \in 1..n : fs[i + 1] = [len |-> 4, value |-> cs[i]] /\ fs[i + 1] \in Field
      BY <1>3, <1>7, <2>1
    <2> HIDE DEF cs
    <2>3. tail = [i \in 1..n |-> fs[i + 1]]
      BY <1>7, <2>2
    <2> HIDE DEF tail
    <2> QED BY <1>2, <2>2, <2>3
  <1>10. front \in Seq(Field) /\ Len(front) = n + 1 /\ \A i \in 1..n + 1 : front[i] = fs[i]
    <2>1. 1 \in Nat \ {0} /\ n + 1 \in Nat /\ 1 <= (n + 1) + 1 /\ n + 1 <= Len(fs)
      BY <1>2
    <2>2. /\ front \in Seq(Field) /\ Len(front) = n + 1 + 1 - 1
          /\ \A i \in 1..n + 1 + 1 - 1 : front[i] = fs[i + 1 - 1]
      BY <2>1, Slice
    <2> HIDE DEF front
    <2> QED BY <1>2, <2>2
  <1>11. Written(n, cs) = head \o tail
    BY <1>4 DEF Written
  <1>12. head \o tail = front
    <2>1. head \in Seq(Field) /\ Len(head) = 1 /\ head[1] = fs[1]
      BY <1>4
    <2> HIDE DEF head, tail, front
    <2>2. /\ head \o tail \in Seq(Field) /\ Len(head \o tail) = 1 + n
          /\ \A i \in 1..1 + n : (head \o tail)[i] = IF i <= 1 THEN head[i] ELSE tail[i - 1]
      <3>1. /\ head \o tail \in Seq(Field) /\ Len(head \o tail) = Len(head) + Len(tail)
            /\ \A i \in 1..Len(head) + Len(tail) :
                   (head \o tail)[i] = IF i <= Len(head) THEN head[i] ELSE tail[i - Len(head)]
        BY <1>9, <2>1, ConcatProperties
      <3> QED BY <1>9, <2>1, <3>1
    <2>3. ASSUME NEW i \in 1..1 + n PROVE (head \o tail)[i] = front[i]
      <3>1. CASE i = 1
        BY <1>10, <2>1, <2>2, <3>1, <1>2
      <3>2. CASE i # 1
        <4>1. i - 1 \in 1..n /\ (i - 1) + 1 = i /\ ~(i <= 1)
          BY <1>2, <3>2
        <4> QED BY <1>9, <1>10, <2>2, <4>1, <1>2
      <3> QED BY <3>1, <3>2
    <2>4. Len(head \o tail) = Len(front)
      BY <1>2, <1>10, <2>2
    <2> QED BY <1>10, <2>2, <2>3, <2>4, SeqEqual
  <1> HIDE DEF part, cs, rest, tail, head, front
  <1>13. Written(n, cs) = front
    BY <1>11, <1>12
  <1> QED BY <1>2, <1>7, <1>8, <1>13 DEF cs, rest, front

\* What cmd_matchreq reads, written as a line again, is the line.
LEMMA ParsedAsTyped ==
  ASSUME NEW fs \in Lines, WellFormed(fs)
  PROVE  Parsed(fs) \in Request /\ AsTyped(Parsed(fs)) = fs
  <1> DEFINE ins == Ins(fs)
             outs == Outs(fs)
             l == Len(fs)
  <1>1. fs \in Seq(Field) /\ l \in Nat /\ l >= 1 /\ fs[1] \in Field
    BY LinesAssumption
  <1>2. ins \in Seq(Field) /\ Len(ins) = l - 1 /\ \A i \in 1..l - 1 : ins[i] = fs[i + 1]
    <2>1. 2 \in Nat \ {0} /\ l \in Nat /\ 2 <= l + 1 /\ l <= Len(fs)
      BY <1>1
    <2>2. /\ SubSeq(fs, 2, l) \in Seq(Field) /\ Len(SubSeq(fs, 2, l)) = l - 1
          /\ \A i \in 1..l - 1 : SubSeq(fs, 2, l)[i] = fs[i + 1]
      <3> DEFINE m == 2
      <3>1. m \in Nat \ {0} /\ m <= l + 1
        BY <2>1
      <3> HIDE DEF m
      <3>2. /\ SubSeq(fs, m, l) \in Seq(Field) /\ Len(SubSeq(fs, m, l)) = l + 1 - m
            /\ \A i \in 1..l + 1 - m : SubSeq(fs, m, l)[i] = fs[i + m - 1]
        BY <1>1, <2>1, <3>1, Slice
      <3> QED BY <1>1, <3>2 DEF m
    <2>3. ins = SubSeq(fs, 2, l)
      BY DEF Ins, From
    <2> HIDE DEF ins, l
    <2> QED BY <1>1, <2>2, <2>3
  <1>3. /\ fs[1].len = 4 /\ fs[1].value \in Nat /\ fs[1] = [len |-> 4, value |-> fs[1].value]
        /\ ListBegins(ins) /\ ListBegins(outs) /\ outs = After(ins) /\ After(outs) = <<>>
    BY <1>1 DEF WellFormed, Hex, Outs, Field
  <1> DEFINE a == ins[1].value
             b == outs[1].value
             ca == Clusters(ins)
             cb == Clusters(outs)
             w == SubSeq(ins, 1, a + 1)
  <1>4. Parsed(fs) = [profile |-> fs[1].value, n_in |-> a, n_out |-> b, clusters |-> ca \o cb]
    BY DEF Parsed
  <1> HIDE DEF ins, outs, l
  <1>5. /\ a \in Nat /\ a <= SREG_MAX_CLUSTERS /\ a + 1 <= l - 1
        /\ ca \in Seq(Nat) /\ Len(ca) = a
        /\ outs \in Seq(Field) /\ Len(outs) = l - 1 - a - 1
        /\ \A i \in 1..Len(outs) : outs[i] = ins[i + a + 1]
        /\ Written(a, ca) = w
    BY <1>2, <1>3, ListRead
  <1>6. /\ b \in Nat /\ b <= SREG_MAX_CLUSTERS /\ b + 1 <= Len(outs)
        /\ cb \in Seq(Nat) /\ Len(cb) = b
        /\ Len(After(outs)) = Len(outs) - b - 1
        /\ Written(b, cb) = SubSeq(outs, 1, b + 1)
    BY <1>3, <1>5, ListRead
  <1> HIDE DEF a, b, ca, cb, w
  <1>7. Len(outs) = b + 1 /\ l = a + b + 3
    <2>1. Len(outs) - b - 1 = 0
      BY <1>3, <1>6
    <2>2. l - 1 - a - 1 - b - 1 = 0 /\ Len(outs) = l - 1 - a - 1
      BY <1>5, <2>1
    <2> QED BY ONLY <1>1, <1>5, <1>6, <2>2
  <1>8. Written(b, cb) = outs
    BY <1>5, <1>6, <1>7, SubSeqFull
  <1>9. w \in Seq(Field) /\ Len(w) = a + 1 /\ \A i \in 1..a + 1 : w[i] = fs[i + 1]
    <2>1. 1 \in Nat \ {0} /\ a + 1 \in Nat /\ 1 <= (a + 1) + 1 /\ a + 1 <= Len(ins)
      BY <1>2, <1>5
    <2>2. /\ w \in Seq(Field) /\ Len(w) = (a + 1) + 1 - 1
          /\ \A i \in 1..(a + 1) + 1 - 1 : w[i] = ins[i + 1 - 1]
      BY <1>2, <2>1, Slice DEF w
    <2>3. \A i \in 1..a + 1 : i \in 1..l - 1 /\ i + 1 - 1 = i
      BY <1>1, <1>5
    <2>4. (a + 1) + 1 - 1 = a + 1
      BY <1>5
    <2> QED BY <1>2, <2>2, <2>3, <2>4
  <1>10. \A i \in 1..b + 1 : outs[i] = fs[i + a + 2]
    <2>1. \A i \in 1..b + 1 : i + a + 1 \in 1..l - 1 /\ (i + a + 1) + 1 = i + a + 2
      BY <1>5, <1>6, <1>7
    <2> QED BY <1>2, <1>5, <1>7, <2>1
  <1>11. ca \o cb \in Seq(Nat) /\ SubSeq(ca \o cb, 1, a) = ca /\ From(ca \o cb, a + 1) = cb
    <2> DEFINE c == ca \o cb
    <2>1. /\ c \in Seq(Nat) /\ Len(c) = Len(ca) + Len(cb)
          /\ \A i \in 1..Len(ca) + Len(cb) : c[i] = IF i <= Len(ca) THEN ca[i] ELSE cb[i - Len(ca)]
      BY <1>5, <1>6, ConcatProperties
    <2>2. /\ c \in Seq(Nat) /\ Len(c) = a + b
          /\ \A i \in 1..a + b : c[i] = IF i <= a THEN ca[i] ELSE cb[i - a]
      BY <1>5, <1>6, <2>1
    <2> HIDE DEF c
    <2>3. SubSeq(c, 1, a) = ca
      <3> DEFINE s == SubSeq(c, 1, a)
      <3>1. 1 \in Nat \ {0} /\ a \in Nat /\ 1 <= a + 1 /\ a <= Len(c)
        BY <1>5, <1>6, <2>2
      <3>2. s \in Seq(Nat) /\ Len(s) = a + 1 - 1 /\ \A i \in 1..a + 1 - 1 : s[i] = c[i + 1 - 1]
        BY <2>2, <3>1, Slice
      <3> HIDE DEF s
      <3>3. a + 1 - 1 = a /\ \A i \in 1..a : i + 1 - 1 = i /\ i \in 1..a + b /\ i <= a
        BY <1>5, <1>6
      <3>4. \A i \in 1..a : s[i] = ca[i]
        BY <2>2, <3>2, <3>3
      <3>5. Len(s) = Len(ca)
        BY <1>5, <3>2, <3>3
      <3>6. s = ca
        BY <1>5, <3>2, <3>4, <3>5, SeqEqual
      <3> QED BY <3>6 DEF s
    <2>4. SubSeq(c, a + 1, a + b) = cb
      <3> DEFINE s == SubSeq(c, a + 1, a + b)
      <3>1. a + 1 \in Nat \ {0} /\ a + b \in Nat /\ a + 1 <= (a + b) + 1 /\ a + b <= Len(c)
        BY <1>5, <1>6, <2>2
      <3>2. /\ s \in Seq(Nat) /\ Len(s) = (a + b) + 1 - (a + 1)
            /\ \A i \in 1..(a + b) + 1 - (a + 1) : s[i] = c[i + (a + 1) - 1]
        <4> DEFINE m == a + 1
                   k == a + b
        <4> HIDE DEF m, k
        <4>1. m \in Nat \ {0} /\ k \in Nat /\ m <= k + 1 /\ k <= Len(c)
          BY <3>1 DEF m, k
        <4>2. /\ SubSeq(c, m, k) \in Seq(Nat) /\ Len(SubSeq(c, m, k)) = k + 1 - m
              /\ \A i \in 1..k + 1 - m : SubSeq(c, m, k)[i] = c[i + m - 1]
          BY <2>2, <4>1, Slice
        <4> QED BY <4>2 DEF m, k
      <3> HIDE DEF s
      <3>3. /\ (a + b) + 1 - (a + 1) = b
            /\ \A i \in 1..b : /\ i + (a + 1) - 1 \in 1..a + b /\ ~(i + (a + 1) - 1 <= a)
                               /\ (i + (a + 1) - 1) - a = i
        BY <1>5, <1>6
      <3>4. \A i \in 1..b : s[i] = cb[i]
        BY <2>2, <3>2, <3>3
      <3>5. Len(s) = Len(cb)
        BY <1>6, <3>2, <3>3
      <3>6. s = cb
        BY <1>6, <3>2, <3>4, <3>5, SeqEqual
      <3> QED BY <3>6 DEF s
    <2> QED BY <2>2, <2>3, <2>4 DEF c, From
  <1>12. AsTyped(Parsed(fs)) = <<fs[1]>> \o w \o outs
    <2> DEFINE r == Parsed(fs)
               c == ca \o cb
    <2>1. r.profile = fs[1].value /\ r.n_in = a /\ r.n_out = b /\ r.clusters = c
      BY <1>4
    <2> HIDE DEF r, c
    <2>2. AsTyped(r) = <<[len |-> 4, value |-> fs[1].value]>>
                         \o Written(a, SubSeq(c, 1, a)) \o Written(b, From(c, a + 1))
      BY <2>1 DEF AsTyped
    <2> QED BY <1>3, <1>5, <1>8, <1>11, <2>2 DEF r, c
  <1> DEFINE head == <<fs[1]>>
             hw == head \o w
             whole == hw \o outs
  <1>13. /\ hw \in Seq(Field) /\ Len(hw) = a + 2
         /\ \A i \in 1..a + 2 : hw[i] = fs[i]
    <2>1. head \in Seq(Field) /\ Len(head) = 1 /\ head[1] = fs[1]
      BY <1>1
    <2> HIDE DEF head
    <2>2. /\ hw \in Seq(Field) /\ Len(hw) = Len(head) + Len(w)
          /\ \A i \in 1..Len(head) + Len(w) : hw[i] = IF i <= Len(head) THEN head[i] ELSE w[i - Len(head)]
      BY <1>9, <2>1, ConcatProperties
    <2>3. 1 + (a + 1) = a + 2
      BY <1>5
    <2>4. /\ Len(hw) = a + 2
          /\ \A i \in 1..a + 2 : hw[i] = IF i <= 1 THEN head[i] ELSE w[i - 1]
      BY <1>9, <2>1, <2>2, <2>3
    <2> HIDE DEF hw
    <2>5. ASSUME NEW i \in 1..a + 2 PROVE hw[i] = fs[i]
      <3>1. CASE i = 1
        BY <1>5, <2>1, <2>4, <3>1
      <3>2. CASE i # 1
        <4>1. i - 1 \in 1..a + 1 /\ (i - 1) + 1 = i /\ ~(i <= 1)
          BY <1>5, <3>2
        <4> QED BY <1>9, <2>4, <4>1
      <3> QED BY <3>1, <3>2
    <2> QED BY <2>2, <2>4, <2>5
  <1> HIDE DEF hw
  <1>14. /\ whole \in Seq(Field) /\ Len(whole) = l
         /\ \A i \in 1..l : whole[i] = fs[i]
    <2>1. /\ whole \in Seq(Field) /\ Len(whole) = Len(hw) + Len(outs)
          /\ \A i \in 1..Len(hw) + Len(outs) :
                 whole[i] = IF i <= Len(hw) THEN hw[i] ELSE outs[i - Len(hw)]
      BY <1>5, <1>13, ConcatProperties
    <2>2. (a + 2) + (b + 1) = l
      BY <1>5, <1>6, <1>7
    <2>3. /\ Len(whole) = l
          /\ \A i \in 1..l : whole[i] = IF i <= a + 2 THEN hw[i] ELSE outs[i - (a + 2)]
      BY <1>7, <1>13, <2>1, <2>2
    <2> HIDE DEF whole
    <2>4. ASSUME NEW i \in 1..l PROVE whole[i] = fs[i]
      <3>1. CASE i <= a + 2
        <4>1. i \in 1..a + 2
          BY <1>5, <3>1
        <4> QED BY <1>13, <2>3, <3>1, <4>1
      <3>2. CASE ~(i <= a + 2)
        <4>1. i - (a + 2) \in 1..b + 1 /\ (i - (a + 2)) + a + 2 = i
          BY <1>5, <1>6, <1>7, <3>2
        <4> QED BY <1>10, <2>3, <3>2, <4>1
      <3> QED BY <3>1, <3>2
    <2> QED BY <2>1, <2>3, <2>4
  <1>15. whole = fs
    <2> HIDE DEF whole
    <2>1. Len(whole) = Len(fs) /\ \A i \in 1..Len(whole) : whole[i] = fs[i]
      BY <1>14 DEF l
    <2> QED BY <1>1, <1>14, <2>1, SeqEqual
  <1>16. Parsed(fs) \in Request
    <2>1. a \in 0..SREG_MAX_CLUSTERS /\ b \in 0..SREG_MAX_CLUSTERS
      BY <1>5, <1>6, SizesAssumption
    <2> QED BY <1>3, <1>4, <1>11, <2>1 DEF Request
  <1> QED BY <1>12, <1>15, <1>16 DEF hw

LEMMA MatchReqInv ==
  ASSUME IInv, NEW fs \in Lines, MatchReq(fs)
  PROVE  IInv'
  <1>1. /\ pc = "idle" /\ matches' \in 0..MaxMatches /\ line' = fs
        /\ UNCHANGED <<target, result, resolves, disc, stack, match_pending, match_sends, broadcast, refused>>
    BY SizesAssumption DEF IInv, TypeOK, MatchTypeOK, MatchReq, Goto
  <1>2. \/ pc' = "match" /\ req' = Parsed(fs) /\ answer' = "none" /\ WellFormed(fs)
        \/ pc' = "idle" /\ req' = req /\ answer' \in {"NOT_JOINED", "INVALID_PARAM"}
    BY DEF MatchReq, Goto
  <1>3. req' \in Request
    BY <1>2, ParsedAsTyped DEF IInv, TypeOK, MatchTypeOK
  <1>4. TypeOK'
    <2>1. MatchTypeOK'
      BY <1>1, <1>2, <1>3 DEF IInv, TypeOK, MatchTypeOK
    <2> QED BY <1>1, <1>2, <2>1 DEF IInv, TypeOK, disc, stack
  <1>5. DiscoverInv' /\ AnswerIsForAsked'
    BY <1>1, <1>2 DEF IInv, DiscoverInv, AnswerIsForAsked, disc, stack
  <1>6. MatchInv'
    <2>1. Submitting' => AsTyped(req')= line'
      BY <1>1, <1>2, ParsedAsTyped DEF Submitting
    <2>2. AsTyped(req)' = AsTyped(req')
      BY DEF AsTyped
    <2> QED BY <1>1, <1>2, <2>1, <2>2 DEF MatchInv, Submitting
  <1> QED BY <1>4, <1>5, <1>6 DEF IInv

LEMMA SubmitMatchInv ==
  ASSUME IInv, SubmitMatch
  PROVE  IInv'
  <1> USE DEF SubmitMatch, CopyThenAsk, CopyMatch, AskMatch, Goto
  <1>1. UNCHANGED <<target, result, resolves, disc, stack, matches, line, req, broadcast, refused>> /\ Submitting
        /\ pc' \in {"idle", "second", "last"}
    BY DEF Submitting
  <1>2. DiscoverInv' /\ AnswerIsForAsked'
    BY <1>1 DEF IInv, DiscoverInv, AnswerIsForAsked, disc, stack
  <1>3. match_pending' \in Request
    BY DEF IInv, TypeOK, MatchTypeOK, Request
  <1>4. answer' \in {"none", "OK", "NO_BUFFERS"} /\ match_sends' \in Nat
    BY <1>1 DEF IInv, TypeOK, MatchTypeOK, MatchInv
  <1>5. TypeOK'
    <2>1. MatchTypeOK'
      BY <1>1, <1>3, <1>4 DEF IInv, TypeOK, MatchTypeOK
    <2> QED BY <1>1, <2>1 DEF IInv, TypeOK, disc, stack
  <1>6. MatchInv'
    <2>1. AsTyped(req) = line /\ answer = "none" /\ req \in Request /\ match_pending \in Request
      BY <1>1 DEF IInv, TypeOK, MatchTypeOK, MatchInv
    <2>2. AsTyped(req)' = line'
      BY <1>1, <2>1 DEF AsTyped
    <2>3. CASE pc = "match" /\ pc' = "second" /\ UNCHANGED <<match_sends, answer>>
               /\ match_pending' = [req EXCEPT !.clusters = match_pending.clusters]
      BY <1>1, <2>1, <2>2, <2>3 DEF MatchInv, Submitting, Request
    <2>4. CASE pc = "second" /\ pc' = "last" /\ UNCHANGED <<match_sends, answer>>
               /\ match_pending' = [match_pending EXCEPT !.clusters = req.clusters]
      <3>1. match_pending = [req EXCEPT !.clusters = match_pending.clusters]
        BY <2>4 DEF IInv, MatchInv
      <3>2. match_pending' = req
        BY <2>1, <2>4, <3>1 DEF Request
      <3> QED BY <1>1, <2>1, <2>2, <2>4, <3>2 DEF MatchInv, Submitting, Request
    <2>5. CASE pc = "last" /\ pc' = "idle" /\ UNCHANGED match_pending
      <3>1. match_pending = req
        BY <2>5 DEF IInv, MatchInv
      <3>2. answer' = "OK" => match_sends' # 0
        BY <2>1, <2>5 DEF IInv, TypeOK, MatchTypeOK
      <3> QED BY <1>1, <2>2, <2>5, <3>1, <3>2 DEF MatchInv, Submitting
    <2> QED BY <2>3, <2>4, <2>5
  <1> QED BY <1>2, <1>5, <1>6 DEF IInv

-----------------------------------------------------------------------------
(* The ZBOSS thread.                                                       *)

LEMMA DiscHandlerInv ==
  ASSUME IInv, DiscSend \/ \E n \in Nodes : DiscResp(n)
  PROVE  IInv'
  <1>1. MatchInv' /\ MatchTypeOK'
    <2>1. UNCHANGED <<match, pc>>
      BY DEF DiscSend, DiscResp
    <2> QED BY <2>1, MatchUnchanged DEF IInv, TypeOK
  <1>2. TypeOK' /\ DiscoverInv' /\ AnswerIsForAsked'
    <2> USE DEF IInv, TypeOK, DiscoverInv, AnswerIsForAsked
    <2>1. CASE DiscSend
      <3>1. /\ UNCHANGED <<pc, target, result, resolves, disc_ieee, disc_result, attempt, heard, match>>
            /\ sends' \in Nat /\ disc_done' \in {0, 1}
        BY <2>1 DEF DiscSend
      <3>2. asked' \subseteq Nodes
        <4>1. sends > 0 /\ disc_ieee \in Nodes /\ asked \subseteq Nodes
          BY <2>1 DEF DiscSend
        <4>2. asked' = asked \cup {disc_ieee} \/ asked' = asked
          BY <2>1, Zenon DEF DiscSend
        <4> QED BY <4>1, <4>2
      <3>3. sends' > 0 => disc_ieee' \in Nodes
        BY <2>1 DEF DiscSend
      <3> QED BY <1>1, <3>1, <3>2, <3>3
    <2>2. ASSUME NEW n \in Nodes, DiscResp(n)
          PROVE  TypeOK' /\ DiscoverInv' /\ AnswerIsForAsked'
      BY <1>1, <2>2 DEF DiscResp
    <2> QED BY <2>1, <2>2
  <1> QED BY <1>1, <1>2 DEF IInv

LEMMA MatchSendInv ==
  ASSUME IInv, MatchSend
  PROVE  IInv'
  <1>1. TypeOK' /\ DiscoverInv' /\ AnswerIsForAsked'
    <2>1. MatchTypeOK'
      <3>1. refused' \in BOOLEAN
        BY Zenon DEF MatchSend
      <3>2. match_sends' \in Nat /\ broadcast' \in Request
        BY DEF IInv, TypeOK, MatchTypeOK, MatchSend
      <3> QED BY <3>1, <3>2 DEF IInv, TypeOK, MatchTypeOK, MatchSend
    <2> QED BY <2>1 DEF IInv, TypeOK, DiscoverInv, AnswerIsForAsked, MatchSend, disc, stack
  <1>2. MatchInv'
    <2>1. AsTyped(req)' = AsTyped(req)
      BY DEF MatchSend, AsTyped
    <2> QED BY <2>1 DEF IInv, MatchInv, MatchSend, Submitting
  <1> QED BY <1>1, <1>2 DEF IInv

LEMMA NextInv == IInv /\ [Next]_vars => IInv'
  <1> SUFFICES ASSUME IInv, [Next]_vars PROVE IInv'
    OBVIOUS
  <1>1. CASE Next
    BY <1>1, ResolveInv, DiscoverStepInv, MatchReqInv, SubmitMatchInv, DiscHandlerInv,
       MatchSendInv DEF Next, AtThread
  <1>2. CASE UNCHANGED vars
    <2>1. UNCHANGED match /\ pc' = pc
      BY <1>2 DEF vars
    <2>2. MatchInv' /\ MatchTypeOK'
      BY <2>1, MatchUnchanged DEF IInv, TypeOK
    <2> QED BY <1>2, <2>2 DEF vars, disc, stack, IInv, TypeOK, DiscoverInv, AnswerIsForAsked
  <1> QED BY <1>1, <1>2

LEMMA Invariant == Spec => []IInv
  BY InitInv, NextInv, PTL DEF Spec

-----------------------------------------------------------------------------
(* The theorems.                                                           *)

\* Every variable of discover and of AT+MATCHREQ keeps its type; no resolve makes more
\* than DISCOVERY_ATTEMPTS attempts.
THEOREM TypeCorrect == Spec => []TypeOK
  BY Invariant, PTL DEF IInv

\* discover answers with the address of the node it was asked for, for any nodes and
\* however late answers to earlier requests come (disc_resp).
THEOREM AnswerIsForAskedHolds == Spec => []AnswerIsForAsked
  BY Invariant, PTL DEF IInv

\* A node that answered since the first attempt is not called unreachable (discover).
THEOREM UnreachableIsTrueHolds == Spec => UnreachableIsTrue
  <1>1. IInv /\ [Next]_vars =>
          [result' = "UNREACHABLE" /\ result # "UNREACHABLE" => target \notin heard]_vars
    <2> SUFFICES ASSUME IInv, Next, result' = "UNREACHABLE", result # "UNREACHABLE"
                 PROVE  target \notin heard
      BY DEF vars
    <2>1. Check
      BY DEF Next, AtThread, Discover, SubmitMatch, Resolve, MatchReq, PrepareDiscovery, Reset, Ask,
             Take, TakeTimesOut, Look, DiscSend, DiscResp, MatchSend, End
    <2> QED BY <2>1, NodesAssumption DEF Check, Conclude, End, Goto, IInv, DiscoverInv
  <1> QED BY <1>1, Invariant, PTL DEF Spec, UnreachableIsTrue

\* The last match request is broadcast as it was typed, for lines of any fields, unless the
\* stack refuses it when it is handed over (parse_cluster_list, cmd_matchreq, match_send).
THEOREM LastMatchStandsHolds == Spec => []LastMatchStands
  <1>1. IInv => LastMatchStands
    BY DEF IInv, MatchInv, LastMatchStands, AsTyped
  <1> QED BY <1>1, Invariant, PTL
=============================================================================
