-------------------------------- MODULE Zdo --------------------------------
(***************************************************************************)
(* The two ZDO services of src/app/src/zb_msg.c: the discovery of the      *)
(* address of an EUI64, and AT+MATCHREQ.                                   *)
(*                                                                         *)
(* In both the AT thread writes what it asks to a static variable and asks *)
(* the ZBOSS thread for a buffer; the ZBOSS thread reads the variable when *)
(* it has one.  discover then waits for an answer, three times two seconds *)
(* at most, while the stack may still deliver answers to what was asked    *)
(* before.  The handlers of the ZBOSS thread, of the higher priority, are  *)
(* single steps between any two of the AT thread.                          *)
(***************************************************************************)
EXTENDS Integers, Sequences

CONSTANTS
    Nodes,               \* nodes with an EUI64 each
    DISCOVERY_ATTEMPTS,
    SREG_MAX_CLUSTERS,
    Lines,               \* what the host may type after AT+MATCHREQ:, by fields
    MaxResolves,         \* bound: addresses resolved
    MaxMatches           \* bound: match requests

ASSUME NodesAssumption == Nodes \cap {"none", "unknown", "UNREACHABLE", "NO_BUFFERS"} = {}
ASSUME SizesAssumption ==
    /\ DISCOVERY_ATTEMPTS \in Nat \ {0}
    /\ MaxResolves \in Nat /\ MaxMatches \in Nat /\ SREG_MAX_CLUSTERS \in Nat

\* A field between two commas, as next_field splits them: its length, and the value
\* at_parse_hex_n reads, -1 when it is not hexadecimal.
Field == [len : Nat, value : Int]
ASSUME LinesAssumption == Lines \subseteq Seq(Field) /\ <<>> \notin Lines

VARIABLES
    pc, target, result, \* the AT thread, the node to resolve, and what came of it
    resolves,           \* addresses resolved
    disc_ieee,
    disc_result,        \* the node whose address it holds, or "unknown"
    disc_done, attempt,
    sends,              \* buffers asked for disc_send
    asked,              \* nodes the stack has asked for: their answers may come
    heard,              \* nodes whose answers came since the first attempt began
    matches,            \* match requests
    line, req,          \* the last one, as typed and as cmd_matchreq has read it
    match_pending,
    match_sends,        \* buffers asked for match_send
    answer,             \* what the last one was answered
    broadcast,          \* the last request the stack has taken from match_send
    refused             \* it has refused the one after that

disc  == <<disc_ieee, disc_result, disc_done, attempt>>
match == <<matches, line, req, match_pending, match_sends, answer, broadcast, refused>>
stack == <<sends, asked, heard>>
vars  == <<pc, target, result, resolves, disc, stack, match>>

NoRequest == [profile |-> 0, n_in |-> 0, n_out |-> 0, clusters |-> <<>>]

Init ==
    /\ pc = "idle" /\ target = "none" /\ result = "none" /\ resolves = 0
    /\ disc_ieee = "none" /\ disc_result = "unknown" /\ disc_done = 0 /\ attempt = 0
    /\ sends = 0 /\ asked = {} /\ heard = {}
    /\ matches = 0 /\ line = <<>> /\ req = NoRequest
    /\ match_pending = NoRequest /\ match_sends = 0 /\ answer = "none" /\ broadcast = NoRequest
    /\ refused = FALSE

-----------------------------------------------------------------------------
(* The AT thread: resolve and discover.                                    *)

Goto(from, to) == pc = from /\ pc' = to
End(from, what) == Goto(from, "idle") /\ result' = what

\* The stack does not know the address.
Resolve(n) ==
    /\ resolves < MaxResolves /\ resolves' = resolves + 1
    /\ Goto("idle", "copy")
    /\ target' = n /\ result' = "none"
    /\ UNCHANGED <<disc, stack, match>>

Copy(from, to) == Goto(from, to) /\ disc_ieee' = target /\ UNCHANGED disc_result
Clear(from, to) == Goto(from, to) /\ disc_result' = "unknown" /\ UNCHANGED disc_ieee

MutClearThenCopy == Clear("copy", "clear") \/ Copy("clear", "reset")
CopyAndClear == Copy("copy", "clear") \/ Clear("clear", "reset")

PrepareDiscovery ==
    /\ CopyAndClear
    /\ UNCHANGED <<target, result, resolves, disc_done, attempt, stack, match>>

Reset ==
    /\ Goto("reset", "ask")
    /\ disc_done' = 0 /\ attempt' = 0
    /\ heard' = {}
    /\ UNCHANGED <<target, result, resolves, disc_ieee, disc_result, sends, asked, match>>

\* zb_buf_get_out_delayed, which may fail.
Ask ==
    /\ \/ Goto("ask", "wait") /\ sends' = sends + 1 /\ UNCHANGED result
       \/ End("ask", "NO_BUFFERS") /\ UNCHANGED sends
    /\ UNCHANGED <<target, resolves, disc, asked, heard, match>>

NextAttempt(from) ==
    /\ Goto(from, IF attempt + 1 < DISCOVERY_ATTEMPTS THEN "ask" ELSE "check")
    /\ attempt' = attempt + 1

Take ==
    /\ Goto("wait", "look")
    /\ disc_done = 1 /\ disc_done' = 0
    /\ UNCHANGED <<target, result, resolves, disc_ieee, disc_result, attempt, stack, match>>

WaitTimesOut == disc_done = 0 /\ NextAttempt("wait")
TakeTimesOut ==
    /\ WaitTimesOut
    /\ UNCHANGED <<target, result, resolves, disc_ieee, disc_result, disc_done, stack, match>>

Look ==
    /\ \/ disc_result # "unknown" /\ Goto("look", "check") /\ UNCHANGED attempt
       \/ disc_result = "unknown" /\ NextAttempt("look")
    /\ UNCHANGED <<target, result, resolves, disc_ieee, disc_result, disc_done, stack, match>>

\* As if what counts were the last wait and not disc_result.
MutLastWaitCounts ==
    End("check", IF attempt < DISCOVERY_ATTEMPTS THEN disc_result ELSE "UNREACHABLE")
Conclude == End("check", IF disc_result # "unknown" THEN disc_result ELSE "UNREACHABLE")

Check ==
    /\ Conclude
    /\ UNCHANGED <<target, resolves, disc, stack, match>>

Discover == PrepareDiscovery \/ Reset \/ Ask \/ Take \/ TakeTimesOut \/ Look \/ Check

-----------------------------------------------------------------------------
(* The AT thread: cmd_matchreq.                                            *)

Hex(f, n) == f.len = n /\ f.value >= 0
Values(fs) == [i \in 1..Len(fs) |-> fs[i].value]
From(fs, k) == SubSeq(fs, k, Len(fs))

\* parse_cluster_list: a count and as many clusters begin these fields.
ListBegins(fs) ==
    /\ Len(fs) > 0 /\ Hex(fs[1], 2) /\ fs[1].value <= SREG_MAX_CLUSTERS
    /\ Len(fs) > fs[1].value /\ \A i \in 2..fs[1].value + 1 : Hex(fs[i], 4)
Clusters(fs) == Values(SubSeq(fs, 2, fs[1].value + 1))
After(fs) == From(fs, fs[1].value + 2)

Ins(fs)  == From(fs, 2)
Outs(fs) == After(Ins(fs))
WellFormed(fs) ==
    /\ Hex(fs[1], 4)
    /\ ListBegins(Ins(fs)) /\ ListBegins(Outs(fs))
    /\ After(Outs(fs)) = <<>>

Parsed(fs) ==
    [profile |-> fs[1].value, n_in |-> Ins(fs)[1].value, n_out |-> Outs(fs)[1].value,
     clusters |-> Clusters(Ins(fs)) \o Clusters(Outs(fs))]

\* cmd_matchreq up to the copy; the node may have left the network, or not have joined.
\* A line without the colon is answered like one that is not well formed.
MatchReq(fs) ==
    /\ matches < MaxMatches /\ matches' = matches + 1
    /\ line' = fs
    /\ IF WellFormed(fs)
       THEN \/ Goto("idle", "match") /\ req' = Parsed(fs) /\ answer' = "none"
            \/ Goto("idle", "idle") /\ answer' = "NOT_JOINED" /\ UNCHANGED req
       ELSE Goto("idle", "idle") /\ answer' = "INVALID_PARAM" /\ UNCHANGED req
    /\ UNCHANGED <<target, result, resolves, disc, stack, match_pending, match_sends, broadcast, refused>>

\* match_pending = req, a copy of many bytes.
CopyMatch(from, mid, to) ==
    /\ \/ Goto(from, mid) /\ match_pending' = [req EXCEPT !.clusters = match_pending.clusters]
       \/ Goto(mid, to) /\ match_pending' = [match_pending EXCEPT !.clusters = req.clusters]
    /\ UNCHANGED <<match_sends, answer>>

AskMatch(from, to) ==
    /\ \/ Goto(from, to) /\ match_sends' = match_sends + 1 /\ answer' = "OK"
       \/ Goto(from, "idle") /\ answer' = "NO_BUFFERS" /\ UNCHANGED match_sends
    /\ UNCHANGED match_pending

MutAskThenCopy == AskMatch("match", "first") \/ CopyMatch("first", "second", "idle")
CopyThenAsk == CopyMatch("match", "second", "last") \/ AskMatch("last", "idle")

SubmitMatch ==
    /\ CopyThenAsk
    /\ UNCHANGED <<target, result, resolves, disc, stack, matches, line, req, broadcast, refused>>

-----------------------------------------------------------------------------
(* The ZBOSS thread.                                                       *)

\* disc_send: the request goes out, or cannot be sent.
DiscSend ==
    /\ sends > 0 /\ sends' = sends - 1
    /\ \/ asked' = asked \cup {disc_ieee} /\ UNCHANGED disc_done
       \/ disc_done' = 1 /\ UNCHANGED asked
    /\ UNCHANGED <<pc, target, result, resolves, disc_ieee, disc_result, attempt, heard, match>>

\* disc_resp with an answer: of any node that was ever asked for, at any time.
DiscResp(n) ==
    /\ n \in asked
    /\ heard' = heard \cup {n}
    /\ IF n = disc_ieee
       THEN disc_result' = n /\ disc_done' = 1
       ELSE UNCHANGED <<disc_result, disc_done>>
    /\ UNCHANGED <<pc, target, result, resolves, disc_ieee, attempt, sends, asked, match>>

\* match_send: the stack broadcasts the request, or refuses it, which is only logged.
MatchSend ==
    /\ match_sends > 0 /\ match_sends' = match_sends - 1
    /\ \/ broadcast' = match_pending /\ refused' = FALSE
       \/ UNCHANGED broadcast /\ refused' = TRUE
    /\ UNCHANGED <<pc, target, result, resolves, disc, stack, matches, line, req, match_pending, answer>>

AtThread == Discover \/ SubmitMatch

Next ==
    \/ \E n \in Nodes : Resolve(n)
    \/ \E fs \in Lines : MatchReq(fs)
    \/ AtThread
    \/ DiscSend
    \/ \E n \in Nodes : DiscResp(n)
    \/ MatchSend

Spec == Init /\ [][Next]_vars

-----------------------------------------------------------------------------
(* Properties.                                                             *)

Request == [profile : Nat, n_in : 0..SREG_MAX_CLUSTERS, n_out : 0..SREG_MAX_CLUSTERS, clusters : Seq(Nat)]

MatchTypeOK ==
    /\ matches \in 0..MaxMatches /\ line \in Lines \cup {<<>>} /\ match_sends \in Nat
    /\ req \in Request /\ match_pending \in Request /\ broadcast \in Request /\ refused \in BOOLEAN
    /\ answer \in {"none", "OK", "NOT_JOINED", "INVALID_PARAM", "NO_BUFFERS"}
TypeOK ==
    /\ pc \in {"idle", "copy", "clear", "reset", "ask", "wait", "look", "check",
               "match", "second", "last"}
    /\ target \in Nodes \cup {"none"} /\ disc_ieee \in Nodes \cup {"none"}
    /\ result \in Nodes \cup {"none", "UNREACHABLE", "NO_BUFFERS"}
    /\ resolves \in 0..MaxResolves
    /\ disc_result \in Nodes \cup {"unknown"} /\ disc_done \in {0, 1}
    /\ attempt \in 0..DISCOVERY_ATTEMPTS /\ sends \in Nat
    /\ asked \subseteq Nodes /\ heard \subseteq Nodes
    /\ MatchTypeOK

\* A message goes to the node it was meant for: an address that discover returns is
\* that of the EUI64 it was given, whatever late answers to earlier requests come at
\* whatever moment (disc_resp, discover).
AnswerIsForAsked == result \in Nodes => result = target

\* A node is called unreachable only when no answer of it came from the first attempt
\* on, be it after the last wait has timed out (discover, disc_resp).
UnreachableIsTrue ==
    [][result' = "UNREACHABLE" /\ result # "UNREACHABLE" => target \notin heard]_vars

\* The last request, once answered OK, is broadcast as it was typed unless the stack refuses
\* it, however late the buffer comes and whatever was pending before: written as a line
\* again, it is the line (parse_cluster_list, cmd_matchreq, match_send).
Written(n, cs) == <<[len |-> 2, value |-> n]>> \o [i \in 1..Len(cs) |-> [len |-> 4, value |-> cs[i]]]
AsTyped(r) ==
    <<[len |-> 4, value |-> r.profile]>>
    \o Written(r.n_in, SubSeq(r.clusters, 1, r.n_in))
    \o Written(r.n_out, From(r.clusters, r.n_in + 1))
LastMatchStands ==
    pc = "idle" /\ answer = "OK" /\ match_sends = 0 => refused \/ AsTyped(broadcast) = line
=============================================================================
