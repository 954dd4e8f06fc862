------------------------------ MODULE RpcProofs ------------------------------
(* Theorems about Rpc, for replies and ranges of every length.               *)
EXTENDS Rpc, SequenceTheorems, TLAPS

-----------------------------------------------------------------------------
(* Pieces of a reply *)

\* Bytes is a sequence of that many bytes of its server.
LEMMA BytesFacts ==
  ASSUME NEW s \in Servers, NEW a \in Nat, NEW b \in Int, b >= a - 1
  PROVE  /\ Bytes(s, a, b) \in Seq(Servers \X Int)
         /\ Len(Bytes(s, a, b)) = b - a + 1
         /\ \A i \in 1 .. b - a + 1 : Bytes(s, a, b)[i] = <<s, a + i - 1>>
<1> DEFINE n == b - a + 1
           F == Bytes(s, a, b)
<1>1. n \in Nat
  OBVIOUS
<1>2. /\ F \in [1..n -> Servers \X Int]
      /\ \A i \in 1..n : F[i] = <<s, a + i - 1>>
  BY <1>1 DEF Bytes
<1> HIDE DEF n, F
<1>3. F \in Seq(Servers \X Int)
  BY <1>1, <1>2, SeqDef
<1>4. DOMAIN F = 1..n /\ DOMAIN F = 1..Len(F) /\ Len(F) \in Nat
  BY <1>2, <1>3, LenProperties
<1>5. Len(F) = n
  BY <1>1, <1>4
<1> QED BY <1>2, <1>3, <1>5 DEF n, F

\* The first n bytes of a reply.
LEMMA PrefixFacts ==
  ASSUME NEW s \in Servers, NEW n \in Nat
  PROVE  /\ Bytes(s, 0, n - 1) \in Seq(Servers \X Int)
         /\ Len(Bytes(s, 0, n - 1)) = n
         /\ \A i \in 1..n : Bytes(s, 0, n - 1)[i] = <<s, i - 1>>
<1>1. 0 \in Nat /\ n - 1 \in Int /\ n - 1 >= 0 - 1 /\ (n - 1) - 0 + 1 = n
  OBVIOUS
<1>2. \A i \in 1..n : 0 + i - 1 = i - 1
  OBVIOUS
<1>3. /\ Bytes(s, 0, n - 1) \in Seq(Servers \X Int)
      /\ Len(Bytes(s, 0, n - 1)) = (n - 1) - 0 + 1
      /\ \A i \in 1 .. (n - 1) - 0 + 1 : Bytes(s, 0, n - 1)[i] = <<s, 0 + i - 1>>
  BY <1>1, BytesFacts, Zenon
<1> QED BY <1>1, <1>2, <1>3, Zenon

\* A range behind the bytes collected continues them.
LEMMA BytesContinue ==
  ASSUME NEW s \in Servers, NEW a \in Nat, NEW b \in Nat, a <= b
  PROVE  Bytes(s, 0, a - 1) \o Bytes(s, a, b) = Bytes(s, 0, (b + 1) - 1)
<1> DEFINE B == Servers \X Int
           F == Bytes(s, 0, a - 1)
           G == Bytes(s, a, b)
           W == Bytes(s, 0, (b + 1) - 1)
<1>1. /\ F \in Seq(B) /\ Len(F) = a
      /\ \A i \in 1..a : F[i] = <<s, i - 1>>
  BY PrefixFacts
<1>2. /\ G \in Seq(B) /\ Len(G) = b - a + 1
      /\ \A i \in 1 .. b - a + 1 : G[i] = <<s, a + i - 1>>
  BY b \in Int, b >= a - 1, BytesFacts, Zenon
<1>3. /\ W \in Seq(B) /\ Len(W) = b + 1
      /\ \A i \in 1 .. b + 1 : W[i] = <<s, i - 1>>
  BY b + 1 \in Nat, PrefixFacts, Zenon
<1> HIDE DEF B, F, G, W
<1>4. /\ F \o G \in Seq(B)
      /\ Len(F \o G) = b + 1
      /\ \A i \in 1 .. b + 1 : (F \o G)[i] = IF i <= a THEN F[i] ELSE G[i - a]
  <2>1. a + (b - a + 1) = b + 1
    OBVIOUS
  <2>2. Len(F) + Len(G) = b + 1
    BY <1>1, <1>2, <2>1
  <2>3. /\ F \o G \in Seq(B)
        /\ Len(F \o G) = Len(F) + Len(G)
        /\ \A i \in 1 .. Len(F) + Len(G) :
             (F \o G)[i] = IF i <= Len(F) THEN F[i] ELSE G[i - Len(F)]
    BY <1>1, <1>2, ConcatProperties, Zenon
  <2> QED BY <1>1, <2>2, <2>3, Zenon
<1>5. ASSUME NEW i \in 1 .. b + 1
      PROVE  (F \o G)[i] = W[i]
  <2>0. /\ (F \o G)[i] = IF i <= a THEN F[i] ELSE G[i - a]
        /\ W[i] = <<s, i - 1>>
    BY <1>3, <1>4, Zenon
  <2>1. CASE i <= a
    <3>1. i \in 1..a
      BY <2>1
    <3> QED BY <1>1, <2>0, <2>1, <3>1, Zenon
  <2>2. CASE ~(i <= a)
    <3>1. i - a \in 1 .. b - a + 1 /\ a + (i - a) - 1 = i - 1
      BY <2>2
    <3>2. G[i - a] = <<s, a + (i - a) - 1>>
      BY <1>2, <3>1, Zenon
    <3> QED BY <2>0, <2>2, <3>1, <3>2, Zenon
  <2> QED BY <2>1, <2>2
<1>6. F \o G = W
  BY <1>3, <1>4, <1>5, SeqEqual
<1> QED BY <1>6 DEF F, G, W

-----------------------------------------------------------------------------
(* The invariant: TypeOK, and what the collected bytes are.  That a waiting  *)
(* call has not ended yet is what keeps the second conjunct of Collected     *)
(* when the buffer grows.                                                    *)

Collected ==
  /\ call.pc = "wait" => /\ call.buf = Bytes(call.url, 0, call.range[1] - 1)
                         /\ call.range[1] < Total[call.url]
                         /\ call.range[1] <= call.range[2]
                         /\ call.end = "none"
  /\ call.end = "ranges" => \E n \in {Total[call.url] - 2, Total[call.url] - 1} :
                              /\ n >= 0
                              /\ call.buf = Bytes(call.url, 0, n)

IInv == TypeOK /\ Collected

Ends == {"none", "whole", "ranges", "other", "retries", "trap"}

CallType == [pc : {"idle", "wait", "dead"}, hash : Hashes \cup {NoHash}, url : Servers,
             range : Nat \X Nat, buf : Seq(Servers \X Int), retry : 0..MaxRetries,
             end : Ends]

LEMMA TypeOKEq ==
  TypeOK <=> /\ url \in Servers
             /\ staged \in Hashes \cup {NoHash}
             /\ call \in CallType
             /\ call.pc = "wait" => call.hash \in Hashes /\ staged # call.hash
BY DEF TypeOK, CallType, Ends

\* The first conjuncts hold before the first call.
LEMMA InitIInv == Init => IInv
<1> SUFFICES ASSUME Init PROVE IInv
  OBVIOUS
<1>1. (CHOOSE s \in Servers : TRUE) \in Servers
  BY DEF Init
<1>2. Idle \in CallType
  BY <1>1, RangeAssumption DEF Idle, CallType, Ends
<1>3. call = Idle /\ Idle.pc = "idle" /\ Idle.end = "none"
  BY DEF Init, Idle
<1> QED BY <1>2, <1>3, TypeOKEq DEF Init, IInv, Collected

\* A call that ends, however it ends, leaves what it took.
LEMMA ConcludeStep ==
  ASSUME IInv, call.pc = "wait", url' = url,
         NEW how \in Ends, NEW buf \in Seq(Servers \X Int), Conclude(how, buf),
         how = "ranges" => \E n \in {Total[call.url] - 2, Total[call.url] - 1} :
                             n >= 0 /\ buf = Bytes(call.url, 0, n)
  PROVE  IInv'
<1>1. call \in CallType /\ url \in Servers /\ call.hash \in Hashes
  BY TypeOKEq DEF IInv
<1>2. call' = [call EXCEPT !.pc = "idle", !.buf = buf, !.end = how]
  BY DEF Conclude
<1>3. call' \in CallType
  BY <1>1, <1>2 DEF CallType
<1>4. call'.pc = "idle" /\ call'.end = how /\ call'.buf = buf /\ call'.url = call.url
  BY <1>1, <1>2 DEF CallType
<1>5. staged' \in Hashes \cup {NoHash}
  BY <1>1, TypeOKEq DEF IInv, Conclude
<1>6. TypeOK'
  BY <1>1, <1>3, <1>4, <1>5 DEF TypeOK, CallType, Ends
<1> QED BY <1>4, <1>6 DEF IInv, Collected

LEMMA Buffered ==
  ASSUME IInv, call.pc = "wait", NEW end \in Answerable
  PROVE  /\ call.url \in Servers /\ call.range[1] \in Nat /\ end \in Nat
         /\ call.range[1] <= end /\ end < Total[call.url]
         /\ Total[call.url] \in Nat \ {0}
         /\ call.buf \o Bytes(call.url, call.range[1], end) = Bytes(call.url, 0, end)
         /\ Bytes(call.url, 0, end) \in Seq(Servers \X Int)
<1>1. call \in CallType
  BY TypeOKEq DEF IInv
<1>2. call.url \in Servers /\ call.range[1] \in Nat /\ call.range[2] \in Nat
  BY <1>1 DEF CallType
<1>3. Total[call.url] \in Nat \ {0}
  BY <1>2, ServerAssumption
<1>4. end \in Nat /\ call.range[1] <= end /\ end < Total[call.url]
  BY <1>2 DEF Answerable
<1>5. (end + 1) - 1 = end
  BY <1>4
<1>6. call.buf = Bytes(call.url, 0, call.range[1] - 1)
  BY DEF IInv, Collected
<1>7. call.buf \o Bytes(call.url, call.range[1], end) = Bytes(call.url, 0, end)
  BY <1>2, <1>4, <1>5, <1>6, BytesContinue, Zenon
<1>8. Bytes(call.url, 0, end) \in Seq(Servers \X Int)
  <2>1. 0 \in Nat /\ end \in Int /\ end >= 0 - 1
    BY <1>4
  <2> QED BY <1>2, <2>1, BytesFacts, Zenon
<1> QED BY <1>2, <1>3, <1>4, <1>7, <1>8
-----------------------------------------------------------------------------
(* One step per action *)

LEMMA AskStep ==
  ASSUME IInv, NEW h \in Hashes, Ask(h)
  PROVE  IInv'
<1>1. /\ url \in Servers /\ staged \in Hashes \cup {NoHash} /\ url' = url /\ staged' = staged
      /\ Total[url] \in Nat \ {0}
  BY TypeOKEq, ServerAssumption DEF IInv, Ask
<1>2. (CHOOSE s \in Servers : TRUE) \in Servers
  BY <1>1
<1>3. Idle \in CallType /\ <<0, First - 1>> \in Nat \X Nat
  BY <1>2, RangeAssumption DEF Idle, CallType, Ends
<1>4. call' = [Idle EXCEPT !.pc = "wait", !.hash = h, !.url = url, !.range = <<0, First - 1>>]
  BY DEF Ask
<1>5. /\ call' \in CallType
      /\ call'.pc = "wait" /\ call'.hash = h /\ call'.url = url /\ call'.range = <<0, First - 1>>
      /\ call'.buf = Idle.buf /\ call'.end = Idle.end
  BY <1>1, <1>3, <1>4 DEF CallType
<1>6. call'.buf = << >> /\ call'.end = "none"
  BY <1>5 DEF Idle
<1>7. Bytes(url, 0, 0 - 1) = << >>
  BY PrefixFacts, <1>1, EmptySeq DEF Bytes
<1>8. call'.range[1] = 0 /\ call'.range[2] = First - 1
  BY <1>5
<1>9. TypeOK'
  BY <1>1, <1>5 DEF TypeOK, CallType, Ends, Ask
<1>10. Collected'
  BY <1>1, <1>5, <1>6, <1>7, <1>8, RangeAssumption DEF Collected
<1> QED BY <1>9, <1>10 DEF IInv

LEMMA ReplyWholeStep ==
  ASSUME IInv, ReplyWhole
  PROVE  IInv'
<1>1. call \in CallType
  BY TypeOKEq DEF IInv
<1>2. call.url \in Servers /\ call.buf \in Seq(Servers \X Int)
  BY <1>1 DEF CallType
<1>3. Total[call.url] - 1 \in Int /\ Total[call.url] - 1 >= 0 - 1 /\ 0 \in Nat
  BY <1>2, ServerAssumption
<1>4. Bytes(call.url, 0, Total[call.url] - 1) \in Seq(Servers \X Int)
  BY <1>2, <1>3, BytesFacts, Zenon
<1>5. call.buf \o Bytes(call.url, 0, Total[call.url] - 1) \in Seq(Servers \X Int)
  BY <1>2, <1>4, ConcatProperties, Zenon
<1>6. "whole" \in Ends /\ "whole" # "ranges"
  BY DEF Ends
<1> QED BY <1>5, <1>6, ConcludeStep DEF ReplyWhole

LEMMA ReplyRangeStep ==
  ASSUME IInv, ReplyRange
  PROVE  IInv'
<1>1. PICK end \in Answerable :
        LET buf == call.buf \o Bytes(call.url, call.range[1], end)
            next == Split(end, Total[call.url])
        IN \/ /\ next[1] >= next[2]
              /\ Conclude("ranges", buf)
           \/ /\ next[1] < next[2]
              /\ call' = [call EXCEPT !.range = next, !.buf = buf, !.retry = 0]
              /\ UNCHANGED staged
  BY Zenon DEF ReplyRange
<1>2. call.pc = "wait" /\ url' = url
  BY DEF ReplyRange
<1> DEFINE buf == Bytes(call.url, 0, end)
           total == Total[call.url]
           next == Split(end, total)
<1>3. /\ call.url \in Servers /\ end \in Nat /\ end < total /\ total \in Nat \ {0}
      /\ call.buf \o Bytes(call.url, call.range[1], end) = buf
      /\ buf \in Seq(Servers \X Int)
  BY <1>2, Buffered
<1>4. \/ next[1] >= next[2] /\ Conclude("ranges", buf)
      \/ /\ next[1] < next[2]
         /\ call' = [call EXCEPT !.range = next, !.buf = buf, !.retry = 0]
         /\ UNCHANGED staged
  BY <1>1, <1>3
<1>5. /\ next[1] = end + 1 /\ next[1] \in Nat /\ next[2] \in Nat
      /\ next = <<next[1], next[2]>>
      /\ next[1] >= next[2] => end \in {total - 2, total - 1}
      /\ next[1] < next[2] => next[1] < total
  <2> DEFINE to == IF end + 1 + Chunk >= total THEN total - 1 ELSE end + 1 + Chunk - 1
  <2>1. next = <<end + 1, to>>
    BY DEF Split
  <2>2. Chunk \in Nat /\ Chunk >= 2 /\ end \in Nat /\ end < total /\ total \in Nat
    BY <1>3, RangeAssumption
  <2> HIDE DEF next, total
  <2>3. /\ end + 1 \in Nat /\ to \in Nat
        /\ end + 1 >= to => end \in {total - 2, total - 1}
        /\ end + 1 < to => end + 1 < total
    BY <2>2
  <2> HIDE DEF to
  <2> QED BY <2>1, <2>3
<1> HIDE DEF next, buf, total
<1>6. CASE next[1] >= next[2] /\ Conclude("ranges", buf)
  <2>1. "ranges" \in Ends
    BY DEF Ends
  <2>2. \E n \in {Total[call.url] - 2, Total[call.url] - 1} : n >= 0 /\ buf = Bytes(call.url, 0, n)
    <3>1. end \in {Total[call.url] - 2, Total[call.url] - 1} /\ end >= 0
      BY <1>3, <1>5, <1>6 DEF total
    <3> QED BY <3>1 DEF buf
  <2> QED BY <1>2, <1>3, <1>6, <2>1, <2>2, ConcludeStep
<1>7. CASE /\ next[1] < next[2]
           /\ call' = [call EXCEPT !.range = next, !.buf = buf, !.retry = 0]
           /\ UNCHANGED staged
  <2>1. /\ call \in CallType /\ url \in Servers /\ staged \in Hashes \cup {NoHash}
        /\ call.hash \in Hashes /\ staged # call.hash
    BY <1>2, TypeOKEq DEF IInv
  <2>2. 0 \in 0..MaxRetries /\ next \in Nat \X Nat
    BY <1>5, RangeAssumption
  <2>3. /\ call' \in CallType
        /\ call'.range = next /\ call'.buf = buf
        /\ call'.pc = call.pc /\ call'.hash = call.hash /\ call'.url = call.url
        /\ call'.end = call.end
    BY <1>3, <1>7, <2>1, <2>2 DEF CallType
  <2>4. TypeOK'
    BY <1>2, <1>7, <2>1, <2>3 DEF TypeOK, CallType, Ends
  <2>5. call.end = "none"
    BY <1>2 DEF IInv, Collected
  <2>6. Bytes(call.url, 0, next[1] - 1) = buf
    <3>1. next[1] - 1 = end
      BY <1>3, <1>5
    <3> QED BY <3>1 DEF buf
  <2>7. Collected'
    BY <1>5, <1>7, <2>3, <2>5, <2>6 DEF Collected, total
  <2> QED BY <2>4, <2>7 DEF IInv
<1> QED BY <1>4, <1>6, <1>7

LEMMA ReplyOtherStep ==
  ASSUME IInv, ReplyOther
  PROVE  IInv'
<1>1. call \in CallType /\ call.pc = "wait" /\ url' = url
  BY TypeOKEq DEF IInv, ReplyOther
<1>2. call.url \in Servers /\ call.buf \in Seq(Servers \X Int)
  BY <1>1 DEF CallType
<1>3. "other" \in Ends /\ "other" # "ranges"
  BY DEF Ends
<1>4. CASE Conclude("other", Append(call.buf, ErrorPage(call.url)))
  <2>1. Append(call.buf, ErrorPage(call.url)) \in Seq(Servers \X Int)
    <3>1. ErrorPage(call.url) \in Servers \X Int
      BY <1>2 DEF ErrorPage
    <3> QED BY <1>2, <3>1, AppendProperties, Zenon
  <2> QED BY <1>1, <1>3, <1>4, <2>1, ConcludeStep
<1>5. ASSUME NEW end \in Answerable,
             Conclude("other", call.buf \o Bytes(call.url, call.range[1], end))
      PROVE  IInv'
  <2>1. call.buf \o Bytes(call.url, call.range[1], end) \in Seq(Servers \X Int)
    BY <1>1, Buffered
  <2> QED BY <1>1, <1>3, <1>5, <2>1, ConcludeStep
<1> QED BY <1>4, <1>5 DEF ReplyOther

LEMMA OutcallFailsStep ==
  ASSUME IInv, OutcallFails
  PROVE  IInv'
<1>1. /\ call \in CallType /\ call.pc = "wait" /\ url' = url /\ staged' = staged
      /\ url \in Servers /\ staged \in Hashes \cup {NoHash}
      /\ call.hash \in Hashes /\ staged # call.hash
  BY TypeOKEq DEF IInv, OutcallFails
<1>2. CASE call' = [call EXCEPT !.pc = "idle", !.end = "retries"]
  <2>1. call' \in CallType /\ call'.pc = "idle" /\ call'.end = "retries"
    BY <1>1, <1>2 DEF CallType, Ends
  <2> QED BY <1>1, <2>1 DEF IInv, TypeOK, CallType, Ends, Collected
<1>3. CASE call.retry # MaxRetries /\ call' = [call EXCEPT !.retry = @ + 1]
  <2>1. call.retry + 1 \in 0..MaxRetries
    BY <1>1, <1>3, RangeAssumption DEF CallType
  <2>2. /\ call' \in CallType /\ call'.pc = call.pc /\ call'.hash = call.hash
        /\ call'.url = call.url /\ call'.range = call.range /\ call'.buf = call.buf
        /\ call'.end = call.end
    BY <1>1, <1>3, <2>1 DEF CallType
  <2>3. TypeOK'
    BY <1>1, <2>2 DEF TypeOK, CallType, Ends
  <2> QED BY <2>2, <2>3 DEF IInv, Collected
<1> QED BY <1>2, <1>3 DEF OutcallFails

LEMMA ReplyPanicsStep ==
  ASSUME IInv, ReplyPanics
  PROVE  IInv'
<1>1. call \in CallType /\ url' = url /\ staged' = staged
      /\ url \in Servers /\ staged \in Hashes \cup {NoHash}
  BY TypeOKEq DEF IInv, ReplyPanics
<1>2. call' \in CallType /\ call'.pc = "dead" /\ call'.end = "trap"
  BY <1>1 DEF ReplyPanics, CallType, Ends
<1> QED BY <1>1, <1>2 DEF IInv, TypeOK, CallType, Ends, Collected

LEMMA RestartStep ==
  ASSUME IInv, Restart
  PROVE  IInv'
<1>1. call \in CallType /\ url' = url /\ staged' = staged
      /\ url \in Servers /\ staged \in Hashes \cup {NoHash}
  BY TypeOKEq DEF IInv, Restart
<1>2. /\ call' \in CallType /\ call'.pc = "idle" /\ call'.end = call.end
      /\ call'.buf = call.buf /\ call'.url = call.url
  BY <1>1 DEF Restart, CallType
<1> QED BY <1>1, <1>2 DEF IInv, TypeOK, CallType, Ends, Collected

LEMMA NextStep == IInv /\ [Next]_vars => IInv'
<1> SUFFICES ASSUME IInv, [Next]_vars PROVE IInv'
  OBVIOUS
<1>1. ASSUME NEW h \in Hashes, Ask(h) PROVE IInv'
  BY <1>1, AskStep
<1>2. CASE Outcall
  BY <1>2, ReplyWholeStep, ReplyRangeStep, ReplyOtherStep, ReplyPanicsStep,
     OutcallFailsStep DEF Outcall
<1>3. ASSUME NEW s \in Servers, SetUrl(s) PROVE IInv'
  BY <1>3 DEF SetUrl, IInv, TypeOK, Collected
<1>4. CASE Cleanup
  BY <1>4 DEF Cleanup, IInv, TypeOK, Collected
<1>5. CASE Restart
  BY <1>5, RestartStep
<1>6. CASE UNCHANGED vars
  BY <1>6 DEF vars, IInv, TypeOK, Collected
<1> QED BY <1>1, <1>2, <1>3, <1>4, <1>5, <1>6 DEF Next

LEMMA Invariance == Spec => []IInv
  BY InitIInv, NextStep, PTL DEF Spec

-----------------------------------------------------------------------------
(* The theorems *)

\* Every call is of its type in every reachable state (make_rpc, get_block).
THEOREM TypeCorrect == Spec => []TypeOK
<1>1. IInv => TypeOK
  BY DEF IInv
<1> QED BY <1>1, Invariance, PTL

\* For replies and ranges of any length, what make_rpc has collected is a
\* prefix of one server's reply, and it asks for what comes next in it.
THEOREM PrefixKept == Spec => []BufferIsPrefix
<1>1. IInv => BufferIsPrefix
  <2> SUFFICES ASSUME IInv PROVE BufferIsPrefix
    OBVIOUS
  <2>1. call.url \in Servers
    BY TypeOKEq DEF IInv, CallType
  <2>2. ASSUME call.end = "ranges"
        PROVE  \E n \in 0..Total[call.url] : call.buf = Bytes(call.url, 0, n - 1)
    <3>1. PICK n \in {Total[call.url] - 2, Total[call.url] - 1} :
            n >= 0 /\ call.buf = Bytes(call.url, 0, n)
      BY <2>2 DEF IInv, Collected
    <3>2. n + 1 \in 0..Total[call.url] /\ (n + 1) - 1 = n
      BY <2>1, <3>1, ServerAssumption
    <3> QED BY <3>1, <3>2
  <2> QED BY <2>2 DEF BufferIsPrefix, IInv, Collected
<1> QED BY <1>1, Invariance, PTL

\* However long the reply, make_rpc leaves out its last byte at most.
THEOREM AllButOneByte == Spec => []LosesOneByteAtMost
<1>1. IInv => LosesOneByteAtMost
  BY DEF IInv, Collected, LosesOneByteAtMost
<1> QED BY <1>1, Invariance, PTL

\* What an outcall does, seen from outside: nothing, an answer, or a failure.
LEMMA OutcallRefines ==
  ASSUME IInv, Outcall
  PROVE  [Call!Next]_<<IF call.pc = "wait" THEN call.hash ELSE NoHash, staged>>
<1> DEFINE asked == IF call.pc = "wait" THEN call.hash ELSE NoHash
<1>1. call \in CallType /\ call.pc = "wait" /\ call.hash \in Hashes /\ call.hash # NoHash
  BY TypeOKEq, HashAssumption DEF IInv, Outcall, ReplyWhole, ReplyRange, ReplyOther, ReplyPanics,
                                  OutcallFails
<1>2. asked = call.hash
  BY <1>1
<1>3. ASSUME NEW how, NEW buf, Conclude(how, buf)
      PROVE  asked' = NoHash /\ staged' \in {staged, call.hash}
  <2>1. call'.pc = "idle"
    BY <1>1, <1>3 DEF Conclude, CallType
  <2> QED BY <1>3, <2>1 DEF Conclude
<1>4. \/ asked' = NoHash /\ staged' \in {staged, call.hash}
      \/ asked' = asked /\ staged' = staged
  <2>1. CASE ReplyWhole
    BY <1>3, <2>1 DEF ReplyWhole
  <2>2. CASE ReplyRange
    <3>1. CASE \E buf : Conclude("ranges", buf)
      BY <1>3, <3>1
    <3>2. CASE /\ staged' = staged
               /\ \E next, buf : call' = [call EXCEPT !.range = next, !.buf = buf, !.retry = 0]
      BY <1>1, <3>2 DEF CallType
    <3> QED BY <2>2, <3>1, <3>2 DEF ReplyRange
  <2>3. CASE ReplyOther
    BY <1>3, <2>3 DEF ReplyOther
  <2>4. CASE OutcallFails
    BY <1>1, <2>4 DEF OutcallFails, CallType
  <2>5. CASE ReplyPanics
    BY <1>1, <2>5 DEF ReplyPanics, CallType
  <2> QED BY <2>1, <2>2, <2>3, <2>4, <2>5 DEF Outcall
<1> QED BY <1>1, <1>2, <1>4 DEF Call!Next, Call!Answer, Call!Fail

\* The download implements the abstract call: it stages the block asked for,
\* or nothing.
THEOREM DownloadIsOneCall == Spec => OneCall
<1>1. Init => Call!Init
  BY DEF Init, Idle, Call!Init
<1>2. IInv /\ [Next]_vars => [Call!Next]_<<IF call.pc = "wait" THEN call.hash ELSE NoHash, staged>>
  <2> SUFFICES ASSUME IInv, [Next]_vars
               PROVE  [Call!Next]_<<IF call.pc = "wait" THEN call.hash ELSE NoHash, staged>>
    OBVIOUS
  <2>1. ASSUME NEW h \in Hashes, Ask(h) PROVE Call!Ask(h)
    BY <2>1, HashAssumption DEF Ask, Idle, Call!Ask
  <2>2. CASE Outcall
    BY <2>2, OutcallRefines
  <2>3. ASSUME NEW s \in Servers, SetUrl(s)
        PROVE  UNCHANGED <<IF call.pc = "wait" THEN call.hash ELSE NoHash, staged>>
    BY <2>3 DEF SetUrl
  <2>4. CASE Cleanup
    BY <2>4 DEF Cleanup, Call!Next, Call!Clear
  <2>5. CASE Restart
    <3>1. call' = [call EXCEPT !.pc = "idle"] /\ call \in CallType
      BY <2>5, TypeOKEq DEF IInv, Restart
    <3>2. call'.pc = "idle" /\ call.pc = "dead"
      BY <2>5, <3>1 DEF Restart, CallType
    <3> QED BY <2>5, <3>2 DEF Restart
  <2>6. CASE UNCHANGED vars
    BY <2>6 DEF vars
  <2> QED BY <2>1, <2>2, <2>3, <2>4, <2>5, <2>6 DEF Next, Call!Next
<1> QED BY <1>1, <1>2, Invariance, PTL DEF Spec, OneCall, Call!Spec
=============================================================================
