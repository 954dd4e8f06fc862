---------------------------------- MODULE Rpc ----------------------------------
(* The download of a block from a Bitcoin node over HTTPS outcalls.  A reply  *)
(* may be longer than an outcall can bring, so make_rpc asks for it range by *)
(* range, each range again when an outcall fails, puts the pieces together   *)
(* and only then looks at what they say; get_block checks the block and      *)
(* stages it.  Each action is one message execution.                         *)
(*                                                                           *)
(* A byte is <<s, i>>: byte i of the reply of server s, counted from 0.      *)
EXTENDS Integers, Sequences

CONSTANTS
  Servers,      \* URLs of the nodes, or of the proxies in front of them
  Total,        \* Total[s]: the length of the reply of server s
  Newline,      \* Newline[s]: the reply of s ends with a byte JSON ignores
  First,        \* max_response_bytes of a call: the length of its first range
  Chunk,        \* MAX_RESPONSE_BYTES: the length of the other ranges
  Slack,        \* bytes allowed on top of a range, for the headers
  MaxRetries,   \* retries of one outcall
  Hashes, NoHash

ASSUME ServerAssumption ==
  /\ Total \in [Servers -> Nat \ {0}]
  /\ Newline \in [Servers -> BOOLEAN]
ASSUME RangeAssumption ==
  First \in Nat \ {0} /\ Chunk \in Nat \ {0, 1} /\ Slack \in Nat /\ MaxRetries \in Nat
ASSUME HashAssumption == NoHash \notin Hashes

VARIABLES
  url,      \* Config::bitcoin_rpc_url (stable)
  staged,   \* BLOCK (stable)
  call      \* the outstanding call, or how the last one ended

vars == <<url, staged, call>>

\* Byte from to byte to of the reply of s.
Bytes(s, from, to) == [i \in 1..to - from + 1 |-> <<s, from + i - 1>>]

\* A byte of no reply to getblock.
ErrorPage(s) == <<s, -1>>

\* What the loop of make_rpc knows.  end tells how it ended: with a whole
\* reply, with the last range, with a reply of another form, for want of
\* retries, or in a trap, which leaves the round that called dead.
Idle == [pc |-> "idle", hash |-> NoHash, url |-> CHOOSE s \in Servers : TRUE,
         range |-> <<0, 0>>, buf |-> << >>, retry |-> 0, end |-> "none"]

Init == url \in Servers /\ staged = NoHash /\ call = Idle

\* The byte that a server may end an answer to the range with: the last of the
\* range or of the reply, or one before.
Answerable == {end \in call.range[1]..call.range[2] : end < Total[call.url]}

-----------------------------------------------------------------------------
\* Mutants of split: the next range begins with the last byte received; the
\* last range is cut short.
SplitOverlaps(end, total) ==
  <<end, IF end + Chunk >= total THEN total - 1 ELSE end + Chunk - 1>>

SplitShort(end, total) ==
  <<end + 1, IF end + 1 + Chunk >= total THEN total - 2 ELSE end + Chunk>>

\* split: the range behind byte end.
Split(end, total) ==
  LET start == end + 1
  IN <<start, IF start + Chunk >= total THEN total - 1 ELSE start + Chunk - 1>>

\* get_block: a staged block is used without a call; for any other one the
\* configuration is read once and the first range asked for.
Ask(h) ==
  /\ call.pc = "idle"
  /\ staged # h
  /\ call' = [Idle EXCEPT !.pc = "wait", !.hash = h, !.url = url,
                          !.range = <<0, First - 1>>]
  /\ UNCHANGED <<url, staged>>

\* Mutant of Conclude: the block is staged before it is checked.
ConcludeUnchecked(how, buf) ==
  /\ call' = [call EXCEPT !.pc = "idle", !.buf = buf, !.end = how]
  /\ staged' \in Hashes

\* The loop of make_rpc is left with buf.  If it is JSON, the reply may still
\* be an error, another block, or one with a wrong merkle root; only the block
\* asked for is staged.
Conclude(how, buf) ==
  LET s == call.url
      complete == \/ buf = Bytes(s, 0, Total[s] - 1)
                  \/ Newline[s] /\ buf = Bytes(s, 0, Total[s] - 2)
  IN /\ call' = [call EXCEPT !.pc = "idle", !.buf = buf, !.end = how]
     /\ staged' \in {staged} \cup (IF complete THEN {call.hash} ELSE {})

\* Status 200: the server did not look at the range, and the reply fits.
ReplyWhole ==
  /\ call.pc = "wait"
  /\ Total[call.url] <= call.range[2] - call.range[1] + 1 + Slack
  /\ Conclude("whole", call.buf \o Bytes(call.url, 0, Total[call.url] - 1))
  /\ UNCHANGED url

\* Another status with the header Content-Range: the bytes of the range, or
\* the first of them, which end at byte end; the next range begins behind them.
ReplyRange ==
  /\ call.pc = "wait"
  /\ LET s == call.url
         from == call.range[1]
     IN \E end \in Answerable :
          LET buf == call.buf \o Bytes(s, from, end)
              next == Split(end, Total[s])
          IN \/ /\ next[1] >= next[2]
                /\ Conclude("ranges", buf)
             \/ /\ next[1] < next[2]
                /\ call' = [call EXCEPT !.range = next, !.buf = buf, !.retry = 0]
                /\ UNCHANGED staged
  /\ UNCHANGED url

\* Another status without that header, or with one in which a number does not
\* parse, as the total in bytes 0-99/*: what came, an error page or the bytes
\* of the range, is taken and ends the loop.
ReplyOther ==
  /\ call.pc = "wait"
  /\ \/ Conclude("other", Append(call.buf, ErrorPage(call.url)))
     \/ \E end \in Answerable :
          Conclude("other", call.buf \o Bytes(call.url, call.range[1], end))
  /\ UNCHANGED url

\* Another status with a Content-Range that lacks the slash, or the dash in
\* front of it, as bytes */100 with status 416 does: make_rpc indexes behind
\* the pieces and traps in the callback.  What the callback did is rolled back,
\* and the round it resumes sets no timer (Trap of Updater).
ReplyPanics ==
  /\ call.pc = "wait"
  /\ call' = [call EXCEPT !.pc = "dead", !.end = "trap"]
  /\ UNCHANGED <<url, staged>>

\* Mutant of OutcallFails: one retry more.
OutcallFailsLate ==
  /\ call.pc = "wait"
  /\ IF call.retry > MaxRetries
     THEN call' = [call EXCEPT !.pc = "idle", !.end = "retries"]
     ELSE call' = [call EXCEPT !.retry = @ + 1]
  /\ UNCHANGED <<url, staged>>

\* Mutant of OutcallFails: nobody counts.
OutcallFailsForever ==
  /\ call.pc = "wait"
  /\ call' = [call EXCEPT !.retry = IF @ = MaxRetries THEN 0 ELSE @ + 1]
  /\ UNCHANGED <<url, staged>>

\* An outcall fails: the same range is asked for again, a few times.
OutcallFails ==
  /\ call.pc = "wait"
  /\ IF call.retry = MaxRetries
     THEN call' = [call EXCEPT !.pc = "idle", !.end = "retries"]
     ELSE call' = [call EXCEPT !.retry = @ + 1]
  /\ UNCHANGED <<url, staged>>

\* set_bitcoin_rpc_url, at any moment; a call goes on with the URL it began with.
SetUrl(s) ==
  /\ url' = s
  /\ UNCHANGED <<staged, call>>

\* The loop that called clears the block when it has indexed it.
Cleanup ==
  /\ call.pc = "idle"
  /\ staged' = NoHash
  /\ UNCHANGED <<url, call>>

\* start() begins another loop after a trap.
Restart ==
  /\ call.pc = "dead"
  /\ call' = [call EXCEPT !.pc = "idle"]
  /\ UNCHANGED <<url, staged>>

Outcall == ReplyWhole \/ ReplyRange \/ ReplyOther \/ ReplyPanics \/ OutcallFails

Next == \/ \E h \in Hashes : Ask(h)
        \/ Outcall
        \/ \E s \in Servers : SetUrl(s)
        \/ Cleanup
        \/ Restart

Spec == Init /\ [][Next]_vars

\* The platform answers every outcall, if only with an error.
FairSpec == Spec /\ WF_vars(Outcall)

-----------------------------------------------------------------------------
(* Properties *)

TypeOK ==
  /\ url \in Servers
  /\ staged \in Hashes \cup {NoHash}
  /\ call \in [pc : {"idle", "wait", "dead"}, hash : Hashes \cup {NoHash}, url : Servers,
               range : Nat \X Nat, buf : Seq(Servers \X Int), retry : 0..MaxRetries,
               end : {"none", "whole", "ranges", "other", "retries", "trap"}]
  /\ call.pc = "wait" => call.hash \in Hashes /\ staged # call.hash

\* What a call has collected is the reply of one server from its first byte
\* on, without a gap and with nothing twice, and the range it waits for begins
\* behind it and inside the reply: over short answers, retries, and a change of
\* the URL in between.  (make_rpc extends one buffer with every answer, and
\* would trap on the header that refuses a range outside the reply.)
BufferIsPrefix ==
  LET s == call.url
  IN /\ call.pc = "wait" => /\ call.buf = Bytes(s, 0, call.range[1] - 1)
                            /\ call.range[1] < Total[s]
                            /\ call.range[1] <= call.range[2]
     /\ call.end = "ranges" => \E n \in 0..Total[s] : call.buf = Bytes(s, 0, n - 1)

\* The ranges cover the reply but for its last byte: the loop ends before a
\* range of one byte (range.0 >= range.1 in make_rpc), although the comment on
\* split adds the ranges up to the total.  Nothing else is ever left out.
LosesOneByteAtMost ==
  call.end = "ranges" =>
    call.buf \in {Bytes(call.url, 0, n) : n \in {Total[call.url] - 2, Total[call.url] - 1}}

\* A download looks from outside like one call.
Call == INSTANCE BlockCall WITH asked <- IF call.pc = "wait" THEN call.hash ELSE NoHash
OneCall == Call!Spec

\* A call does not hang, whatever the servers answer and whatever fails: it
\* returns to run_indexing_round, which waits for it and sets no other timer
\* meanwhile, or it traps on a header it cannot take apart and takes the loop
\* with it, until start().
CallEnds == call.pc = "wait" ~> call.pc \in {"idle", "dead"}
=============================================================================
