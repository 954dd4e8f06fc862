------------------------------- MODULE MCFormats -------------------------------
(* Inputs on which TLC checks the two formats: scripts and inscriptions for  *)
(* Envelopes, payments for UtxoEntries.  A behaviour is of one of them; the   *)
(* other one does not begin.                                                  *)
EXTENDS Envelopes, UtxoEntries

Upto(S, n) == UNION {[1..k -> S] : k \in 0..n}

\* Scripts are put together from what is near an envelope.
Begin3 == <<Empty, If, Ord>>
Pieces == {<<Empty>>, <<Empty, If>>, Begin3, <<EndIf>>, <<If>>, <<Error>>,
           <<Push(<<1>>)>>, <<[op |-> "num", data |-> <<2>>]>>,
           <<Empty, If, Ord, EndIf>>}
Joined(n) == {FlattenSeq(p) : p \in Upto(Pieces, n)}

\* Payloads of tags known and unknown, odd and even, in any places.
Payloads ==
  {Begin3 \o p \o <<EndIf>> :
     p \in Upto({Empty, Push(<<1>>), Push(<<2>>), Push(<<5>>), Push(<<66>>)}, 5)}

\* One field with any short value.
Fields ==
  {Begin3 \o <<Push(<<t>>), Push(v)>> \o <<EndIf>> :
     t \in {PointerTag, Parent}, v \in Upto({0, 1, 100}, 4)}

MCTransactions ==
  {<<s>> : s \in Joined(4) \cup Payloads \cup Fields}
  \cup {<<s, t>> : s \in Joined(2), t \in Joined(2)}

Id(b, n) == [txid |-> <<b>>, index |-> n]

OneDraft ==
  [contentType : {<< >>, << << >> >>, <<<<1>>>>},
   parents : {<< >>, <<Id(0, 0)>>, <<Id(1, 2), Id(0, 256)>>},
   delegate : {<< >>, <<Id(2, 65535)>>},
   pointer : {<< >>, <<0>>, <<256>>, <<65535>>},
   metadata : {<< >>, << << >> >>, <<<<1, 1>>>>, <<<<0, 1, 2>>>>},
   properties : {<< >>, <<<<2, 2, 2, 2, 2>>>>},
   body : {<< >>, << << >> >>, <<<<1, 2, 0, 1>>>>}]

FewDrafts == {d \in OneDraft : d.contentType # << >> /\ Len(d.parents) # 1
                               /\ d.delegate = << >> /\ d.pointer \in {<< >>, <<0>>}
                               /\ d.metadata = << >> /\ d.properties = << >>}

MCDrafts == {<<d>> : d \in OneDraft} \cup {<<c, d>> : c \in FewDrafts, d \in FewDrafts}

-----------------------------------------------------------------------------

\* The third block has no subsidy; the outputs are worth nothing, a range, a
\* part of one, or more than one.
MCSubsidies == <<4, 3, 0>>
MCPayments == {<<0, 1>>, <<1>>, <<2, 1>>, <<3, 2>>}

\* No script to read.
NoScript == /\ scripts = << >> /\ drafts = None /\ input = 1 /\ at = 1 /\ stuttered = FALSE
            /\ open = None /\ found = << >> /\ raw = << >> /\ parsed = << >>

FormatsInit == (Init /\ EntryInit) \/ (NoScript /\ EntryInit)
FormatsNext == \/ scripts # << >> /\ Next /\ UNCHANGED entryVars
               \/ scripts = << >> /\ EntryNext /\ UNCHANGED vars

FormatsSpec == FormatsInit /\ [][FormatsNext]_<<vars, entryVars>>
=============================================================================
