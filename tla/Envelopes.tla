------------------------------- MODULE Envelopes -------------------------------
(* From the tapscripts of a transaction to its inscriptions, and back.  An   *)
(* envelope is OP_FALSE OP_IF "ord" pushes OP_ENDIF; from_tapscript finds the *)
(* envelopes of a script in one pass with one instruction of lookahead, one   *)
(* action per turn, and ParsedEnvelope::from reads the fields in each.  The   *)
(* writer is the other side: append_batch_reveal_script.                      *)
(*                                                                            *)
(* An instruction is a record of what it is and the bytes it pushes.          *)
EXTENDS Bytes

CONSTANTS
  Transactions, \* bound: for each input, its tapscript, empty if it has none
  Drafts,       \* bound: what inscriptions are written from, batch by batch
  Base,         \* bytes are 0..Base-1
  TxidLen,      \* Txid::LEN
  IndexLen,     \* bytes of the index of an inscription id
  PointerLen,   \* bytes of a pointer
  MaxElement    \* MAX_SCRIPT_ELEMENT_SIZE

ASSUME WidthAssumption ==
  {Base - 1, TxidLen, IndexLen, PointerLen, MaxElement} \subseteq Nat \ {0}

VARIABLES
  scripts,   \* the tapscripts of the transaction
  drafts,    \* what they were written from, or None
  input,     \* the input whose script is read
  at,        \* its next instruction
  stuttered, \* the local of from_tapscript
  open,      \* the locals of from_instructions behind "ord", or None
  found,     \* the envelopes of the input so far
  raw,       \* the envelopes of the inputs before
  parsed     \* the inscriptions, None before the last input is read

vars == <<scripts, drafts, input, at, stuttered, open, found, raw, parsed>>

-----------------------------------------------------------------------------
(* Instructions *)

Push(bytes) == [op |-> "push", data |-> bytes]
Opcode(op) == [op |-> op, data |-> << >>]

Empty == Push(<< >>)             \* OP_FALSE, and BODY_TAG
Ord == Push(<<111, 114, 100>>)   \* PROTOCOL_ID
If == Opcode("if")
EndIf == Opcode("endif")
Error == Opcode("error")         \* the script breaks off inside a push

\* What peek sees behind the last instruction, too.
At(s, i) == IF i \in DOMAIN s THEN s[i] ELSE Opcode("end")

-----------------------------------------------------------------------------
(* Values of fields *)

\* A value loses the zeros at its end.
Trimmed(bytes) ==
  LET kept == {i \in DOMAIN bytes : bytes[i] # 0}
      n == IF kept = {} THEN 0 ELSE CHOOSE i \in kept : \A j \in kept : j <= i
  IN SubSeq(bytes, 1, n)

\* Inscription::pointer_value, and pointer.
PointerValue(p) == Trimmed(LittleEndian(p, Base, PointerLen))

Pointer(value) ==
  IF \E i \in DOMAIN value : i > PointerLen /\ value[i] # 0 THEN None
  ELSE Number([i \in DOMAIN value \cap 1..PointerLen |-> value[i]], Base)

\* InscriptionId::value, and from_value.  A txid is a sequence of bytes.
IdValue(id) == id.txid \o Trimmed(LittleEndian(id.index, Base, IndexLen))

\* Mutant of FromValue: zeros at the end are read whatever the length.
FromValueLax(value) ==
  LET index == SubSeq(value, TxidLen + 1, Len(value))
  IN IF Len(value) < TxidLen \/ Len(index) > IndexLen THEN None
     ELSE [txid |-> SubSeq(value, 1, TxidLen), index |-> Number(index, Base)]

FromValue(value) ==
  LET index == SubSeq(value, TxidLen + 1, Len(value))
  IN IF \/ Len(value) < TxidLen
        \/ Len(index) > IndexLen
        \/ index # << >> /\ Len(index) # IndexLen /\ Last(index) = 0
     THEN None
     ELSE [txid |-> SubSeq(value, 1, TxidLen), index |-> Number(index, Base)]

-----------------------------------------------------------------------------
(* Tags *)

ContentType == 1
PointerTag == 2
Parent == 3
Metadata == 5
Delegate == 11
Properties == 17

\* The fields of an inscription, in the order they are written in.
Tags == <<ContentType, 9, 7, Parent, Delegate, PointerTag, Metadata, 13, Properties>>

Chunked == {Metadata, Properties}
Known == ToSet(Tags)

\* The values of an inscription under a tag: at most one, except for parents.
NoFields == [tag \in Known |-> << >>]

\* A value in pieces of at most MaxElement bytes.
Chunks(bytes) ==
  [i \in 1..(Len(bytes) + MaxElement - 1) \div MaxElement |->
     SubSeq(bytes, (i - 1) * MaxElement + 1,
            IF i * MaxElement < Len(bytes) THEN i * MaxElement ELSE Len(bytes))]

\* Inscription::new: the fields come from ids, a number and bytes.
New(draft) ==
  [body |-> draft.body,
   fields |-> [NoFields EXCEPT
     ![ContentType] = draft.contentType,
     ![Parent] = [i \in DOMAIN draft.parents |-> IdValue(draft.parents[i])],
     ![Delegate] = [i \in DOMAIN draft.delegate |-> IdValue(draft.delegate[i])],
     ![PointerTag] = [i \in DOMAIN draft.pointer |-> PointerValue(draft.pointer[i])],
     ![Metadata] = draft.metadata,
     ![Properties] = draft.properties]]

\* Tag::append and append_array: the tag is pushed before every value or chunk.
Append1(tag, values) ==
  LET pieces == IF tag \in Chunked THEN FlattenSeq([i \in DOMAIN values |-> Chunks(values[i])])
                ELSE values
  IN FlattenSeq([i \in DOMAIN pieces |-> <<Push(<<tag>>), Push(pieces[i])>>])

\* append_reveal_script_to_builder, and the batch of them.
Write(inscription) ==
  <<Empty, If, Ord>>
  \o FlattenSeq([k \in DOMAIN Tags |-> Append1(Tags[k], inscription.fields[Tags[k]])])
  \o FlattenSeq([i \in DOMAIN inscription.body |->
       <<Empty>> \o [k \in DOMAIN Chunks(inscription.body[i]) |->
                       Push(Chunks(inscription.body[i])[k])]])
  \o <<EndIf>>

WriteBatch(batch) == FlattenSeq([i \in DOMAIN batch |-> Write(New(batch[i]))])

-----------------------------------------------------------------------------
(* Reading the fields *)

\* Mutant of BodyAt: an empty value is taken for the body tag.
BodyAtAnyEmpty(payload) ==
  LET empty == {i \in DOMAIN payload : payload[i] = << >>}
  IN IF empty = {} THEN 0 ELSE CHOOSE i \in empty : \A j \in empty : i <= j

\* The first empty push where a tag is due, or 0.
BodyAt(payload) ==
  LET empty == {i \in DOMAIN payload : i % 2 = 1 /\ payload[i] = << >>}
  IN IF empty = {} THEN 0 ELSE CHOOSE i \in empty : \A j \in empty : i <= j

\* Mutant of Left: a field with one value takes all of them.
LeftNone(fields, tag) ==
  IF Len(tag) = 1 /\ tag[1] \in Known THEN << >> ELSE fields[tag]

\* What Tag::take and take_array leave of the values under a tag.
Left(fields, tag) ==
  IF tag = <<Parent>> \/ (Len(tag) = 1 /\ tag[1] \in Chunked) THEN << >>
  ELSE IF Len(tag) = 1 /\ tag[1] \in Known THEN Tail(fields[tag])
  ELSE fields[tag]

\* ParsedEnvelope::from
Parse(payload) ==
  LET body == BodyAt(payload)
      pushes == IF body = 0 THEN payload ELSE SubSeq(payload, 1, body - 1)
      keys == {pushes[2 * i - 1] : i \in 1..Len(pushes) \div 2}
      values(key) == LET own == SelectSeq([i \in 1..Len(pushes) \div 2 |-> i],
                                          LAMBDA i : pushes[2 * i - 1] = key)
                     IN [j \in DOMAIN own |-> pushes[2 * own[j]]]
      fields == [key \in keys |-> values(key)]
      take(tag) == IF <<tag>> \notin keys THEN << >>
                   ELSE IF tag \in Chunked THEN <<FlattenSeq(fields[<<tag>>])>>
                   ELSE IF tag = Parent THEN fields[<<tag>>]
                   ELSE <<Head(fields[<<tag>>])>>
  IN [body |-> IF body = 0 THEN << >>
               ELSE <<FlattenSeq(SubSeq(payload, body + 1, Len(payload)))>>,
      fields |-> [tag \in Known |-> take(tag)],
      duplicate |-> \E key \in keys : Len(fields[key]) > 1,
      incomplete |-> Len(pushes) % 2 = 1,
      even |-> \E key \in keys : key # << >> /\ Left(fields, key) # << >> /\ key[1] % 2 = 0]

\* The first thing that index_inscriptions finds wrong with an envelope, its sat
\* apart.
Flaw(e, p) ==
  LET flaws == <<<<p.even, "even">>, <<p.duplicate, "duplicate">>,
                 <<p.incomplete, "incomplete">>, <<e.input # 1, "input">>,
                 <<e.offset # 0, "offset">>, <<p.fields[PointerTag] # << >>, "pointer">>,
                 <<e.pushnum, "pushnum">>, <<e.stutter, "stutter">>, <<TRUE, "none">>>>
  IN SelectSeq(flaws, LAMBDA f : f[1])[1][2]

-----------------------------------------------------------------------------
(* Reading a script *)

Init ==
  /\ \/ drafts = None /\ scripts \in Transactions
     \/ drafts \in Drafts /\ scripts = <<WriteBatch(drafts)>>
  /\ input = 1 /\ at = 1 /\ stuttered = FALSE /\ open = None
  /\ found = << >> /\ raw = << >> /\ parsed = None

Reading == parsed = None /\ input \in DOMAIN scripts
Here(k) == At(scripts[input], at + k)

\* from_tapscript passes over anything but an empty push.
Skip ==
  /\ Reading /\ open = None /\ at <= Len(scripts[input])
  /\ Here(0) \notin {Empty, Error}
  /\ at' = at + 1
  /\ UNCHANGED <<scripts, drafts, input, stuttered, open, found, raw, parsed>>

\* An empty push without OP_IF behind it, or that without "ord".
NotAnEnvelope ==
  /\ Reading /\ open = None /\ Here(0) = Empty
  /\ \/ Here(1) # If /\ at' = at + 1 /\ stuttered' = (Here(1) = Empty)
     \/ Here(1) = If /\ Here(2) # Ord /\ at' = at + 2 /\ stuttered' = (Here(2) = Empty)
  /\ UNCHANGED <<scripts, drafts, input, open, found, raw, parsed>>

Open ==
  /\ Reading /\ open = None /\ Here(0) = Empty /\ Here(1) = If /\ Here(2) = Ord
  /\ open' = [from |-> at, payload |-> << >>, pushnum |-> FALSE]
  /\ at' = at + 3
  /\ UNCHANGED <<scripts, drafts, input, stuttered, found, raw, parsed>>

\* OP_PUSHNUM pushes a byte, and is noted.
Collect ==
  /\ Reading /\ open # None /\ Here(0).op \in {"push", "num"}
  /\ open' = [open EXCEPT !.payload = Append(@, Here(0).data),
                          !.pushnum = @ \/ Here(0).op = "num"]
  /\ at' = at + 1
  /\ UNCHANGED <<scripts, drafts, input, stuttered, found, raw, parsed>>

\* Mutant of Close: the envelopes of the transaction are counted.
CloseCountsAll ==
  /\ Reading /\ open # None /\ Here(0) = EndIf
  /\ found' = Append(found, [input |-> input, offset |-> Len(raw) + Len(found),
                             payload |-> open.payload, pushnum |-> open.pushnum,
                             stutter |-> stuttered, from |-> open.from, to |-> at])
  /\ open' = None
  /\ at' = at + 1
  /\ UNCHANGED <<scripts, drafts, input, stuttered, raw, parsed>>

\* OP_ENDIF.  What was stuttered stays so.
Close ==
  /\ Reading /\ open # None /\ Here(0) = EndIf
  /\ found' = Append(found, [input |-> input, offset |-> Len(found),
                             payload |-> open.payload, pushnum |-> open.pushnum,
                             stutter |-> stuttered, from |-> open.from, to |-> at])
  /\ open' = None
  /\ at' = at + 1
  /\ UNCHANGED <<scripts, drafts, input, stuttered, raw, parsed>>

\* Mutant of Abandon: what was stuttered stays so.
AbandonKeepsStutter ==
  /\ Reading /\ open # None /\ Here(0).op \notin {"push", "num", "endif", "error"}
  /\ open' = None
  /\ at' = at + 1
  /\ UNCHANGED <<scripts, drafts, input, stuttered, found, raw, parsed>>

\* Another opcode, or the end of the script: the envelope was none.
Abandon ==
  /\ Reading /\ open # None /\ Here(0).op \notin {"push", "num", "endif", "error"}
  /\ stuttered' = FALSE /\ open' = None
  /\ at' = at + 1
  /\ UNCHANGED <<scripts, drafts, input, found, raw, parsed>>

\* Mutant of NextInput: one vector for all inputs.
NextInputKeepsFound(envelopes) ==
  /\ raw' = envelopes
  /\ input' = input + 1
  /\ at' = 1 /\ stuttered' = FALSE /\ open' = None /\ found' = found
  /\ UNCHANGED <<scripts, drafts, parsed>>

\* from_transaction: the next input, with what this one had; a script with an
\* instruction that cannot be read has no envelopes.
NextInput(envelopes) ==
  /\ raw' = raw \o envelopes
  /\ input' = input + 1
  /\ at' = 1 /\ stuttered' = FALSE /\ open' = None /\ found' = << >>
  /\ UNCHANGED <<scripts, drafts, parsed>>

EndOfScript == Reading /\ open = None /\ at > Len(scripts[input]) /\ NextInput(found)
Unreadable == Reading /\ Here(0) = Error /\ NextInput(<< >>)

\* The fields of all envelopes are read.
ParseAll ==
  /\ parsed = None /\ input > Len(scripts)
  /\ parsed' = [i \in DOMAIN raw |-> Parse(raw[i].payload)]
  /\ UNCHANGED <<scripts, drafts, input, at, stuttered, open, found, raw>>

Next == \/ Skip \/ NotAnEnvelope \/ Open \/ Collect \/ Close \/ Abandon
        \/ EndOfScript \/ Unreadable \/ ParseAll

Spec == Init /\ [][Next]_vars

-----------------------------------------------------------------------------
(* Properties *)

Done == parsed # None

TypeOK ==
  /\ input \in 1..Len(scripts) + 1
  /\ at \in Nat \ {0} /\ stuttered \in BOOLEAN
  /\ open # None => open.from \in 1..at - 3 /\ open.pushnum \in BOOLEAN
  /\ \A e \in ToSet(found) : e.input = input
  /\ Done => Len(parsed) = Len(raw)

\* Where an envelope seems to begin in s, and the first instruction behind its
\* pushes.
Opening(s, i) == At(s, i) = Empty /\ At(s, i + 1) = If /\ At(s, i + 2) = Ord

Behind(s, i) ==
  CHOOSE k \in i + 3..Len(s) + 1 :
    /\ At(s, k).op \notin {"push", "num"}
    /\ \A j \in i + 3..k - 1 : At(s, j).op \in {"push", "num"}

\* An opening whose empty push is the last push of another one, and whose
\* OP_IF ends that one, is not seen.
Seen(s) ==
  LET seen[i \in 1..Len(s)] ==
        /\ Opening(s, i)
        /\ ~\E j \in 1..i - 1 : seen[j] /\ Behind(s, j) = i + 1
  IN {i \in 1..Len(s) : seen[i]}

Envelope(s, i) ==
  LET body == SubSeq(s, i + 3, Behind(s, i) - 1)
  IN [payload |-> [k \in DOMAIN body |-> body[k].data],
      pushnum |-> \E k \in DOMAIN body : body[k].op = "num"]

\* The envelopes of a transaction, by input and in order, are what stands
\* between an opening and the OP_ENDIF behind its pushes: with one instruction
\* of lookahead the parser neither misses nor invents one, and counts them from
\* zero in each input, with nothing from a script that breaks off.  (Offset and
\* order decide the curse and the number of an inscription; one envelope more
\* or less shifts the ids of all that follow in the transaction.)
FindsTheEnvelopes ==
  Done =>
    \A n \in DOMAIN scripts :
      LET s == scripts[n]
          own == SelectSeq(raw, LAMBDA e : e.input = n)
          starts == IF Error \in ToSet(s) THEN {}
                    ELSE {i \in Seen(s) : At(s, Behind(s, i)) = EndIf}
      IN /\ {own[k].from : k \in DOMAIN own} = starts
         /\ Len(own) = Cardinality(starts)
         /\ \A k \in DOMAIN own :
              /\ own[k].offset = k - 1
              /\ own[k].to = Behind(s, own[k].from)
              /\ k > 1 => own[k - 1].to < own[k].from
              /\ [payload |-> own[k].payload, pushnum |-> own[k].pushnum]
                   = Envelope(s, own[k].from)

\* Nothing resets stuttered when an envelope is found, so a later one is said
\* to be stuttered when it is not; but whether an envelope is cursed does not
\* hang on it.  It is the same as if stutter meant what it says: an empty push,
\* or an empty push and OP_IF, directly in front, unless that OP_IF ended
\* another envelope.
StutterDoesNotSpread ==
  Done =>
    \A i \in DOMAIN raw :
      LET s == scripts[raw[i].input]
          from == raw[i].from
          exact == \/ At(s, from - 1) = Empty
                   \/ /\ At(s, from - 1) = If /\ At(s, from - 2) = Empty
                      /\ ~\E j \in Seen(s) : Behind(s, j) = from - 1
      IN Flaw(raw[i], parsed[i]) = Flaw([raw[i] EXCEPT !.stutter = exact], parsed[i])

\* What the writer is given for one inscription, as the reader would see it:
\* a chunked field without bytes is not written at all.
Expected(draft) ==
  LET new == New(draft)
  IN [body |-> new.body,
      fields |-> [tag \in Known |->
                    IF tag \in Chunked THEN SelectSeq(new.fields[tag], LAMBDA v : v # << >>)
                    ELSE new.fields[tag]]]

\* A batch of inscriptions is read as it was written: chunks put together,
\* empty values not taken for the body, ids and pointers the same, no field
\* incomplete or unknown.  Only duplicate_field, which no writer sets, comes
\* out TRUE of what two parents or two chunks were written into, and so does
\* the curse.
ReadsWhatWasWritten ==
  Done /\ drafts # None =>
    /\ Len(parsed) = Len(drafts)
    /\ \A i \in DOMAIN drafts :
         LET p == parsed[i]
             d == drafts[i]
         IN /\ [body |-> p.body, fields |-> p.fields] = Expected(d)
            /\ ~p.incomplete /\ ~p.even
            /\ p.duplicate <=> \/ Len(d.parents) > 1
                               \/ \E v \in ToSet(d.metadata \o d.properties) : Len(v) > MaxElement
            /\ [k \in DOMAIN p.fields[Parent] |-> FromValue(p.fields[Parent][k])] = d.parents
            /\ [k \in DOMAIN p.fields[Delegate] |-> FromValue(p.fields[Delegate][k])] = d.delegate
            /\ [k \in DOMAIN p.fields[PointerTag] |-> Pointer(p.fields[PointerTag][k])] = d.pointer

\* A tag of even number must be understood: an inscription is unbound for one
\* that no field takes, and for a second pointer, whose tag is even and whose
\* second value no field takes; and for no other.
EvenFieldsUnbind ==
  Done =>
    \A i \in DOMAIN raw :
      LET payload == raw[i].payload
          body == BodyAt(payload)
          last == IF body = 0 THEN Len(payload) ELSE body - 1
          even == {k \in 1..last - 1 : /\ k % 2 = 1 /\ payload[k] # << >>
                                       /\ payload[k][1] % 2 = 0}
      IN parsed[i].even <=>
           \/ \E k \in even : payload[k] # <<PointerTag>>
           \/ Cardinality({k \in even : payload[k] = <<PointerTag>>}) > 1

\* A value is a pointer exactly if the number it spells fits, however many
\* zeros it ends with; but an id is spelled in one way, or with all the bytes
\* of its index, so that a parent is the same inscription whoever writes it.
ValuesHaveOneMeaning ==
  Done =>
    \A p \in ToSet(parsed) :
      /\ \A v \in ToSet(p.fields[PointerTag]) :
           Pointer(v) = IF Number(v, Base) < Base^PointerLen THEN Number(v, Base) ELSE None
      /\ \A v \in ToSet(p.fields[Parent] \o p.fields[Delegate]) :
           FromValue(v) # None =>
             LET id == FromValue(v)
             IN v \in {IdValue(id), id.txid \o LittleEndian(id.index, Base, IndexLen)}
=============================================================================
