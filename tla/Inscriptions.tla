----------------------------- MODULE Inscriptions -----------------------------
(* What indexing a block does to the tables: sats and inscriptions flow from *)
(* the inputs of each transaction to its outputs, first in first out, new    *)
(* inscriptions are numbered, and every write is noted in the block's change *)
(* record, from which a reorg undoes it.  A message execution can end at any *)
(* check of the instruction counter (Break); what it leaves in the staged    *)
(* variables is all that the next one (Begin) has.  The blocks come one      *)
(* after the other or are rolled back; when that happens is Updater's matter.*)
(*                                                                           *)
(* Sat ranges are the sequences of their sats.  Scripts, fees, timestamps    *)
(* and the charms of sats are left out, and inscriptions are indexed at      *)
(* every height, as on testnet4 and regtest.                                 *)
EXTENDS BlockTree, Tables, SequencesExt, FiniteSetsExt

CONSTANTS
  Content,   \* Content[b]: the transactions of block b, the coinbase first
  Subsidy,   \* Height::subsidy, the same at every height
  Jubilee,   \* Chain::jubilee_height
  MaxUndo,   \* blocks that one reorg may undo
  MaxReorgs, \* bound: reorgs in a behaviour
  None       \* Option::None, of what is no record

ASSUME SubsidyAssumption == Subsidy \in Nat \ {0}
ASSUME UndoAssumption == MaxUndo \in Nat /\ MaxReorgs \in Nat
ASSUME NoneAssumption == None \notin Blocks

\* A block has a coinbase; inputs, outputs and envelopes are in sequences, of
\* which an envelope has the position of its input.
ASSUME ContentAssumption ==
  \A b \in Blocks :
    /\ Content[b] \in Seq(ToSet(Content[b])) /\ Content[b] # << >>
    /\ \A t \in ToSet(Content[b]) :
         /\ t.ins \in Seq(ToSet(t.ins))
         /\ t.outs \in Seq([value : Nat, burn : BOOLEAN])
         /\ t.envs \in Seq(ToSet(t.envs))
         /\ \A e \in ToSet(t.envs) : e.input \in Nat /\ (e.pointer = None \/ e.pointer \in Nat)

\* A transaction id occurs once in a chain (BIP 30): the tables are keyed by
\* ids as if that were so.
ASSUME IdAssumption ==
  \A b \in Blocks : \A a, c \in Lineage[b] :
    \A i \in DOMAIN Content[a], j \in DOMAIN Content[c] :
      Content[a][i].id = Content[c][j].id => a = c /\ i = j

VARIABLES
  chain,     \* the indexed blocks (HEIGHT_TO_BLOCK_HEADER)
  tab,       \* the tables in stable memory
  records,   \* HEIGHT_TO_ORDINALS_CHANGE_RECORD
  block,     \* BLOCK: the block in progress, or None
  cursor,    \* CURSOR
  staged,    \* STAGED_BLOCK_VARS: stage, UTXO cache and change record
  saved,     \* STAGED_BLOCK_VARS2, STAGED_TX_VARS, STAGED_INPUT_VARS 1 to 3
  run,       \* the locals of index_utxo_entries, Absent between two messages
  tx,        \* the locals of a transaction and of index_inscriptions
  past       \* history: the tables before each block was indexed, the number
             \* of reorgs, and whether each of them brought the tables back

vars == <<chain, tab, records, block, cursor, staged, saved, run, tx, past>>

-----------------------------------------------------------------------------
(* Data *)

\* OutPoint::null() receives lost sats, unbound_outpoint() the inscriptions
\* that are on no sat.
Null == <<"null", 0>>
Unbound == <<"unbound", 0>>
Special == {Null, Unbound}

\* A transaction spends an output once, and never a special outpoint, which no
\* transaction has.
ASSUME InputsAssumption ==
  \A b \in Blocks : \A t \in ToSet(Content[b]) :
    /\ \A i, j \in DOMAIN t.ins : t.ins[i] = t.ins[j] => i = j
    /\ \A i \in DOMAIN t.ins : t.ins[i] \notin Special

\* Option::None of a record: the record without fields.
Absent == << >>

NoEntry == [sats |-> << >>, ins |-> << >>]
NoStats == [lost |-> 0, cursed |-> 0, blessed |-> 0, unbound |-> 0]

\* OrdinalsChangeRecord::new()
NoRecord == [satSeqs |-> {}, children |-> {}, ids |-> {}, numbers |-> {},
             outpoints |-> {}, removed |-> {}, satPoints |-> {}, entries |-> {},
             points |-> {}, stats |-> NoStats]

NoTables == [entries |-> << >>, ids |-> << >>, numbers |-> << >>,
             children |-> << >>, satSeqs |-> << >>, utxo |-> << >>,
             points |-> << >>, satPoints |-> << >>, stats |-> NoStats,
             last |-> << >>]

NoStaged == [state |-> "Index", cache |-> << >>, record |-> NoRecord,
             outpoint |-> None, pending |-> << >>]
NoSaved == [block |-> Absent, tx |-> Absent, in1 |-> Absent, in2 |-> Absent, in3 |-> Absent]

\* The cursor of a block of which nothing is indexed; positions count from 1.
NoCursor == [tx |-> 1, input |-> 1, inscription |-> 1]

\* Mutant of AddTo: the value replaces the list.
AddToReplaces(f, S, v) ==
  [k \in DOMAIN f \cup S |-> IF k \in S THEN {v} ELSE f[k]]

\* A table of lists without duplicates, as sets: v is added under the keys in
\* S; the pairs <<key, value>> in P are removed, and the keys left with none.
AddTo(f, S, v) ==
  [k \in DOMAIN f \cup S |->
     (IF k \in DOMAIN f THEN f[k] ELSE {}) \cup (IF k \in S THEN {v} ELSE {})]

TakeFrom(f, P) ==
  LET left(k) == {v \in f[k] : <<k, v>> \notin P}
  IN [k \in {j \in DOMAIN f : left(j) # {}} |-> left(k)]

\* A vector sorted by the keys of its elements, equals in their order
\* (sort_by_key is stable).
Sorted(s, key) ==
  LET before(i, j) == key[i] < key[j] \/ (key[i] = key[j] /\ i < j)
      order == CHOOSE p \in Surjection(DOMAIN s, DOMAIN s) :
                 \A i, j \in DOMAIN s : i < j => before(p[i], p[j])
  IN [i \in DOMAIN s |-> s[order[i]]]

\* The value of the first n outputs.
ValueOf(outs, n) ==
  LET sum[v \in 0..n] == IF v = 0 THEN 0 ELSE sum[v - 1] + outs[v].value
  IN sum[n]

\* The sats of the first n inputs.
SatsOf(ins, n) ==
  LET sats[i \in 0..n] == IF i = 0 THEN << >> ELSE sats[i - 1] \o ins[i].sats
  IN sats[n]

\* The first sat of every block is rarer than common, and begins the range it
\* is in.
Rare(s) == s % Subsidy = 0
RareOn(outpoint, sats, from) ==
  [s \in {sats[i] : i \in {j \in DOMAIN sats : Rare(sats[j])}} |->
     [outpoint |-> outpoint,
      offset |-> from + (CHOOSE i \in DOMAIN sats : sats[i] = s) - 1]]

\* The entry of a special outpoint in the cache, empty at first.
Cached(cache, o) == IF o \in DOMAIN cache THEN cache[o] ELSE NoEntry

\* UtxoEntryBuf::merged
Merged(a, b) == [sats |-> a.sats \o b.sats, ins |-> a.ins \o b.ins]

\* mem_get_next_sequence_number
NextSequence == IF DOMAIN tab.entries = {} THEN 0 ELSE Max(DOMAIN tab.entries) + 1

H == Height[block]
InOrder(b) == Tail(Content[b]) \o <<Head(Content[b])>>   \* the coinbase is last
Txs == InOrder(block)
T == Txs[run.tx]
Coinbase == run.tx = Len(Txs)
Inputs == IF Coinbase THEN 1 ELSE Len(T.ins)

\* The inscriptions on the input the cursor is at, by sequence number.
Moved == IF Coinbase THEN << >>
         ELSE LET ins == tx.ins[run.input].ins
              IN Sorted(ins, [i \in DOMAIN ins |-> ins[i][1]])

Init ==
  /\ chain = << >> /\ tab = NoTables /\ records = << >>
  /\ block = None /\ cursor = NoCursor /\ staged = NoStaged /\ saved = NoSaved
  /\ run = Absent /\ tx = Absent
  /\ past = [tab |-> << >>, reorgs |-> 0, clean |-> TRUE]

\* A block is staged for indexing.
Stage ==
  /\ block = None
  /\ \E b \in Blocks :
       /\ Prev[b] = IF chain = << >> THEN NoBlock ELSE Last(chain)
       /\ block' = b
       /\ past' = [past EXCEPT !.tab = Put(@, Height[b], tab)]
  /\ cursor' = NoCursor
  /\ UNCHANGED <<chain, tab, records, staged, saved, run, tx>>

-----------------------------------------------------------------------------
(* Messages and transactions *)

\* What a block starts from: the subsidy, in value and in sats.
NewBlock == [flotsam |-> << >>, reward |-> Subsidy, lost |-> << >>,
             fees |-> [i \in 1..Subsidy |-> H * Subsidy + i - 1]]

\* Mutant of Kept: the fees of the transactions before a breakpoint are lost.
KeptWithoutFees == IF saved.block = Absent THEN NewBlock
                   ELSE [saved.block EXCEPT !.fees = NewBlock.fees]

\* What an earlier message of the block left.
Kept == IF saved.block = Absent THEN NewBlock ELSE saved.block

\* index_utxo_entries begins, from the cursor and the staged variables.
Begin ==
  /\ block # None /\ staged.state = "Index" /\ run = Absent
  /\ run' = [tx |-> cursor.tx, input |-> cursor.input,
             inscription |-> cursor.inscription,
             next |-> NextSequence, stats |-> tab.stats,
             flotsam |-> Kept.flotsam, reward |-> Kept.reward,
             fees |-> Kept.fees, lost |-> Kept.lost]
  /\ UNCHANGED <<chain, tab, records, block, cursor, staged, saved, tx, past>>

\* The locals of a transaction before its first input.
Fresh(ins, outs, inSats) ==
  [phase |-> "inputs", ins |-> ins, outs |-> outs, inSats |-> inSats,
   floating |-> << >>, offsets |-> << >>, id |-> 0, inValue |-> 0,
   located |-> << >>, outValue |-> 0, out |-> 1, queue |-> << >>, loc |-> 1]

\* index_transaction_sats: each output takes its value in sats from the front.
Outputs(inSats) ==
  [v \in DOMAIN T.outs |->
     LET from == ValueOf(T.outs, v - 1)
     IN [sats |-> SubSeq(inSats, from + 1, from + T.outs[v].value), ins |-> << >>]]

\* Mutant of RareOnOutputs: offsets count from the first output.
RareOnTransaction(outs) ==
  FoldLeft(LAMBDA f, v : PutAll(f, RareOn(<<T.id, v>>, outs[v].sats, ValueOf(T.outs, v - 1))),
           << >>, [v \in DOMAIN outs |-> v])

RareOnOutputs(outs) ==
  FoldLeft(LAMBDA f, v : PutAll(f, RareOn(<<T.id, v>>, outs[v].sats, 0)),
           << >>, [v \in DOMAIN outs |-> v])

\* The inputs of a transaction are spent, from the cache or from the table,
\* and its sats assigned; what is left goes to the coinbase, and what is left
\* of the coinbase is lost.
Spend ==
  /\ run # Absent /\ tx = Absent /\ run.tx <= Len(Txs) /\ saved.tx = Absent
  /\ LET cache == staged.cache
         spent == IF Coinbase THEN {} ELSE ToSet(T.ins)
         stored == spent \ DOMAIN cache
         entry(o) == IF o \in DOMAIN cache THEN cache[o] ELSE tab.utxo[o]
         ins == IF Coinbase THEN << >> ELSE [i \in DOMAIN T.ins |-> entry(T.ins[i])]
         inSats == IF Coinbase THEN run.fees ELSE SatsOf(ins, Len(ins))
         outs == Outputs(inSats)
         rare == RareOnOutputs(outs)
         left == SubSeq(inSats, ValueOf(T.outs, Len(T.outs)) + 1, Len(inSats))
     IN /\ stored \subseteq DOMAIN tab.utxo
        /\ ValueOf(T.outs, Len(T.outs)) <= Len(inSats)
        /\ tab' = [tab EXCEPT !.utxo = Drop(@, stored), !.satPoints = PutAll(@, rare)]
        /\ staged' = [staged EXCEPT
             !.cache = Drop(@, spent),
             !.record.removed = @ \cup {<<o, tab.utxo[o]>> : o \in stored},
             !.record.satPoints = @ \cup DOMAIN rare]
        /\ run' = IF Coinbase THEN [run EXCEPT !.lost = @ \o left]
                  ELSE [run EXCEPT !.fees = @ \o left]
        /\ tx' = Fresh(ins, outs, inSats)
  /\ UNCHANGED <<chain, records, block, cursor, saved, past>>

\* Mutant of Continue: the value of the inputs done is forgotten.
ContinueAtZero ==
  /\ run # Absent /\ tx = Absent /\ run.tx <= Len(Txs) /\ saved.tx # Absent
  /\ LET fresh == Fresh(saved.tx.ins, saved.tx.outs, saved.tx.inSats)
     IN tx' = IF saved.in1 = Absent THEN fresh
              ELSE [fresh EXCEPT !.floating = saved.in1.floating,
                                 !.offsets = saved.in1.offsets,
                                 !.id = saved.in1.id]
  /\ UNCHANGED <<chain, tab, records, block, cursor, staged, saved, run, past>>

\* Mutant of Continue: the envelopes are counted from zero again.
ContinueRecounts ==
  /\ run # Absent /\ tx = Absent /\ run.tx <= Len(Txs) /\ saved.tx # Absent
  /\ LET fresh == Fresh(saved.tx.ins, saved.tx.outs, saved.tx.inSats)
     IN tx' = IF saved.in1 = Absent THEN fresh
              ELSE [fresh EXCEPT !.floating = saved.in1.floating,
                                 !.offsets = saved.in1.offsets,
                                 !.inValue = saved.in1.inValue]
  /\ UNCHANGED <<chain, tab, records, block, cursor, staged, saved, run, past>>

\* A transaction that an earlier message began.
Continue ==
  /\ run # Absent /\ tx = Absent /\ run.tx <= Len(Txs) /\ saved.tx # Absent
  /\ LET fresh == Fresh(saved.tx.ins, saved.tx.outs, saved.tx.inSats)
     IN tx' = IF saved.in1 = Absent THEN fresh
              ELSE [fresh EXCEPT !.floating = saved.in1.floating,
                                 !.offsets = saved.in1.offsets,
                                 !.id = saved.in1.id,
                                 !.inValue = saved.in1.inValue]
  /\ UNCHANGED <<chain, tab, records, block, cursor, staged, saved, run, past>>

-----------------------------------------------------------------------------
(* Inputs: what floats *)

AtInput == run # Absent /\ tx # Absent /\ tx.phase = "inputs" /\ run.input <= Inputs

\* inscribed_offsets.entry(at).or_insert((id, 0)).1 += 1
Counted(offsets, at, id) ==
  Put(offsets, at, IF at \in DOMAIN offsets
                   THEN [offsets[at] EXCEPT !.count = @ + 1]
                   ELSE [id |-> id, count |-> 1])

\* The next inscription of the input floats; its entry is unwrapped.
Take ==
  /\ AtInput /\ run.inscription <= Len(Moved)
  /\ LET seq == Moved[run.inscription][1]
         at == tx.inValue + Moved[run.inscription][2]
         id == tab.entries[seq].id
     IN /\ seq \in DOMAIN tab.entries
        /\ tx' = [tx EXCEPT
             !.floating = Append(@, [id |-> id, offset |-> at, seq |-> seq, new |-> Absent]),
             !.offsets = Counted(@, at, id)]
  /\ run' = [run EXCEPT !.inscription = @ + 1]
  /\ UNCHANGED <<chain, tab, records, block, cursor, staged, saved, past>>

\* Mutant of Reinscribes: the first inscription is not looked at.
ReinscribesAny(offsets, at) == at \in DOMAIN offsets

\* A second inscription on a sat is a curse unless the first was cursed, or
\* would have been.
Reinscribes(offsets, at) ==
  /\ at \in DOMAIN offsets
  /\ \/ offsets[at].count > 1
     \/ LET first == tab.entries[tab.ids[offsets[at].id]]
        IN first.number >= 0 /\ "Vindicated" \notin first.charms

\* Envelope e of the input that begins at offset at and is worth value: the
\* inscription floats too.  The flaw stands for what the payload and the
\* position of the envelope in its input say.
Reveal(t, e, at, value) ==
  LET curse == \/ e.flaw # "none"
               \/ e.input # 1
               \/ e.pointer # None
               \/ Reinscribes(t.offsets, at)
      to == IF e.pointer # None /\ e.pointer < ValueOf(T.outs, Len(T.outs))
            THEN e.pointer ELSE at
      id == <<T.id, t.id>>
      new == [cursed |-> curse /\ H < Jubilee, vindicated |-> curse /\ H >= Jubilee,
              unbound |-> value = 0 \/ e.flaw = "even",
              reinscription |-> to \in DOMAIN t.offsets, parents |-> e.parents]
  IN [t EXCEPT !.floating = Append(@, [id |-> id, offset |-> to, seq |-> None, new |-> new]),
               !.offsets = Counted(@, to, id),
               !.id = @ + 1]

\* The envelopes of the input; the coinbase has none.
Revealed(at, value) ==
  LET envs == IF Coinbase THEN << >> ELSE T.envs
      after[k \in 0..Len(envs)] ==
        IF k = 0 THEN tx
        ELSE IF envs[k].input = run.input THEN Reveal(after[k - 1], envs[k], at, value)
        ELSE after[k - 1]
  IN after[Len(envs)]

\* After its inscriptions, the envelopes of the input.
FinishInput ==
  /\ AtInput /\ run.inscription > Len(Moved)
  /\ LET at == tx.inValue
         value == IF Coinbase THEN Subsidy ELSE Len(tx.ins[run.input].sats)
     IN tx' = [Revealed(at, value) EXCEPT !.inValue = @ + value]
  /\ run' = [run EXCEPT !.input = @ + 1, !.inscription = 1]
  /\ UNCHANGED <<chain, tab, records, block, cursor, staged, saved, past>>

\* Parents are kept if they are spent or revealed here; in the coinbase what
\* the fees carry floats too.  All are sorted by offset, unless an earlier
\* message did that.
FinishInputs ==
  /\ run # Absent /\ tx # Absent /\ tx.phase = "inputs" /\ run.input > Inputs
  /\ LET present == {tx.floating[i].id : i \in DOMAIN tx.floating}
         own == [i \in DOMAIN tx.floating |->
                   IF tx.floating[i].new = Absent THEN tx.floating[i]
                   ELSE [tx.floating[i] EXCEPT !.new.parents = @ \cap present]]
         all == own \o (IF Coinbase THEN run.flotsam ELSE << >>)
     IN tx' = IF saved.in2 # Absent
              THEN [tx EXCEPT !.phase = "outputs", !.located = saved.in2.located,
                              !.outValue = saved.in2.outValue,
                              !.inValue = saved.in2.inValue,
                              !.out = saved.in2.out, !.queue = saved.in2.queue]
              ELSE [tx EXCEPT !.phase = "outputs",
                              !.queue = Sorted(all, [i \in DOMAIN all |-> all[i].offset])]
  /\ run' = [run EXCEPT !.input = 1, !.flotsam = IF Coinbase THEN << >> ELSE @]
  /\ saved' = [saved EXCEPT !.in1 = Absent]
  /\ UNCHANGED <<chain, tab, records, block, cursor, staged, past>>

-----------------------------------------------------------------------------
(* Outputs: where what floats comes down *)

AtOutputs == run # Absent /\ tx # Absent /\ tx.phase = "outputs"

\* inscriptions.peek() is on the output of the loop.
Placeable ==
  /\ AtOutputs /\ tx.out <= Len(T.outs) /\ tx.queue # << >>
  /\ Head(tx.queue).offset < tx.outValue + T.outs[tx.out].value

Place ==
  /\ Placeable
  /\ tx' = [tx EXCEPT
       !.located = Append(@, [flotsam |-> Head(tx.queue), out |-> tx.out,
                              offset |-> Head(tx.queue).offset - tx.outValue]),
       !.queue = Tail(@)]
  /\ UNCHANGED <<chain, tab, records, block, cursor, staged, saved, run, past>>

NextOutput ==
  /\ AtOutputs /\ tx.out <= Len(T.outs) /\ ~Placeable
  /\ tx' = [tx EXCEPT !.outValue = @ + T.outs[tx.out].value, !.out = @ + 1]
  /\ UNCHANGED <<chain, tab, records, block, cursor, staged, saved, run, past>>

\* Mutant of FinishOutputs: the locations are written from the first again.
FinishOutputsAnew ==
  /\ AtOutputs /\ tx.out > Len(T.outs)
  /\ tx' = IF saved.in3 = Absent THEN [tx EXCEPT !.phase = "locations"]
           ELSE [tx EXCEPT !.phase = "locations", !.located = saved.in3.located,
                           !.outValue = saved.in3.outValue,
                           !.inValue = saved.in3.inValue,
                           !.queue = saved.in3.queue]
  /\ saved' = [saved EXCEPT !.in2 = Absent]
  /\ UNCHANGED <<chain, tab, records, block, cursor, staged, run, past>>

\* From here on what an earlier message left of this stage replaces all.
FinishOutputs ==
  /\ AtOutputs /\ tx.out > Len(T.outs)
  /\ tx' = IF saved.in3 = Absent THEN [tx EXCEPT !.phase = "locations"]
           ELSE [tx EXCEPT !.phase = "locations", !.located = saved.in3.located,
                           !.outValue = saved.in3.outValue,
                           !.inValue = saved.in3.inValue,
                           !.queue = saved.in3.queue, !.loc = saved.in3.loc]
  /\ saved' = [saved EXCEPT !.in2 = Absent]
  /\ UNCHANGED <<chain, tab, records, block, cursor, staged, run, past>>

-----------------------------------------------------------------------------
(* update_inscription_location *)

Charms(new, o, burn) ==
  LET has == [Cursed |-> new.cursed, Reinscription |-> new.reinscription,
              Burned |-> burn, Lost |-> o = Null, Unbound |-> new.unbound,
              Vindicated |-> new.vindicated]
  IN {c \in DOMAIN has : has[c]}

\* Mutant of Inscribe: the entry is written with the sat, which an unbound
\* inscription does not have.
InscribeSeated(f, o, burn, cache) ==
  LET seq == run.next
      number == IF f.new.cursed THEN -(run.stats.cursed + 1) ELSE run.stats.blessed
      sats == IF f.new.unbound THEN {} ELSE {tx.inSats[f.offset + 1]}
      parents == {tab.ids[p] : p \in f.new.parents}
      entry == [id |-> f.id, number |-> number, height |-> H, sat |-> sats,
                charms |-> Charms(f.new, o, burn), parents |-> parents]
  IN /\ f.new.parents \subseteq DOMAIN tab.ids
     /\ tab' = [tab EXCEPT !.numbers = Put(@, number, seq),
                           !.satSeqs = AddTo(@, sats, seq),
                           !.children = AddTo(@, parents, seq),
                           !.entries = IF f.new.unbound THEN @
                                       ELSE Put(@, seq, entry),
                           !.ids = Put(@, f.id, seq)]
     /\ staged' = [staged EXCEPT !.cache = cache,
                     !.record.numbers = @ \cup {number},
                     !.record.satSeqs = @ \cup (sats \X {seq}),
                     !.record.children = @ \cup (parents \X {seq}),
                     !.record.entries = @ \cup {seq},
                     !.record.ids = @ \cup {f.id}]
     /\ run' = [run EXCEPT
          !.next = @ + 1,
          !.stats.cursed = IF f.new.cursed THEN @ + 1 ELSE @,
          !.stats.blessed = IF f.new.cursed THEN @ ELSE @ + 1,
          !.stats.unbound = IF f.new.unbound THEN @ + 1 ELSE @]

\* A new inscription is numbered and entered in every table; the entries of
\* its parents are unwrapped.
Inscribe(f, o, burn, cache) ==
  LET seq == run.next
      number == IF f.new.cursed THEN -(run.stats.cursed + 1) ELSE run.stats.blessed
      sats == IF f.new.unbound THEN {} ELSE {tx.inSats[f.offset + 1]}
      parents == {tab.ids[p] : p \in f.new.parents}
      entry == [id |-> f.id, number |-> number, height |-> H, sat |-> sats,
                charms |-> Charms(f.new, o, burn), parents |-> parents]
  IN /\ f.new.parents \subseteq DOMAIN tab.ids
     /\ tab' = [tab EXCEPT !.numbers = Put(@, number, seq),
                           !.satSeqs = AddTo(@, sats, seq),
                           !.children = AddTo(@, parents, seq),
                           !.entries = Put(@, seq, entry),
                           !.ids = Put(@, f.id, seq)]
     /\ staged' = [staged EXCEPT !.cache = cache,
                     !.record.numbers = @ \cup {number},
                     !.record.satSeqs = @ \cup (sats \X {seq}),
                     !.record.children = @ \cup (parents \X {seq}),
                     !.record.entries = @ \cup {seq},
                     !.record.ids = @ \cup {f.id}]
     /\ run' = [run EXCEPT
          !.next = @ + 1,
          !.stats.cursed = IF f.new.cursed THEN @ + 1 ELSE @,
          !.stats.blessed = IF f.new.cursed THEN @ ELSE @ + 1,
          !.stats.unbound = IF f.new.unbound THEN @ + 1 ELSE @]

\* One that was there before gets a charm when it is burned.
Transfer(f, burn, cache) ==
  /\ burn => f.seq \in DOMAIN tab.entries
  /\ tab' = IF burn THEN [tab EXCEPT !.entries[f.seq].charms = @ \cup {"Burned"}] ELSE tab
  /\ staged' = [staged EXCEPT !.cache = cache,
                  !.record.entries = IF burn THEN @ \cup {f.seq} ELSE @]
  /\ run' = run

\* Flotsam f comes down on outpoint o at offset, or on the unbound outpoint;
\* t is the transaction then.
Settle(t, f, o, offset, burn) ==
  LET unbound == IF f.new = Absent THEN FALSE ELSE f.new.unbound
      to == IF unbound THEN Unbound ELSE o
      place == <<IF f.new = Absent THEN f.seq ELSE run.next,
                 IF unbound THEN run.stats.unbound ELSE offset>>
      push(entry) == [entry EXCEPT !.ins = Append(@, place)]
      cache == IF to \in Special
               THEN Put(staged.cache, to, push(Cached(staged.cache, to)))
               ELSE staged.cache
  IN /\ IF f.new = Absent THEN Transfer(f, burn, cache) ELSE Inscribe(f, o, burn, cache)
     /\ tx' = IF to \in Special THEN t ELSE [t EXCEPT !.outs[to[2]] = push(@)]

-----------------------------------------------------------------------------
(* Locations, and the end of a transaction *)

AtLocations == run # Absent /\ tx # Absent /\ tx.phase = "locations"

Locate ==
  /\ AtLocations /\ tx.loc <= Len(tx.located)
  /\ LET l == tx.located[tx.loc]
     IN Settle([tx EXCEPT !.loc = @ + 1], l.flotsam, <<T.id, l.out>>, l.offset,
               T.outs[l.out].burn)
  /\ UNCHANGED <<chain, records, block, cursor, saved, past>>

FinishLocations ==
  /\ AtLocations /\ tx.loc > Len(tx.located)
  /\ tx' = [tx EXCEPT !.phase = "rest"]
  /\ saved' = [saved EXCEPT !.in3 = Absent]
  /\ UNCHANGED <<chain, tab, records, block, cursor, staged, run, past>>

\* What the outputs of the coinbase leave floating is lost.
Lose ==
  /\ run # Absent /\ tx # Absent /\ tx.phase = "rest" /\ Coinbase /\ tx.queue # << >>
  /\ LET f == Head(tx.queue)
     IN Settle([tx EXCEPT !.queue = Tail(@)], f, Null,
               run.stats.lost + f.offset - tx.outValue, FALSE)
  /\ UNCHANGED <<chain, records, block, cursor, saved, past>>

\* What other transactions leave floating goes to the coinbase, behind the
\* subsidy and the fees so far.
FinishTransaction ==
  /\ run # Absent /\ tx # Absent /\ tx.phase = "rest" /\ (Coinbase => tx.queue = << >>)
  /\ LET next == [run EXCEPT !.tx = @ + 1]
         rest == [i \in DOMAIN tx.queue |->
                    [tx.queue[i] EXCEPT !.offset = run.reward + @ - tx.outValue]]
     IN run' = IF Coinbase
               THEN [next EXCEPT !.stats.lost = @ + run.reward - tx.outValue]
               ELSE [next EXCEPT !.flotsam = @ \o rest,
                                 !.reward = @ + tx.inValue - tx.outValue]
  /\ LET outs == [o \in {<<T.id, v>> : v \in DOMAIN tx.outs} |-> tx.outs[o[2]]]
     IN staged' = [staged EXCEPT !.cache = PutAll(@, outs)]
  /\ saved' = [saved EXCEPT !.tx = Absent]
  /\ tx' = Absent
  /\ UNCHANGED <<chain, tab, records, block, cursor, past>>

-----------------------------------------------------------------------------
(* The end of a message in the middle of a block *)

\* Mutant of Suspend: the statistics wait for the end of the block.
SuspendUncounted(input, inscription, kept) ==
  /\ cursor' = [tx |-> run.tx, input |-> input, inscription |-> inscription]
  /\ saved' = [kept EXCEPT
       !.block = [flotsam |-> run.flotsam, reward |-> run.reward,
                  fees |-> run.fees, lost |-> run.lost],
       !.tx = [ins |-> tx.ins, outs |-> tx.outs, inSats |-> tx.inSats]]
  /\ tab' = [tab EXCEPT !.last = Put(@, H, run.next)]
  /\ run' = Absent /\ tx' = Absent
  /\ UNCHANGED <<chain, records, block, staged, past>>

\* All that survives is the cursor, the staged variables and the tables; the
\* statistics and the last sequence number are written so far as they go.
Suspend(input, inscription, kept) ==
  /\ cursor' = [tx |-> run.tx, input |-> input, inscription |-> inscription]
  /\ saved' = [kept EXCEPT
       !.block = [flotsam |-> run.flotsam, reward |-> run.reward,
                  fees |-> run.fees, lost |-> run.lost],
       !.tx = [ins |-> tx.ins, outs |-> tx.outs, inSats |-> tx.inSats]]
  /\ tab' = [tab EXCEPT !.last = Put(@, H, run.next),
                        !.stats = [run.stats EXCEPT !.lost = tab.stats.lost]]
  /\ run' = Absent /\ tx' = Absent
  /\ UNCHANGED <<chain, records, block, staged, past>>

\* The instruction counter is checked before each inscription of an input and
\* at an input that has none,
BreakInputs ==
  /\ AtInput /\ ~Coinbase /\ (run.inscription <= Len(Moved) \/ Moved = << >>)
  /\ Suspend(run.input, run.inscription,
       [saved EXCEPT !.in1 = [floating |-> tx.floating, offsets |-> tx.offsets,
                              id |-> tx.id, inValue |-> tx.inValue]])

\* before each inscription that is placed,
BreakOutputs ==
  /\ Placeable
  /\ Suspend(Inputs + 1, 1,
       [saved EXCEPT !.in2 = [located |-> tx.located, outValue |-> tx.outValue,
                              inValue |-> tx.inValue, out |-> tx.out,
                              queue |-> tx.queue]])

\* and before each location that is written.
BreakLocations ==
  /\ AtLocations /\ tx.loc <= Len(tx.located)
  /\ Suspend(Inputs + 1, 1,
       [saved EXCEPT !.in3 = [located |-> tx.located, outValue |-> tx.outValue,
                              inValue |-> tx.inValue, queue |-> tx.queue,
                              loc |-> tx.loc]])

Break == BreakInputs \/ BreakOutputs \/ BreakLocations

-----------------------------------------------------------------------------
(* The end of a block *)

\* The lost sats go to the null outpoint, behind those lost before; the change
\* record takes the statistics as they are in the table.
FinishBlock ==
  /\ run # Absent /\ tx = Absent /\ run.tx > Len(Txs)
  /\ LET rare == RareOn(Null, run.lost, tab.stats.lost)
         null == Merged(Cached(staged.cache, Null), [sats |-> run.lost, ins |-> << >>])
     IN /\ tab' = [tab EXCEPT
             !.last = Put(@, H, run.next),
             !.satPoints = PutAll(@, rare),
             !.stats = [run.stats EXCEPT !.lost = tab.stats.lost + Len(run.lost)]]
        /\ staged' = [staged EXCEPT
             !.state = "Commit",
             !.cache = IF run.lost = << >> THEN @ ELSE Put(@, Null, null),
             !.record.satPoints = @ \cup DOMAIN rare,
             !.record.stats = tab.stats]
  /\ saved' = [saved EXCEPT !.block = Absent]
  /\ run' = Absent
  /\ UNCHANGED <<chain, records, block, cursor, tx, past>>

Committing == block # None /\ staged.state = "Commit"

\* commit: the cache goes to the table output by output, in a fixed order,
CommitOutput ==
  /\ Committing /\ staged.pending = << >> /\ staged.cache # << >>
  /\ LET o == CHOOSE o \in DOMAIN staged.cache : TRUE
         entry == IF o \in Special /\ o \in DOMAIN tab.utxo
                  THEN Merged(tab.utxo[o], staged.cache[o]) ELSE staged.cache[o]
     IN /\ tab' = [tab EXCEPT !.utxo = Put(@, o, entry)]
        /\ staged' = [staged EXCEPT !.cache = Drop(@, {o}), !.outpoint = o,
                                    !.pending = entry.ins,
                                    !.record.outpoints = @ \cup {o}]
  /\ UNCHANGED <<chain, records, block, cursor, saved, run, tx, past>>

\* and then the satpoints of the inscriptions on it, one by one.
CommitInscription ==
  /\ Committing /\ staged.pending # << >>
  /\ LET m == Head(staged.pending)
     IN /\ tab' = [tab EXCEPT !.points =
                     Put(@, m[1], [outpoint |-> staged.outpoint, offset |-> m[2]])]
        /\ staged' = [staged EXCEPT !.pending = Tail(@),
                                    !.record.points = @ \cup {m[1]}]
  /\ UNCHANGED <<chain, records, block, cursor, saved, run, tx, past>>

\* Mutant of Save: the change record is not saved.
SaveNoRecord ==
  /\ Committing /\ staged.pending = << >> /\ staged.cache = << >>
  /\ chain' = Append(chain, block)
  /\ block' = None /\ staged' = NoStaged
  /\ UNCHANGED <<tab, records, cursor, saved, run, tx, past>>

\* The later stages: the change record is saved, the block cleared.  (Pruning
\* the oldest record is Updater's.)
Save ==
  /\ Committing /\ staged.pending = << >> /\ staged.cache = << >>
  /\ records' = Put(records, H, staged.record)
  /\ chain' = Append(chain, block)
  /\ block' = None /\ staged' = NoStaged
  /\ UNCHANGED <<tab, cursor, saved, run, tx, past>>

-----------------------------------------------------------------------------
(* Reorgs *)

\* The change record r of height h is undone in t.
Undo(t, h, r) ==
  LET restored == [o \in {p[1] : p \in r.removed} |->
                     (CHOOSE p \in r.removed : p[1] = o)[2]]
  IN [t EXCEPT !.satSeqs = TakeFrom(@, r.satSeqs),
               !.children = TakeFrom(@, r.children),
               !.ids = Drop(@, r.ids),
               !.numbers = Drop(@, r.numbers),
               !.utxo = PutAll(Drop(@, r.outpoints), restored),
               !.satPoints = Drop(@, r.satPoints),
               !.entries = Drop(@, r.entries),
               !.points = Drop(@, r.points),
               !.stats = r.stats,
               !.last = Drop(@, {h})]

\* Mutant of Undone: oldest first.
UndoneOldestFirst(top, n) ==
  LET after[i \in 0..n] ==
        IF i = 0 THEN tab ELSE Undo(after[i - 1], top - n + i, records[top - n + i])
  IN after[n]

\* The n blocks below and at height top, newest first.
Undone(top, n) ==
  LET after[i \in 0..n] ==
        IF i = 0 THEN tab ELSE Undo(after[i - 1], top - i + 1, records[top - i + 1])
  IN after[n]

\* The tables without the satpoints, which a rollback removes and never puts
\* back.
Plain(t) == [t EXCEPT !.points = << >>, !.satPoints = << >>]

\* handle_reorg, of the last n blocks; never of genesis.
HandleReorg ==
  /\ block = None /\ past.reorgs < MaxReorgs
  /\ \E n \in 1..MaxUndo :
       LET top == Len(chain) - 1
           undone == top - n + 1 .. top
       IN /\ n <= top
          /\ tab' = Undone(top, n)
          /\ records' = Drop(records, undone)
          /\ chain' = SubSeq(chain, 1, top - n + 1)
          /\ past' = [tab |-> Drop(past.tab, undone),
                      reorgs |-> past.reorgs + 1,
                      clean |-> past.clean /\ Plain(tab') = Plain(past.tab[top - n + 1])]
  /\ UNCHANGED <<block, cursor, staged, saved, run, tx>>

-----------------------------------------------------------------------------
Transaction ==
  \/ Spend \/ Continue \/ Take \/ FinishInput \/ FinishInputs
  \/ Place \/ NextOutput \/ FinishOutputs
  \/ Locate \/ FinishLocations \/ Lose \/ FinishTransaction

Next ==
  \/ Stage \/ Begin \/ Transaction \/ Break \/ FinishBlock
  \/ CommitOutput \/ CommitInscription \/ Save \/ HandleReorg

Spec == Init /\ [][Next]_vars

-----------------------------------------------------------------------------
(* Correctness.  The tables are looked at between blocks, but where a query  *)
(* may look at any time; after a rollback that did not bring them back       *)
(* (UndoRestores says when one does) nothing is claimed but UndoRestores.    *)

Between == block = None /\ past.clean

Inscribed == DOMAIN tab.entries
Places(seq) == {p \in UNION {{o} \X DOMAIN tab.utxo[o].ins : o \in DOMAIN tab.utxo} :
                  tab.utxo[p[1]].ins[p[2]][1] = seq}

\* Locals and staged variables keep their types, a height has a change record
\* and a last sequence number just when its block is indexed, and no unsigned
\* counter goes below zero (inscription_updater.rs subtracts output values).
TypeOK ==
  /\ chain \in Seq(Blocks) /\ block \in Blocks \cup {None}
  /\ DOMAIN records = 0..Len(chain) - 1
  /\ Between => DOMAIN tab.last = DOMAIN records
  /\ cursor \in [tx : Nat \ {0}, input : Nat \ {0}, inscription : Nat \ {0}]
  /\ staged.state \in {"Index", "Commit"}
  /\ tab.stats \in [DOMAIN NoStats -> Nat]
  /\ run # Absent => /\ run.stats \in [DOMAIN NoStats -> Nat]
                   /\ run.reward \in Nat /\ run.next \in Nat
                   /\ \A i \in DOMAIN run.flotsam : run.flotsam[i].offset \in Nat
  /\ tx # Absent => /\ run # Absent
                  /\ \A i \in DOMAIN tx.located : tx.located[i].offset \in Nat

\* Every sat mined so far is in one place of one output, the lost ones on the
\* null outpoint: index_transaction_sats loses and doubles none, over fees,
\* interrupted blocks and rollbacks.
SatsConserved ==
  Between =>
    /\ UNION {ToSet(tab.utxo[o].sats) : o \in DOMAIN tab.utxo} = 0..Subsidy * Len(chain) - 1
    /\ \A o, p \in DOMAIN tab.utxo :
         \A i \in DOMAIN tab.utxo[o].sats, j \in DOMAIN tab.utxo[p].sats :
           tab.utxo[o].sats[i] = tab.utxo[p].sats[j] => o = p /\ i = j
    /\ Len(Cached(tab.utxo, Null).sats) = tab.stats.lost

\* An inscription is where its sat is, however often both have moved, each by
\* an arithmetic of its own: offsets in values here, sat ranges there.
InscriptionsOnTheirSat ==
  Between =>
    \A o \in DOMAIN tab.utxo \ {Unbound} : \A i \in DOMAIN tab.utxo[o].ins :
      LET m == tab.utxo[o].ins[i]
      IN /\ m[2] < Len(tab.utxo[o].sats)
         /\ tab.entries[m[1]].sat = {tab.utxo[o].sats[m[2] + 1]}

\* Every inscription is on one output, once, and on the unbound outpoint just
\* when it has no sat: none is dropped or doubled when an interrupted
\* transaction resumes.
EachOnce ==
  Between =>
    /\ \A seq \in Inscribed :
         /\ Cardinality(Places(seq)) = 1
         /\ tab.entries[seq].sat = {} <=> \E p \in Places(seq) : p[1] = Unbound
    /\ \A o \in DOMAIN tab.utxo :
         {tab.utxo[o].ins[i][1] : i \in DOMAIN tab.utxo[o].ins} \subseteq Inscribed

\* A query for an output finds the entry of every inscription listed there:
\* inscriptions_on_output unwraps it (index.rs).  Entries are written when an
\* inscription lands and outputs when the block is committed, so this is asked
\* at every step, in the middle of a block too.  A rollback of a burn breaks it
\* (EntriesPresent); it is claimed as long as rollbacks brought the tables back.
QueriesAnswerable ==
  past.clean =>
    \A o \in DOMAIN tab.utxo : \A i \in DOMAIN tab.utxo[o].ins :
      tab.utxo[o].ins[i][1] \in Inscribed

\* Sequence numbers count the inscriptions in the order of their heights, the
\* numbers count up and, for cursed ones, down without a gap, and the tables
\* by id and by number are the inverses of the entries.
NumbersDense ==
  Between =>
    /\ Inscribed = 0..tab.stats.blessed + tab.stats.cursed - 1
    /\ DOMAIN tab.numbers = -tab.stats.cursed..tab.stats.blessed - 1
    /\ \A seq \in Inscribed : LET e == tab.entries[seq]
                              IN tab.numbers[e.number] = seq /\ tab.ids[e.id] = seq
    /\ Cardinality(DOMAIN tab.ids) = Cardinality(Inscribed)
    /\ \A h \in DOMAIN tab.last : \A seq \in Inscribed :
         tab.entries[seq].height <= h <=> seq < tab.last[h]

\* Children, sats and their inscriptions, as the entries have them.
SecondaryIndexesAgree ==
  Between =>
    /\ \A p, c \in Inscribed :
         p \in tab.entries[c].parents <=> p \in DOMAIN tab.children /\ c \in tab.children[p]
    /\ \A seq \in Inscribed : \A s \in tab.entries[seq].sat :
         s \in DOMAIN tab.satSeqs /\ seq \in tab.satSeqs[s]
    /\ \A s \in DOMAIN tab.satSeqs :
         tab.satSeqs[s] # {} /\ \A seq \in tab.satSeqs[s] : tab.entries[seq].sat = {s}

\* A satpoint that the tables give is where the inscription or the sat is, and
\* before any rollback they give one for each inscription and each rare sat.
PointsTrue ==
  Between =>
    /\ \A seq \in DOMAIN tab.points :
         LET p == tab.points[seq]
         IN /\ p.outpoint \in DOMAIN tab.utxo
            /\ <<seq, p.offset>> \in ToSet(tab.utxo[p.outpoint].ins)
    /\ \A s \in DOMAIN tab.satPoints :
         LET p == tab.satPoints[s]
         IN /\ p.outpoint \in DOMAIN tab.utxo
            /\ \E i \in DOMAIN tab.utxo[p.outpoint].sats :
                 i = p.offset + 1 /\ tab.utxo[p.outpoint].sats[i] = s
    /\ past.reorgs = 0 =>
         /\ DOMAIN tab.points = Inscribed
         /\ DOMAIN tab.satPoints = {s \in 0..Subsidy * Len(chain) - 1 : Rare(s)}

\* The value of an outpoint, and of the first n inputs of a transaction.
Value(o) ==
  LET t == CHOOSE t \in UNION {ToSet(Content[b]) : b \in Blocks} : t.id = o[1]
  IN t.outs[o[2]].value
InputValue(t, n) == MapThenSumSet(LAMBDA i : Value(t.ins[i]), 1..n)
OutputValue(t) == ValueOf(t.outs, Len(t.outs))

\* Where envelope k of transaction i of block b first comes down: in which
\* transaction, at which offset, and by its place among the envelopes.
Landing(b, i, k) ==
  LET txs == InOrder(b)
      t == txs[i]
      e == t.envs[k]
      to == IF e.pointer # None /\ e.pointer < OutputValue(t) THEN e.pointer
            ELSE InputValue(t, e.input - 1)
      fees(j) == InputValue(txs[j], Len(txs[j].ins)) - OutputValue(txs[j])
  IN IF to < OutputValue(t) THEN <<i, to, i, k>>
     ELSE <<Len(txs), Subsidy + MapThenSumSet(fees, 1..i - 1) + to - OutputValue(t), i, k>>

Before(p, q) == \E n \in 1..4 : p[n] < q[n] /\ \A m \in 1..n - 1 : p[m] = q[m]

\* Every envelope of an indexed block has one inscription, with the id that
\* counts the envelopes of its transaction, and the sequence numbers follow
\* the order in which they come down: by transaction, those paid as fees with
\* the coinbase, then by offset, then by envelope.  Nothing of it depends on
\* where the messages end.
NumberedAsTheyLand ==
  Between =>
    LET envelopes(b) == UNION {{i} \X DOMAIN InOrder(b)[i].envs : i \in DOMAIN Content[b]}
        id(b, p) == <<InOrder(b)[p[1]].id, p[2] - 1>>
    IN /\ DOMAIN tab.ids = UNION {{id(b, p) : p \in envelopes(b)} : b \in ToSet(chain)}
       /\ \A b \in ToSet(chain) : \A p, q \in envelopes(b) :
            Before(Landing(b, p[1], p[2]), Landing(b, q[1], q[2]))
              => tab.ids[id(b, p)] < tab.ids[id(b, q)]

\* What a curse rests on is in the end the sat: an inscription is cursed, or
\* vindicated from the jubilee on, if its envelope says so or is not the first
\* of the first input, and else just when its sat had several inscriptions
\* before it or one that was itself neither cursed nor vindicated.  The code
\* counts inscriptions at offsets of one transaction instead.
CursesFollowTheSat ==
  Between =>
    \A b \in ToSet(chain) : \A t \in ToSet(Content[b]) : \A k \in DOMAIN t.envs :
      LET e == t.envs[k]
          seq == tab.ids[<<t.id, k - 1>>]
          entry == tab.entries[seq]
          prior == {n \in Inscribed : n < seq /\ entry.sat # {}
                                      /\ tab.entries[n].sat = entry.sat}
          cursed == \/ e.flaw # "none" \/ e.input # 1 \/ e.pointer # None
                    \/ Cardinality(prior) > 1
                    \/ \E n \in prior : tab.entries[n].number >= 0
                                        /\ "Vindicated" \notin tab.entries[n].charms
      IN /\ entry.number < 0 <=> cursed /\ Height[b] < Jubilee
         /\ "Vindicated" \in entry.charms <=> cursed /\ Height[b] >= Jubilee

\* A block that moved what it cannot put back: its record lists an inscription
\* of an earlier block, a special outpoint, or statistics that are not those
\* of before the block.
Irreversible(h) ==
  \/ \E seq \in records[h].entries : seq \in DOMAIN past.tab[h].entries
  \/ records[h].outpoints \cap Special # {}
  \/ records[h].stats # past.tab[h].stats

\* handle_reorg brings back every table but the satpoints as it was before the
\* oldest block undone, unless that or a later one is irreversible; satpoints
\* it can only remove.
UndoRestores ==
  [][past'.reorgs # past.reorgs =>
       LET h == Len(chain')
       IN /\ (past.clean /\ \A i \in h..Len(chain) - 1 : ~Irreversible(i))
               => Plain(tab') = Plain(past.tab[h])
          /\ DOMAIN tab'.points \subseteq DOMAIN tab.points
          /\ DOMAIN tab'.satPoints \subseteq DOMAIN tab.satPoints]_vars

\* An inscription that an output lists has an entry, which the queries and the
\* next transfer unwrap (index.rs, inscription_updater.rs), also after a reorg.
EntriesPresent ==
  block = None =>
    \A o \in DOMAIN tab.utxo : \A i \in DOMAIN tab.utxo[o].ins :
      tab.utxo[o].ins[i][1] \in Inscribed

\* A reorg brings back the statistics that numbers are counted from.
StatisticsRestored ==
  [][past'.reorgs # past.reorgs => tab'.stats = past.tab[Len(chain')].stats]_vars
=============================================================================
