----------------------------- MODULE OffsetsProofs -----------------------------
(* That the offsets by which inscriptions move, which are counted in values,  *)
(* and the sats, which move as ranges, stay together: an inscription is at    *)
(* the offset of its sat on each place it comes through, for every content of *)
(* the blocks and every end of a message.                                     *)
EXTENDS SatsProofs

-----------------------------------------------------------------------------
(* Accounts                                                                  *)

\* From k on in s is what t has.
Continues(s, k, t, n) ==
  \A j \in DOMAIN t : n < j => k + (j - n) \in DOMAIN s /\ s[k + (j - n)] = t[j]

\* The outputs have the sats of the inputs from the first on; what they leave
\* is behind the fees that the reward counts, or all that the coinbase loses.
Accounted ==
  /\ InTx =>
       /\ \A v \in DOMAIN Work.outs :
            Work.outs[v].sats = SubSeq(Work.inSats, Paid(v - 1) + 1, Paid(v - 1) + This.outs[v].value)
       /\ IF IsLast THEN Continues(Accounts.lost, 0, Work.inSats, PaidOut)
          ELSE Continues(Accounts.fees, Accounts.reward, Work.inSats, PaidOut)
  /\ Indexing /\ At.tx <= Len(Txs) =>
       /\ ~(InTx /\ IsLast) => Accounts.lost = << >>
       /\ run # Absent => run.stats.lost = tab.stats.lost

-----------------------------------------------------------------------------
(* Offsets                                                                   *)

\* Inscription seq of the tables t is at offset at of the sats s.
Rests(seq, at, s, t) ==
  seq \in DOMAIN t.entries /\ at + 1 \in DOMAIN s /\ t.entries[seq].sat = {s[at + 1]}

\* So are those of an entry, and of outputs on their own sats.
Anchored(e, s, t) == \A i \in DOMAIN e.ins : Rests(e.ins[i][1], e.ins[i][2], s, t)
AllAnchored(m, t) == \A o \in DOMAIN m : Anchored(m[o], m[o].sats, t)

\* What floats does, or will get the sat that is there.
Rides(f, s, t) ==
  IF f.new = Absent THEN Rests(f.seq, f.offset, s, t)
  ELSE f.new.unbound \/ f.offset + 1 \in DOMAIN s
AllRide(q, s, t) == \A i \in DOMAIN q : Rides(q[i], s, t)

\* What has come down is at the sat of the output that it has on the inputs.
Fits(l, s, outs) ==
  /\ l.offset + 1 \in DOMAIN outs[l.out].sats
  /\ outs[l.out].sats[l.offset + 1] = s[l.flotsam.offset + 1]

\* The sats that the null outpoint will have.
Sinking == Sunk(tab.utxo) \o (IF Indexing THEN Accounts.lost ELSE Sunk(staged.cache))

Ashore(t) == AllAnchored(Drop(t.utxo, {Unbound}), t)

\* On the outpoints of the tables and of the cache, on the outputs and on the
\* inputs of the transaction in progress,
Moored ==
  /\ Ashore(tab)
  /\ AllAnchored(Drop(staged.cache, Special), tab)
  /\ Null \in DOMAIN staged.cache => Anchored(staged.cache[Null], Sinking, tab)
  /\ AllAnchored(Outs, tab)
  /\ InTx /\ ~IsLast => AllAnchored(Work.ins, tab)
\* among what floats and what has come down,
Riding ==
  InTx => /\ AllRide(Queue, Work.inSats, tab)
          /\ \A i \in DOMAIN Located : /\ Rides(Located[i].flotsam, Work.inSats, tab)
                                       /\ Fits(Located[i], Work.inSats, Outs)
\* and among the fees.
Waited == Indexing => AllRide(Waiting, Accounts.fees, tab)

Bound ==
  past.clean => (\A h \in DOMAIN past.tab : Ashore(past.tab[h])) /\ Moored /\ Riding /\ Waited

-----------------------------------------------------------------------------
(* Steps that leave the accounts alone                                       *)

\* The accounts of the block, and what the transaction in progress spends and
\* the sats of what it makes.
SameBooks ==
  /\ (InTx' <=> InTx) /\ (Indexing' <=> Indexing) /\ Txs' = Txs
  /\ InTx => Indexing
  /\ Indexing => /\ At'.tx = At.tx /\ Accounts'.fees = Accounts.fees
                 /\ Accounts'.lost = Accounts.lost /\ Accounts'.reward = Accounts.reward
  /\ InTx => /\ Work'.ins = Work.ins /\ Work'.inSats = Work.inSats
             /\ DOMAIN Work'.outs = DOMAIN Work.outs
             /\ \A v \in DOMAIN Work.outs : Work'.outs[v].sats = Work.outs[v].sats

\* The statistics of lost sats are written at the end of the coinbase only.
SameLosses ==
  Indexing /\ run' # Absent =>
    IF run = Absent THEN run'.stats.lost = tab'.stats.lost
    ELSE run'.stats.lost = run.stats.lost /\ tab'.stats.lost = tab.stats.lost

LEMMA SameAccounted ==
  ASSUME Accounted, SameBooks, SameLosses
  PROVE  Accounted'
<1>1. InTx => /\ This' = This /\ (IsLast' <=> IsLast) /\ PaidOut' = PaidOut
              /\ \A n : Paid(n)' = Paid(n)
  BY DEF SameBooks, This, IsLast, PaidOut, Paid
<1>2. Indexing => (At'.tx <= Len(Txs') <=> At.tx <= Len(Txs)) /\ (IsLast' <=> IsLast)
  BY DEF SameBooks, IsLast
<1>. HIDE DEF InTx, Indexing, At, Accounts, Work, This, IsLast, Paid, PaidOut
<1>3. (InTx =>
       /\ \A v \in DOMAIN Work.outs :
            Work.outs[v].sats = SubSeq(Work.inSats, Paid(v - 1) + 1, Paid(v - 1) + This.outs[v].value)
       /\ IF IsLast THEN Continues(Accounts.lost, 0, Work.inSats, PaidOut)
          ELSE Continues(Accounts.fees, Accounts.reward, Work.inSats, PaidOut))'
  <2>1. SUFFICES ASSUME InTx'
                 PROVE  (/\ \A v \in DOMAIN Work.outs :
                              Work.outs[v].sats = SubSeq(Work.inSats, Paid(v - 1) + 1,
                                                         Paid(v - 1) + This.outs[v].value)
                         /\ IF IsLast THEN Continues(Accounts.lost, 0, Work.inSats, PaidOut)
                            ELSE Continues(Accounts.fees, Accounts.reward, Work.inSats, PaidOut))'
    OBVIOUS
  <2>2. InTx /\ Indexing
    BY <2>1 DEF SameBooks
  <2>3. \A v \in DOMAIN Work'.outs :
          Work'.outs[v].sats = SubSeq(Work'.inSats, Paid(v - 1)' + 1, Paid(v - 1)' + This'.outs[v].value)
    <3>1. TAKE v \in DOMAIN Work'.outs
    <3>2. v \in DOMAIN Work.outs /\ Work'.outs[v].sats = Work.outs[v].sats
      BY <2>2, <3>1 DEF SameBooks
    <3>3. Work.outs[v].sats = SubSeq(Work.inSats, Paid(v - 1) + 1, Paid(v - 1) + This.outs[v].value)
      BY <2>2, <3>2 DEF Accounted
    <3>. QED BY <1>1, <2>2, <3>2, <3>3 DEF SameBooks
  <2>4. (IF IsLast THEN Continues(Accounts.lost, 0, Work.inSats, PaidOut)
         ELSE Continues(Accounts.fees, Accounts.reward, Work.inSats, PaidOut))'
    BY <1>1, <2>2 DEF Accounted, SameBooks, Continues
  <2>. QED BY <2>3, <2>4
<1>4. (Indexing /\ At.tx <= Len(Txs) =>
        /\ ~(InTx /\ IsLast) => Accounts.lost = << >>
        /\ run # Absent => run.stats.lost = tab.stats.lost)'
  BY <1>2 DEF Accounted, SameBooks, SameLosses
<1>. QED BY <1>3, <1>4 DEF Accounted

\* A step within a transaction.
LEMMA InTxBooks ==
  ASSUME Frame, tx # Absent, run' # Absent, tx' # Absent,
         UNCHANGED <<chain, block>>, staged'.state = staged.state,
         tx'.ins = tx.ins, tx'.inSats = tx.inSats, DOMAIN tx'.outs = DOMAIN tx.outs,
         \A v \in DOMAIN tx.outs : tx'.outs[v].sats = tx.outs[v].sats,
         run'.tx = run.tx, run'.fees = run.fees, run'.lost = run.lost, run'.reward = run.reward
  PROVE  SameBooks
<1>1. run # Absent /\ Indexing /\ InTx /\ At = run /\ Work = tx /\ Accounts = run
  BY InTxFacts
<1>2. InTx' /\ At' = run' /\ Work' = tx' /\ Accounts' = run' /\ Indexing' = Indexing /\ Txs' = Txs
  BY <1>1, InTxAfter
<1>. HIDE DEF At, InTx, Work, Accounts, Indexing
<1>. QED BY <1>1, <1>2 DEF SameBooks

LEMMA TakeBooks == ASSUME Frame, Take PROVE SameBooks /\ SameLosses
<1>. DEFINE m == Moved[run.inscription]
            f == [id |-> tab.entries[m[1]].id, offset |-> tx.inValue + m[2],
                  seq |-> m[1], new |-> Absent]
            floating == Append(tx.floating, f)
            offsets == Counted(tx.offsets, tx.inValue + m[2], tab.entries[m[1]].id)
<1>1. /\ AtInput /\ tx' = [tx EXCEPT !.floating = floating, !.offsets = offsets]
      /\ run' = [run EXCEPT !.inscription = run.inscription + 1]
      /\ UNCHANGED <<chain, tab, records, block, cursor, staged, saved, past>>
  BY DEF Take
<1>2. run # Absent /\ tx # Absent /\ TxOK(tx) /\ RunOK(run)
  BY <1>1, InTxFacts DEF AtInput
<1>. HIDE DEF floating, offsets
<1>3. /\ "phase" \in DOMAIN tx' /\ tx'.outs = tx.outs /\ tx'.ins = tx.ins /\ tx'.inSats = tx.inSats
  BY <1>1, <1>2 DEF TxOK, TxShape
<1>4. /\ "tx" \in DOMAIN run' /\ run'.tx = run.tx /\ run'.fees = run.fees /\ run'.lost = run.lost
      /\ run'.reward = run.reward /\ run'.stats = run.stats
  BY <1>1, <1>2 DEF RunOK, RunShape
<1>5. tx' # Absent /\ run' # Absent
  BY <1>3, <1>4, HasFields
<1>6. SameBooks
  BY <1>1, <1>2, <1>3, <1>4, <1>5, InTxBooks
<1>. QED BY <1>1, <1>2, <1>4, <1>6 DEF SameLosses

LEMMA FinishInputBooks == ASSUME Frame, FinishInput PROVE SameBooks /\ SameLosses
<1>. DEFINE value == IF Coinbase THEN Subsidy ELSE Len(tx.ins[run.input].sats)
            w == Revealed(tx.inValue, value)
<1>1. /\ AtInput /\ tx' = [w EXCEPT !.inValue = w.inValue + value]
      /\ run' = [run EXCEPT !.input = run.input + 1, !.inscription = 1]
      /\ UNCHANGED <<chain, tab, records, block, cursor, staged, saved, past>>
  BY DEF FinishInput
<1>2. run # Absent /\ tx # Absent /\ TxOK(tx) /\ RunOK(run) /\ ContentOK(T) /\ tx.inValue \in Nat
  BY <1>1, InTxFacts DEF AtInput, TxOK
<1>. HIDE DEF value
<1>3. Reveals(tx, w)
  BY <1>2, RevealedReveals
<1>. HIDE DEF w
<1>4. TxShape(w) /\ w.outs = tx.outs /\ w.ins = tx.ins /\ w.inSats = tx.inSats
  BY <1>3 DEF Reveals
<1>5. "phase" \in DOMAIN tx' /\ tx'.outs = tx.outs /\ tx'.ins = tx.ins /\ tx'.inSats = tx.inSats
  BY <1>1, <1>4 DEF TxShape
<1>6. /\ "tx" \in DOMAIN run' /\ run'.tx = run.tx /\ run'.fees = run.fees /\ run'.lost = run.lost
      /\ run'.reward = run.reward /\ run'.stats = run.stats
  BY <1>1, <1>2 DEF RunOK, RunShape
<1>7. tx' # Absent /\ run' # Absent
  BY <1>5, <1>6, HasFields
<1>8. SameBooks
  BY <1>1, <1>2, <1>5, <1>6, <1>7, InTxBooks
<1>. QED BY <1>1, <1>2, <1>6, <1>8 DEF SameLosses

LEMMA FinishInputsBooks == ASSUME Frame, FinishInputs PROVE SameBooks /\ SameLosses
<1>. DEFINE present == {tx.floating[i].id : i \in DOMAIN tx.floating}
            own == [i \in DOMAIN tx.floating |->
                      IF tx.floating[i].new = Absent THEN tx.floating[i]
                      ELSE [tx.floating[i] EXCEPT !.new.parents = @ \cap present]]
            all == own \o (IF Coinbase THEN run.flotsam ELSE << >>)
            queue == Sorted(all, [i \in DOMAIN all |-> all[i].offset])
            flotsam == IF Coinbase THEN << >> ELSE run.flotsam
<1>1. /\ run # Absent /\ tx # Absent
      /\ tx' = IF saved.in2 # Absent
               THEN [tx EXCEPT !.phase = "outputs", !.located = saved.in2.located,
                               !.outValue = saved.in2.outValue,
                               !.inValue = saved.in2.inValue,
                               !.out = saved.in2.out, !.queue = saved.in2.queue]
               ELSE [tx EXCEPT !.phase = "outputs", !.queue = queue]
      /\ run' = [run EXCEPT !.input = 1, !.flotsam = flotsam]
      /\ UNCHANGED <<chain, tab, records, block, cursor, staged, past>>
  BY DEF FinishInputs
<1>2. TxOK(tx) /\ RunOK(run)
  BY <1>1, InTxFacts
<1>. HIDE DEF queue, flotsam
<1>3. "phase" \in DOMAIN tx' /\ tx'.outs = tx.outs /\ tx'.ins = tx.ins /\ tx'.inSats = tx.inSats
  BY <1>1, <1>2 DEF TxOK, TxShape
<1>4. /\ "tx" \in DOMAIN run' /\ run'.tx = run.tx /\ run'.fees = run.fees /\ run'.lost = run.lost
      /\ run'.reward = run.reward /\ run'.stats = run.stats
  BY <1>1, <1>2 DEF RunOK, RunShape
<1>5. tx' # Absent /\ run' # Absent
  BY <1>3, <1>4, HasFields
<1>6. SameBooks
  BY <1>1, <1>2, <1>3, <1>4, <1>5, InTxBooks
<1>. QED BY <1>1, <1>2, <1>4, <1>6 DEF SameLosses

\* The steps that only change the locals of the transaction.
LEMMA LocalBooks ==
  ASSUME Frame, Place \/ NextOutput \/ FinishOutputs \/ FinishLocations
  PROVE  SameBooks /\ SameLosses
<1>1. /\ run # Absent /\ tx # Absent /\ UNCHANGED <<chain, tab, block, staged, run, past>>
  BY DEF Place, NextOutput, FinishOutputs, FinishLocations, Placeable, AtOutputs, AtLocations
<1>2. TxShape(tx)
  BY <1>1, InTxFacts DEF TxOK
<1>3. "phase" \in DOMAIN tx' /\ tx'.outs = tx.outs /\ tx'.ins = tx.ins /\ tx'.inSats = tx.inSats
  <2>1. CASE Place
    <3>. DEFINE located == Append(tx.located, [flotsam |-> Head(tx.queue), out |-> tx.out,
                                       offset |-> Head(tx.queue).offset - tx.outValue])
                queue == Tail(tx.queue)
    <3>1. tx' = [tx EXCEPT !.located = located, !.queue = queue]
      BY <2>1 DEF Place
    <3>. HIDE DEF located, queue
    <3>. QED BY <1>2, <3>1 DEF TxShape
  <2>2. CASE NextOutput
    <3>. DEFINE value == tx.outValue + T.outs[tx.out].value
                out == tx.out + 1
    <3>1. tx' = [tx EXCEPT !.outValue = value, !.out = out]
      BY <2>2 DEF NextOutput
    <3>. HIDE DEF value, out
    <3>. QED BY <1>2, <3>1 DEF TxShape
  <2>3. CASE FinishOutputs
    BY <1>2, <2>3 DEF FinishOutputs, TxShape
  <2>4. CASE FinishLocations
    BY <1>2, <2>4 DEF FinishLocations, TxShape
  <2>. QED BY <2>1, <2>2, <2>3, <2>4
<1>4. tx' # Absent
  BY <1>3, HasFields
<1>5. SameBooks
  BY <1>1, <1>3, <1>4, InTxBooks
<1>. QED BY <1>1, <1>5 DEF SameLosses

LEMMA BeginBooks == ASSUME Frame, Begin PROVE SameBooks /\ SameLosses
<1>1. /\ run' # Absent /\ run = Absent /\ UNCHANGED <<tab, saved>> /\ Indexing /\ Indexing' /\ (InTx' <=> InTx)
      /\ Work' = Work /\ At'.tx = At.tx /\ Txs' = Txs
  BY BeginSame DEF Begin
<1>2. /\ run'.fees = Kept.fees /\ run'.lost = Kept.lost /\ run'.reward = Kept.reward
      /\ run'.stats = tab.stats
  BY DEF Begin
<1>3. /\ Accounts'.fees = Accounts.fees /\ Accounts'.lost = Accounts.lost
      /\ Accounts'.reward = Accounts.reward
  BY <1>1, <1>2 DEF Accounts
<1>4. SameLosses
  BY <1>1, <1>2 DEF SameLosses
<1>. HIDE DEF InTx, Indexing, At, Accounts, Work
<1>. QED BY <1>1, <1>3, <1>4 DEF SameBooks

LEMMA ContinueBooks == ASSUME Frame, Continue PROVE SameBooks /\ SameLosses
<1>. DEFINE f == Fresh(saved.tx.ins, saved.tx.outs, saved.tx.inSats)
            floating == saved.in1.floating
            offsets == saved.in1.offsets
            id == saved.in1.id
            inValue == saved.in1.inValue
<1>1. /\ run # Absent /\ tx = Absent /\ saved.tx # Absent
      /\ tx' = IF saved.in1 = Absent THEN f
               ELSE [f EXCEPT !.floating = floating, !.offsets = offsets,
                              !.id = id, !.inValue = inValue]
      /\ UNCHANGED <<chain, tab, records, block, cursor, staged, saved, run, past>>
  BY DEF Continue
<1>2. TxShape(f) /\ f.ins = saved.tx.ins /\ f.outs = saved.tx.outs /\ f.inSats = saved.tx.inSats
  BY DEF Fresh, TxShape
<1>. HIDE DEF f, floating, offsets, id, inValue
<1>3. /\ "phase" \in DOMAIN tx' /\ tx'.ins = saved.tx.ins /\ tx'.outs = saved.tx.outs
      /\ tx'.inSats = saved.tx.inSats
  BY <1>1, <1>2 DEF TxShape
<1>4. tx' # Absent
  BY <1>3, HasFields
<1>5. Work = saved.tx /\ Work' = tx' /\ InTx /\ InTx' /\ Txs' = Txs /\ At' = At
      /\ Accounts' = Accounts /\ Indexing' = Indexing
  BY <1>1, <1>4 DEF Work, InTx, Txs, InOrder, At, Accounts, Indexing
<1>6. Indexing
  BY <1>1 DEF Frame, Control
<1>7. SameLosses
  BY <1>1 DEF SameLosses
<1>. HIDE DEF InTx, Indexing, At, Accounts, Work
<1>. QED BY <1>3, <1>5, <1>6, <1>7 DEF SameBooks

\* The end of a message saves the accounts and the transaction.
LEMMA SuspendBooks ==
  ASSUME Frame, tx # Absent,
         NEW input \in Nat \ {0}, NEW inscription \in Nat \ {0}, NEW kept,
         Suspend(input, inscription, kept), SavedOK(kept)
  PROVE  SameBooks /\ SameLosses
<1>1. /\ run' = Absent /\ Work'.ins = tx.ins /\ Work'.inSats = tx.inSats /\ Work'.outs = tx.outs
      /\ Accounts'.reward = run.reward /\ Accounts'.fees = run.fees
      /\ InTx' /\ Indexing' /\ At' = cursor' /\ cursor'.tx = run.tx /\ Txs' = Txs
  BY SuspendFacts
<1>2. SavedShape(kept)
  BY DEF SavedOK
<1>3. Accounts'.lost = Accounts.lost
  BY <1>2, SuspendFunds
<1>4. InTx /\ Indexing /\ At = run /\ Work = tx /\ Accounts = run
  BY InTxFacts
<1>5. SameLosses
  BY <1>1 DEF SameLosses
<1>. HIDE DEF InTx, Indexing, At, Accounts, Work
<1>. QED BY <1>1, <1>3, <1>4, <1>5 DEF SameBooks

LEMMA CommitInscriptionBooks == ASSUME Frame, CommitInscription PROVE SameBooks /\ SameLosses
<1>1. ~Indexing /\ ~InTx /\ staged.state = "Commit" /\ TabOK(tab) /\ StagedOK(staged)
  BY CommittingFacts DEF CommitInscription, Committing
<1>2. UNCHANGED <<chain, block, saved, run, tx>>
  BY DEF CommitInscription
<1>3. staged'.state = staged.state
  BY CommitInscriptionPlaces DEF SameView
<1>4. ~Indexing' /\ ~InTx' /\ Txs' = Txs
  BY <1>1, <1>2, <1>3 DEF Indexing, InTx, Txs, InOrder
<1>. HIDE DEF InTx, Indexing
<1>. QED BY <1>1, <1>4 DEF SameBooks, SameLosses

LEMMA StutterBooks == ASSUME Frame, UNCHANGED vars PROVE SameBooks /\ SameLosses
<1>1. /\ (InTx' <=> InTx) /\ (Indexing' <=> Indexing) /\ At' = At /\ Accounts' = Accounts
      /\ Work' = Work /\ Txs' = Txs /\ run' = run /\ tab' = tab
  BY DEF vars, InTx, Indexing, At, Accounts, Kept, Work, NewBlock, H, Txs, InOrder
<1>2. InTx => Indexing
  BY DEF Frame, Control, InTx, NoSaved
<1>3. run' # Absent => run # Absent
  BY <1>1
<1>. HIDE DEF InTx, Indexing, At, Accounts, Work
<1>. QED BY <1>1, <1>2, <1>3 DEF SameBooks, SameLosses

LEMMA BreakBooks == ASSUME Frame, Break PROVE SameBooks /\ SameLosses
<1>1. SavedOK(saved) /\ SavedShape(saved)
  BY DEF Frame, Types, SavedOK
<1>2. tx # Absent
  BY DEF Break, BreakInputs, AtInput, BreakOutputs, Placeable, AtOutputs, BreakLocations, AtLocations
<1>3. TxOK(tx) /\ RunOK(run) /\ Inputs \in Nat
  <2>1. TxOK(tx) /\ RunOK(run) /\ ContentOK(T)
    BY <1>2, InTxFacts
  <2>2. Len(T.ins) \in Nat
    BY <2>1, SeqFacts DEF ContentOK
  <2>. QED BY <2>1, <2>2 DEF Inputs
<1>4. CASE BreakInputs
  <2>. DEFINE in1 == [floating |-> tx.floating, offsets |-> tx.offsets,
                      id |-> tx.id, inValue |-> tx.inValue]
              kept == [saved EXCEPT !.in1 = in1]
  <2>1. Suspend(run.input, run.inscription, kept)
    BY <1>4 DEF BreakInputs
  <2>2. Flotsams(in1.floating) /\ in1.id \in Nat /\ in1.inValue \in Nat
    BY <1>3 DEF TxOK
  <2>. HIDE DEF in1
  <2>3. /\ SavedShape(kept) /\ kept.block = saved.block /\ kept.tx = saved.tx
        /\ kept.in1 = in1 /\ kept.in2 = saved.in2 /\ kept.in3 = saved.in3
    BY <1>1 DEF SavedShape
  <2>. HIDE DEF kept
  <2>4. SavedOK(kept)
    BY <1>1, <2>2, <2>3 DEF SavedOK
  <2>. QED BY <1>2, <1>3, <2>1, <2>4, SuspendBooks DEF RunOK
<1>5. CASE BreakOutputs
  <2>. DEFINE in2 == [located |-> tx.located, outValue |-> tx.outValue,
                      inValue |-> tx.inValue, out |-> tx.out, queue |-> tx.queue]
              kept == [saved EXCEPT !.in2 = in2]
  <2>1. Suspend(Inputs + 1, 1, kept)
    BY <1>5 DEF BreakOutputs
  <2>2. Landed(in2.located) /\ in2.inValue \in Nat
    BY <1>3 DEF TxOK
  <2>. HIDE DEF in2
  <2>3. /\ SavedShape(kept) /\ kept.block = saved.block /\ kept.tx = saved.tx
        /\ kept.in1 = saved.in1 /\ kept.in2 = in2 /\ kept.in3 = saved.in3
    BY <1>1 DEF SavedShape
  <2>. HIDE DEF kept
  <2>4. SavedOK(kept)
    BY <1>1, <2>2, <2>3 DEF SavedOK
  <2>5. Inputs + 1 \in Nat \ {0} /\ 1 \in Nat \ {0}
    BY <1>3
  <2>. QED BY <1>2, <2>1, <2>4, <2>5, SuspendBooks
<1>6. CASE BreakLocations
  <2>. DEFINE in3 == [located |-> tx.located, outValue |-> tx.outValue,
                      inValue |-> tx.inValue, queue |-> tx.queue, loc |-> tx.loc]
              kept == [saved EXCEPT !.in3 = in3]
  <2>1. Suspend(Inputs + 1, 1, kept)
    BY <1>6 DEF BreakLocations
  <2>2. Landed(in3.located) /\ in3.inValue \in Nat /\ in3.loc \in Nat \ {0}
    BY <1>3 DEF TxOK
  <2>. HIDE DEF in3
  <2>3. /\ SavedShape(kept) /\ kept.block = saved.block /\ kept.tx = saved.tx
        /\ kept.in1 = saved.in1 /\ kept.in2 = saved.in2 /\ kept.in3 = in3
    BY <1>1 DEF SavedShape
  <2>. HIDE DEF kept
  <2>4. SavedOK(kept)
    BY <1>1, <2>2, <2>3 DEF SavedOK
  <2>5. Inputs + 1 \in Nat \ {0} /\ 1 \in Nat \ {0}
    BY <1>3
  <2>. QED BY <1>2, <2>1, <2>4, <2>5, SuspendBooks
<1>. QED BY <1>4, <1>5, <1>6 DEF Break

\* An inscription comes on an entry, which keeps its sats.
LEMMA ComesOutSats ==
  ASSUME NEW t, NEW f, NEW o, NEW to, NEW place, Comes(t, f, o, to, place), EntriesOK(t.outs)
  PROVE  DOMAIN tx'.outs = DOMAIN t.outs /\ \A v \in DOMAIN t.outs : tx'.outs[v].sats = t.outs[v].sats
<1>1. CASE to \in Special
  BY <1>1 DEF Comes
<1>2. CASE to \notin Special
  <2>. DEFINE x == o[2]
              e == Pushed(t.outs[x], place)
  <2>1. tx'.outs = [t.outs EXCEPT ![x] = e]
    BY <1>2 DEF Comes
  <2>2. x \in DOMAIN t.outs => e.sats = t.outs[x].sats
    BY PushedSats DEF EntriesOK
  <2>. HIDE DEF e, x
  <2>. QED BY <2>1, <2>2
<1>. QED BY <1>1, <1>2

\* What Locate and Lose have in common: flotsam f comes down on outpoint o at
\* offset, when the transaction is t but for its outputs.
Comedown(t, f, o, offset, burn) ==
  /\ Settle(t, f, o, offset, burn) /\ FlotsamOK(f) /\ offset \in Nat
  /\ TxShape(t) /\ t.outs = tx.outs /\ t.ins = tx.ins /\ t.inSats = tx.inSats

LEMMA LocateComes ==
  ASSUME Frame, Locate
  PROVE  LET l == tx.located[tx.loc]
         IN /\ tx.loc \in DOMAIN tx.located /\ tx.phase = "locations"
            /\ Comedown([tx EXCEPT !.loc = tx.loc + 1], l.flotsam, <<T.id, l.out>>, l.offset,
                        T.outs[l.out].burn)
<1>. DEFINE l == tx.located[tx.loc]
            loc == tx.loc + 1
            t == [tx EXCEPT !.loc = loc]
<1>1. tx # Absent /\ tx.phase = "locations" /\ tx.loc <= Len(tx.located)
      /\ Settle(t, l.flotsam, <<T.id, l.out>>, l.offset, T.outs[l.out].burn)
  BY DEF Locate, AtLocations
<1>2. TxOK(tx)
  BY <1>1, InTxFacts
<1>3. tx.loc \in DOMAIN tx.located
  <2>1. tx.loc \in Nat \ {0} /\ DOMAIN tx.located = 1..Len(tx.located) /\ Len(tx.located) \in Nat
    BY <1>2, SeqFacts DEF TxOK, Landed
  <2>. QED BY <1>1, <2>1
<1>4. LocationOK(l)
  BY <1>2, <1>3 DEF TxOK, Landed
<1>. HIDE DEF loc
<1>5. TxShape(t) /\ t.outs = tx.outs /\ t.ins = tx.ins /\ t.inSats = tx.inSats
  BY <1>2 DEF TxOK, TxShape
<1>6. Comedown(t, l.flotsam, <<T.id, l.out>>, l.offset, T.outs[l.out].burn)
  <2>. HIDE DEF t, l
  <2>. QED BY <1>1, <1>4, <1>5 DEF LocationOK, Comedown
<1>. QED BY <1>1, <1>3, <1>6 DEF loc

LEMMA LoseComes ==
  ASSUME Frame, Lose
  PROVE  LET f == tx.queue[1]
         IN /\ tx.phase = "rest" /\ Coinbase /\ IsTail(Tail(tx.queue), tx.queue)
            /\ tx.outValue <= f.offset
            /\ Comedown([tx EXCEPT !.queue = Tail(tx.queue)], f, Null,
                        run.stats.lost + f.offset - tx.outValue, FALSE)
<1>. DEFINE f == tx.queue[1]
            offset == run.stats.lost + f.offset - tx.outValue
            queue == Tail(tx.queue)
            t == [tx EXCEPT !.queue = queue]
<1>1. /\ tx # Absent /\ tx.phase = "rest" /\ Coinbase /\ tx.queue # << >>
      /\ Settle(t, Head(tx.queue), Null, run.stats.lost + Head(tx.queue).offset - tx.outValue, FALSE)
  BY DEF Lose
<1>2. Ready(tx.queue, tx.outValue)
  BY <1>1 DEF Frame, Counts, PaidOut, Paid
<1>3. FlotsamOK(f) /\ tx.outValue <= f.offset /\ IsTail(queue, tx.queue) /\ Head(tx.queue) = f
  BY <1>1, <1>2, TailReady
<1>4. TxOK(tx) /\ RunOK(run)
  BY <1>1, InTxFacts
<1>5. offset \in Nat
  <2>1. run.stats.lost \in Nat /\ f.offset \in Nat /\ tx.outValue \in Nat
    BY <1>3, <1>4 DEF RunOK, StatsOK, FlotsamOK, TxOK
  <2>. QED BY <1>3, <2>1
<1>. HIDE DEF queue
<1>6. TxShape(t) /\ t.outs = tx.outs /\ t.ins = tx.ins /\ t.inSats = tx.inSats
  BY <1>4 DEF TxOK, TxShape
<1>7. Comedown(t, f, Null, offset, FALSE)
  <2>1. Settle(t, f, Null, offset, FALSE)
    BY <1>1, <1>3
  <2>. HIDE DEF t, f, offset
  <2>. QED BY <1>3, <1>5, <1>6, <2>1 DEF Comedown
<1>. QED BY <1>1, <1>3, <1>7 DEF queue

LEMMA SettlesBooks == ASSUME Frame, Locate \/ Lose PROVE SameBooks /\ SameLosses
<1>1. run # Absent /\ tx # Absent /\ UNCHANGED <<chain, block, past>>
  BY DEF Locate, Lose, AtLocations
<1>2. /\ TxOK(tx) /\ RunOK(run) /\ TabOK(tab) /\ StagedOK(staged)
  BY <1>1, InTxFacts DEF Frame, Types
<1>3. \E t, f, o, offset, burn : Comedown(t, f, o, offset, burn)
  BY LocateComes, LoseComes
<1>4. PICK t, f, o, offset, burn : Comedown(t, f, o, offset, burn)
  BY <1>3
<1>5. EntriesOK(t.outs)
  BY <1>2, <1>4 DEF TxOK, WorkOK, Comedown
<1>6. /\ run' # Absent /\ staged'.state = staged.state /\ run'.tx = run.tx /\ run'.fees = run.fees
      /\ run'.reward = run.reward
      /\ "phase" \in DOMAIN tx' /\ tx'.ins = tx.ins /\ tx'.inSats = tx.inSats
  BY <1>2, <1>4, <1>5, SettleFacts DEF Comedown
<1>7. /\ \E cache : IF f.new = Absent THEN Transfers(f, burn, cache) ELSE Inscribes(f, o, burn, cache)
      /\ \E to : \E place \in Nat \X Nat : Comes(t, f, o, to, place)
  BY <1>2, <1>4, <1>5, SettlePlaces DEF Comedown
<1>8. run'.stats.lost = run.stats.lost /\ tab'.stats = tab.stats
  BY <1>7 DEF Transfers, Inscribes
<1>9. run'.lost = run.lost
  <2>1. PICK cache : IF f.new = Absent THEN Transfer(f, burn, cache) ELSE Inscribe(f, o, burn, cache)
    BY <1>4, SettleStep DEF Comedown
  <2>2. CASE Transfer(f, burn, cache)
    BY <2>2 DEF Transfer
  <2>3. CASE Inscribe(f, o, burn, cache)
    <3>. DEFINE next == run.next + 1
                cursed == IF f.new.cursed THEN run.stats.cursed + 1 ELSE run.stats.cursed
                blessed == IF f.new.cursed THEN run.stats.blessed ELSE run.stats.blessed + 1
                unbound == IF f.new.unbound THEN run.stats.unbound + 1 ELSE run.stats.unbound
    <3>1. run' = [run EXCEPT !.next = next, !.stats.cursed = cursed,
                             !.stats.blessed = blessed, !.stats.unbound = unbound]
      BY <2>3 DEF Inscribe
    <3>. HIDE DEF next, cursed, blessed, unbound
    <3>. QED BY <1>2, <3>1 DEF RunOK, RunShape
  <2>. QED BY <2>1, <2>2, <2>3
<1>10. tx' # Absent
  BY <1>6, HasFields
<1>11. DOMAIN tx'.outs = DOMAIN tx.outs /\ \A v \in DOMAIN tx.outs : tx'.outs[v].sats = tx.outs[v].sats
  BY <1>4, <1>5, <1>7, ComesOutSats DEF Comedown
<1>12. SameBooks
  BY <1>1, <1>6, <1>9, <1>10, <1>11, InTxBooks
<1>. QED BY <1>1, <1>8, <1>12 DEF SameLosses

-----------------------------------------------------------------------------
(* The accounts                                                              *)

LEMMA LeftContinues ==
  ASSUME NEW s, IsSeq(s), NEW t, IsSeq(t), NEW n \in Nat, n <= Len(t)
  PROVE  Continues(s \o SubSeq(t, n + 1, Len(t)), Len(s), t, n)
<1>. DEFINE r == SubSeq(t, n + 1, Len(t))
            c == s \o r
<1>1. Len(s) \in Nat /\ Len(t) \in Nat /\ DOMAIN t = 1..Len(t)
  BY SeqFacts
<1>2. IsSeq(r) /\ Len(r) = Len(t) - n /\ \A i \in 1..Len(t) - n : r[i] = t[n + i]
  <2>. DEFINE m == Len(t)
  <2>1. m \in Nat /\ n <= m /\ m <= Len(t) /\ r = SubSeq(t, n + 1, m)
    BY <1>1
  <2>. HIDE DEF m, r
  <2>2. IsSeq(SubSeq(t, n + 1, m)) /\ Len(SubSeq(t, n + 1, m)) = m - n
        /\ \A i \in 1..m - n : SubSeq(t, n + 1, m)[i] = t[n + i]
    BY <2>1, SubSeqOf
  <2>. QED BY <2>1, <2>2 DEF m
<1>. HIDE DEF r
<1>3. IsConcat(c, s, r)
  BY <1>2, ConcatSeq
<1>. HIDE DEF c
<1>4. /\ DOMAIN c = 1..Len(s) + Len(r) /\ \A i \in 1..Len(r) : c[Len(s) + i] = r[i]
  BY <1>3, SeqFacts DEF IsConcat
<1>5. ASSUME NEW j \in DOMAIN t, n < j
      PROVE  Len(s) + (j - n) \in DOMAIN c /\ c[Len(s) + (j - n)] = t[j]
  <2>1. j \in 1..Len(t) /\ j - n \in 1..Len(t) - n /\ n + (j - n) = j
    BY <1>1, <1>5
  <2>2. c[Len(s) + (j - n)] = r[j - n] /\ r[j - n] = t[n + (j - n)]
    BY <1>2, <1>4, <2>1
  <2>3. Len(s) + (j - n) \in 1..Len(s) + Len(r)
    BY <1>1, <1>2, <2>1
  <2>. QED BY <1>4, <2>1, <2>2, <2>3
<1>6. Continues(c, Len(s), t, n)
  BY <1>5 DEF Continues
<1>. QED BY <1>6 DEF c, r

\* What Spend leaves of the accounts.
LEMMA SpendAccounts ==
  ASSUME Frame, Spend
  PROVE  run'.reward = run.reward /\ run'.stats = run.stats /\ tx'.floating = << >>
<1>. DEFINE left == SubSeq(tx'.inSats, ValueOf(T.outs, Len(T.outs)) + 1, Len(tx'.inSats))
            f == run.fees \o left
            l == run.lost \o left
<1>1. /\ run # Absent /\ tx = Absent /\ run.tx <= Len(Txs) /\ saved.tx = Absent
      /\ run' = IF Coinbase THEN [run EXCEPT !.lost = l] ELSE [run EXCEPT !.fees = f]
      /\ tx'.floating = << >>
  BY DEF Spend, Fresh
<1>2. RunOK(run)
  BY <1>1, BeforeTxFacts
<1>. HIDE DEF f, l
<1>. QED BY <1>1, <1>2 DEF RunOK, RunShape

\* The state at the beginning of a transaction.
LEMMA SpendViews ==
  ASSUME Frame, Frame', Spend
  PROVE  /\ At = run /\ Accounts = run /\ Indexing /\ ~InTx /\ block # None /\ ContentOK(T)
         /\ run.tx \in 1..Len(Txs) /\ RunOK(run) /\ TabOK(tab) /\ StagedOK(staged)
         /\ Len(run.fees) = run.reward
         /\ InTx' /\ Indexing' /\ At' = run' /\ Work' = tx' /\ Accounts' = run' /\ Txs' = Txs
         /\ At'.tx = run.tx /\ This' = T /\ (IsLast' <=> Coinbase) /\ (Coinbase' <=> Coinbase)
         /\ PaidOut' = ValueOf(T.outs, Len(T.outs)) /\ \A n : Paid(n)' = ValueOf(T.outs, n)
<1>1. /\ run # Absent /\ tx = Absent /\ saved.tx = Absent /\ run.tx <= Len(Txs)
      /\ UNCHANGED <<chain, block>> /\ staged'.state = staged.state
      /\ run' # Absent /\ run'.tx = run.tx /\ tx' # Absent
  BY SpendFields
<1>2. /\ RunOK(run) /\ TabOK(tab) /\ StagedOK(staged) /\ Indexing /\ At = run /\ Accounts = run
      /\ block # None /\ ~InTx /\ run.tx \in 1..Len(Txs) /\ ContentOK(T)
      /\ Len(run.fees) = run.reward
  BY <1>1, BeforeTxFacts
<1>3. InTx' /\ Indexing' /\ At' = run' /\ Work' = tx' /\ Accounts' = run' /\ Txs' = Txs
  BY <1>1, <1>2 DEF InTx, Indexing, At, Work, Accounts, Txs, InOrder
<1>4. This' = T /\ (IsLast' <=> Coinbase) /\ (Coinbase' <=> Coinbase)
  BY <1>1, <1>3 DEF This, T, IsLast, Coinbase
<1>5. PaidOut' = ValueOf(T.outs, Len(T.outs)) /\ \A n : Paid(n)' = ValueOf(T.outs, n)
  BY <1>4 DEF PaidOut, Paid
<1>. HIDE DEF InTx, Indexing, At, Accounts, Work, This, IsLast, Coinbase, T, PaidOut
<1>. QED BY <1>1, <1>2, <1>3, <1>4, <1>5

LEMMA SpendAccounted == ASSUME Frame, Frame', Accounted, Spend PROVE Accounted'
<1>. DEFINE inSats == tx'.inSats
            V == ValueOf(T.outs, Len(T.outs))
            left == SubSeq(inSats, V + 1, Len(inSats))
<1>1. /\ At = run /\ Accounts = run /\ Indexing /\ ~InTx /\ ContentOK(T)
      /\ run.tx \in 1..Len(Txs) /\ RunOK(run) /\ Len(run.fees) = run.reward
      /\ InTx' /\ Indexing' /\ At' = run' /\ Work' = tx' /\ Accounts' = run' /\ Txs' = Txs
      /\ At'.tx = run.tx /\ This' = T /\ (IsLast' <=> Coinbase)
      /\ PaidOut' = V /\ \A n : Paid(n)' = ValueOf(T.outs, n)
  BY SpendViews
<1>2. /\ IsSeq(inSats) /\ V <= Len(inSats)
      /\ tx'.outs = Outputs(inSats) /\ tab'.stats = tab.stats
      /\ Coinbase => inSats = run.fees /\ run'.lost = run.lost \o left
      /\ ~Coinbase => run'.lost = run.lost /\ run'.fees = run.fees \o left
  BY SpendSats
<1>3. run'.reward = run.reward /\ run'.stats = run.stats /\ run # Absent
  BY SpendAccounts DEF Spend
<1>4. V \in Nat /\ IsSeq(run.fees) /\ IsSeq(run.lost) /\ Len(Txs) \in Nat
  BY <1>1, PaidFacts, TxsFacts DEF RunOK, AccountsOK, Frame, Indexing
<1>5. run.lost = << >> /\ run.stats.lost = tab.stats.lost
  <2>1. At.tx <= Len(Txs)
    BY <1>1, <1>4
  <2>. HIDE DEF InTx, Indexing, At, Accounts, Work
  <2>. QED BY <1>1, <1>3, <2>1 DEF Accounted
<1>6. \A v \in DOMAIN tx'.outs :
        tx'.outs[v].sats = SubSeq(inSats, ValueOf(T.outs, v - 1) + 1, ValueOf(T.outs, v - 1) + T.outs[v].value)
  <2>1. ASSUME NEW v \in DOMAIN tx'.outs
        PROVE  tx'.outs[v].sats = SubSeq(inSats, ValueOf(T.outs, v - 1) + 1,
                                         ValueOf(T.outs, v - 1) + T.outs[v].value)
    <3>1. tx'.outs = Outputs(inSats) /\ DOMAIN Outputs(inSats) = DOMAIN T.outs
      BY <1>2 DEF Outputs
    <3>2. v \in DOMAIN T.outs
      BY <2>1, <3>1
    <3>3. Outputs(inSats)[v].sats = SubSeq(inSats, ValueOf(T.outs, v - 1) + 1,
                                           ValueOf(T.outs, v - 1) + T.outs[v].value)
      BY <3>2 DEF Outputs
    <3>. QED BY <3>1, <3>3
  <2>. QED BY <2>1
<1>7. IF Coinbase THEN Continues(run'.lost, 0, inSats, V)
      ELSE Continues(run'.fees, run'.reward, inSats, V)
  <2>. DEFINE s == IF Coinbase THEN run.lost ELSE run.fees
  <2>1. IsSeq(s)
    BY <1>4
  <2>2. Continues(s \o left, Len(s), inSats, V)
    <3>. HIDE DEF s, V, inSats
    <3>. QED BY <1>2, <1>4, <2>1, LeftContinues
  <2>3. Coinbase => Len(s) = 0
    BY <1>5, NothingSeq
  <2>. HIDE DEF left, V, inSats
  <2>. QED BY <1>1, <1>2, <1>3, <2>2, <2>3
<1>. HIDE DEF InTx, Indexing, At, Accounts, Work, This, IsLast, PaidOut, Paid, inSats, V, left, Coinbase, T
<1>8. (InTx =>
       /\ \A v \in DOMAIN Work.outs :
            Work.outs[v].sats = SubSeq(Work.inSats, Paid(v - 1) + 1, Paid(v - 1) + This.outs[v].value)
       /\ IF IsLast THEN Continues(Accounts.lost, 0, Work.inSats, PaidOut)
          ELSE Continues(Accounts.fees, Accounts.reward, Work.inSats, PaidOut))'
  BY <1>1, <1>6, <1>7 DEF inSats, Continues
<1>9. (Indexing /\ At.tx <= Len(Txs) =>
        /\ ~(InTx /\ IsLast) => Accounts.lost = << >>
        /\ run # Absent => run.stats.lost = tab.stats.lost)'
  BY <1>1, <1>2, <1>3, <1>5
<1>. QED BY <1>8, <1>9 DEF Accounted

LEMMA FinishTransactionReward ==
  ASSUME Frame, FinishTransaction
  PROVE  ~Coinbase => /\ run'.stats = run.stats
                      /\ run'.reward = run.reward + tx.inValue - tx.outValue
                      /\ run'.flotsam = run.flotsam \o
                           [i \in DOMAIN tx.queue |->
                              [tx.queue[i] EXCEPT !.offset = run.reward + tx.queue[i].offset - tx.outValue]]
<1>. DEFINE rest == [i \in DOMAIN tx.queue |->
                      [tx.queue[i] EXCEPT !.offset = run.reward + @ - tx.outValue]]
            n == run.tx + 1
            f == run.flotsam \o rest
            reward == run.reward + tx.inValue - tx.outValue
<1>0. SUFFICES ASSUME ~Coinbase
               PROVE  run'.stats = run.stats /\ run'.reward = reward /\ run'.flotsam = f
  OBVIOUS
<1>1. /\ tx # Absent
      /\ run' = [[run EXCEPT !.tx = n] EXCEPT !.flotsam = @ \o rest,
                                              !.reward = @ + tx.inValue - tx.outValue]
  BY <1>0 DEF FinishTransaction
<1>2. RunShape(run)
  BY <1>1, InTxFacts DEF RunOK
<1>3. run' = [[run EXCEPT !.tx = n] EXCEPT !.flotsam = f, !.reward = reward]
  <2>. HIDE DEF rest, n
  <2>. QED BY <1>1, <1>2 DEF RunShape
<1>. HIDE DEF rest, n, f, reward
<1>. QED BY <1>2, <1>3 DEF RunShape

LEMMA FinishTransactionAccounted == ASSUME Frame, Frame', Accounted, FinishTransaction PROVE Accounted'
<1>1. /\ run # Absent /\ tx # Absent /\ UNCHANGED <<chain, tab, block>> /\ staged'.state = staged.state
      /\ saved'.tx = Absent /\ tx' = Absent /\ run' # Absent /\ run'.tx = run.tx + 1
  BY FinishTransactionFields
<1>2. /\ Indexing /\ At = run /\ Accounts = run /\ InTx /\ run.tx \in 1..Len(Txs) /\ Len(Txs) \in Nat
      /\ (IsLast <=> Coinbase)
  BY <1>1, InTxFacts
<1>3. ~InTx' /\ At' = run' /\ Accounts' = run' /\ Txs' = Txs /\ run'.lost = run.lost
  BY <1>1, FinishTransactionAccounts DEF InTx, At, Accounts, Txs, InOrder
<1>4. CASE Coinbase
  <2>1. ~(At'.tx <= Len(Txs'))
    BY <1>1, <1>2, <1>3, <1>4 DEF Coinbase
  <2>. HIDE DEF InTx, Indexing, At, Accounts
  <2>. QED BY <1>3, <2>1 DEF Accounted
<1>5. CASE ~Coinbase
  <2>1. run'.stats = run.stats
    BY <1>5, FinishTransactionReward
  <2>2. run.tx <= Len(Txs)
    BY <1>2
  <2>. HIDE DEF InTx, Indexing, At, Accounts, Coinbase, IsLast
  <2>3. run.lost = << >> /\ run.stats.lost = tab.stats.lost
    BY <1>1, <1>2, <1>5, <2>2 DEF Accounted
  <2>. QED BY <1>1, <1>3, <2>1, <2>3 DEF Accounted
<1>. QED BY <1>4, <1>5

LEMMA IdleAccounted == Frame' /\ ~Indexing' => Accounted'
<1>. SUFFICES ASSUME Frame', ~Indexing' PROVE Accounted'
  OBVIOUS
<1>1. ~InTx'
  BY DEF Frame, Control, InTx, NoSaved
<1>. HIDE DEF InTx, Indexing
<1>. QED BY <1>1 DEF Accounted

LEMMA StageAccounted == ASSUME Frame, Frame', Stage PROVE Accounted'
<1>1. block = None /\ UNCHANGED <<saved, run, tx>>
  BY DEF Stage
<1>2. run = Absent /\ tx = Absent /\ saved = NoSaved
  BY <1>1 DEF Frame, Control, Indexing
<1>3. ~InTx' /\ run' = Absent /\ Accounts'.lost = << >>
  BY <1>1, <1>2 DEF InTx, Accounts, Kept, NoSaved, NewBlock
<1>. HIDE DEF InTx, Indexing, Accounts, At
<1>. QED BY <1>3 DEF Accounted

LEMMA InitAccounted == ASSUME Init PROVE Accounted
<1>1. ~Indexing /\ ~InTx
  BY DEF Init, Indexing, InTx, NoSaved
<1>. HIDE DEF InTx, Indexing
<1>. QED BY <1>1 DEF Accounted

LEMMA NextAccounted == ASSUME Frame, Frame', Accounted, [Next]_vars PROVE Accounted'
<1>1. CASE \/ Begin \/ Continue \/ Take \/ FinishInput \/ FinishInputs
           \/ Place \/ NextOutput \/ FinishOutputs \/ FinishLocations
           \/ Locate \/ Lose \/ Break \/ CommitInscription \/ UNCHANGED vars
  <2>1. SameBooks /\ SameLosses
    BY <1>1, BeginBooks, ContinueBooks, TakeBooks, FinishInputBooks, FinishInputsBooks,
       LocalBooks, SettlesBooks, BreakBooks, CommitInscriptionBooks, StutterBooks
  <2>. QED BY <2>1, SameAccounted
<1>2. CASE Spend
  BY <1>2, SpendAccounted
<1>3. CASE FinishTransaction
  BY <1>3, FinishTransactionAccounted
<1>4. CASE Stage
  BY <1>4, StageAccounted
<1>5. CASE FinishBlock \/ CommitOutput \/ Save \/ HandleReorg
  <2>1. staged'.state = "Commit" \/ block' = None
    BY <1>5, FinishBlockFields, CommitOutputFields DEF Save, HandleReorg, Committing
  <2>2. ~Indexing'
    BY <2>1 DEF Indexing
  <2>. QED BY <2>2, IdleAccounted
<1>. QED BY <1>1, <1>2, <1>3, <1>4, <1>5 DEF Next, Transaction

-----------------------------------------------------------------------------
(* Inscriptions on sats                                                      *)

\* The inscriptions of the tables t are in u, on the same sats.
Keeps(t, u) ==
  \A seq \in DOMAIN t.entries :
    seq \in DOMAIN u.entries /\ u.entries[seq].sat = t.entries[seq].sat

LEMMA KeepsSame == \A t, u : u.entries = t.entries => Keeps(t, u)
BY DEF Keeps

LEMMA KeepsAnchored ==
  ASSUME NEW t, NEW u, Keeps(t, u)
  PROVE  /\ \A e, s : Anchored(e, s, t) => Anchored(e, s, u)
         /\ \A m : AllAnchored(m, t) => AllAnchored(m, u)
         /\ \A f, s : Rides(f, s, t) => Rides(f, s, u)
         /\ \A q, s : AllRide(q, s, t) => AllRide(q, s, u)
<1>1. \A seq, at, s : Rests(seq, at, s, t) => Rests(seq, at, s, u)
  BY DEF Keeps, Rests
<1>2. \A e, s : Anchored(e, s, t) => Anchored(e, s, u)
  BY <1>1 DEF Anchored
<1>3. \A f, s : Rides(f, s, t) => Rides(f, s, u)
  BY <1>1 DEF Rides
<1>. QED BY <1>2, <1>3 DEF AllAnchored, AllRide

\* The sats s are in r, from k on.
Within(s, k, r) == \A j \in DOMAIN s : k + j \in DOMAIN r /\ r[k + j] = s[j]

LEMMA RestsWithin ==
  ASSUME NEW s, NEW k \in Int, NEW r, Within(s, k, r), NEW seq, NEW at \in Int, NEW t,
         Rests(seq, at, s, t)
  PROVE  Rests(seq, k + at, r, t)
<1>. DEFINE j == at + 1
<1>1. seq \in DOMAIN t.entries /\ j \in DOMAIN s /\ t.entries[seq].sat = {s[j]}
  BY DEF Rests
<1>2. k + j = (k + at) + 1
  OBVIOUS
<1>. HIDE DEF j
<1>3. k + j \in DOMAIN r /\ r[k + j] = s[j]
  BY <1>1 DEF Within
<1>. QED BY <1>1, <1>2, <1>3 DEF Rests

\* More sats come behind.
LEMMA WithinConcat ==
  ASSUME NEW s, IsSeq(s), NEW t, IsSeq(t), NEW r, IsConcat(r, s, t)
  PROVE  Within(s, 0, r) /\ Within(t, Len(s), r)
<1>1. Len(s) \in Nat /\ DOMAIN s = 1..Len(s) /\ Len(t) \in Nat /\ DOMAIN t = 1..Len(t)
  BY SeqFacts
<1>2. /\ DOMAIN r = 1..Len(s) + Len(t) /\ \A i \in 1..Len(s) : r[i] = s[i]
      /\ \A i \in 1..Len(t) : r[Len(s) + i] = t[i]
  BY SeqFacts DEF IsConcat
<1>3. ASSUME NEW j \in DOMAIN s PROVE 0 + j \in DOMAIN r /\ r[0 + j] = s[j]
  <2>1. j \in 1..Len(s) /\ 0 + j = j /\ j \in 1..Len(s) + Len(t)
    BY <1>1
  <2>. QED BY <1>2, <2>1
<1>4. ASSUME NEW j \in DOMAIN t PROVE Len(s) + j \in DOMAIN r /\ r[Len(s) + j] = t[j]
  <2>1. j \in 1..Len(t) /\ Len(s) + j \in 1..Len(s) + Len(t)
    BY <1>1
  <2>. QED BY <1>2, <2>1
<1>. QED BY <1>3, <1>4 DEF Within

LEMMA RidesWithin ==
  ASSUME NEW s, NEW r, Within(s, 0, r), NEW f, FlotsamOK(f), NEW t, Rides(f, s, t)
  PROVE  Rides(f, r, t)
<1>1. f.offset \in Nat
  BY DEF FlotsamOK
<1>2. CASE f.new = Absent
  <2>1. Rests(f.seq, f.offset, s, t)
    BY <1>2 DEF Rides
  <2>2. Rests(f.seq, 0 + f.offset, r, t)
    BY <1>1, <2>1, RestsWithin
  <2>3. 0 + f.offset = f.offset
    BY <1>1
  <2>. QED BY <1>2, <2>2, <2>3 DEF Rides
<1>3. CASE f.new # Absent
  <2>1. f.new.unbound \/ f.offset + 1 \in DOMAIN s
    BY <1>3 DEF Rides
  <2>2. 0 + (f.offset + 1) = f.offset + 1
    BY <1>1
  <2>3. f.new.unbound \/ f.offset + 1 \in DOMAIN r
    BY <2>1, <2>2 DEF Within
  <2>. QED BY <1>3, <2>3 DEF Rides
<1>. QED BY <1>2, <1>3

LEMMA AllRideWithin ==
  ASSUME NEW s, NEW r, Within(s, 0, r), NEW q, Flotsams(q), NEW t, AllRide(q, s, t)
  PROVE  AllRide(q, r, t)
BY RidesWithin DEF AllRide, Flotsams

\* The offsets of an entry are naturals.
LEMMA EntryPlaces ==
  ASSUME NEW e, EntryOK(e), NEW i \in DOMAIN e.ins
  PROVE  e.ins[i] \in Nat \X Nat /\ e.ins[i][1] \in Nat /\ e.ins[i][2] \in Nat
BY DEF EntryOK

LEMMA AnchoredWithin ==
  ASSUME NEW s, NEW r, Within(s, 0, r), NEW e, EntryOK(e), NEW t, Anchored(e, s, t)
  PROVE  Anchored(e, r, t)
<1>1. ASSUME NEW i \in DOMAIN e.ins
      PROVE  Rests(e.ins[i][1], e.ins[i][2], r, t)
  <2>. DEFINE seq == e.ins[i][1]
              at == e.ins[i][2]
  <2>1. at \in Nat /\ Rests(seq, at, s, t)
    BY EntryPlaces DEF Anchored
  <2>. HIDE DEF seq, at
  <2>2. Rests(seq, 0 + at, r, t) /\ 0 + at = at
    BY <2>1, RestsWithin
  <2>. QED BY <2>2 DEF seq, at
<1>. QED BY <1>1 DEF Anchored

LEMMA AnchoredPushed ==
  ASSUME NEW e, EntryOK(e), NEW place, NEW s, NEW t, Anchored(e, s, t),
         Rests(place[1], place[2], s, t)
  PROVE  Anchored(Pushed(e, place), s, t)
<1>. DEFINE ins == Append(e.ins, place)
            p == Pushed(e, place)
<1>1. p.ins = ins
  <2>1. p = [e EXCEPT !.ins = ins]
    BY DEF Pushed
  <2>. HIDE DEF ins, p
  <2>. QED BY <2>1 DEF EntryOK
<1>2. IsSeq(e.ins)
  BY EntryInsSeq
<1>3. IsAppend(ins, e.ins, place) /\ Len(e.ins) \in Nat /\ DOMAIN e.ins = 1..Len(e.ins)
  BY <1>2, AppendSeq, SeqFacts
<1>. HIDE DEF ins, p
<1>4. DOMAIN ins = 1..Len(e.ins) + 1
  BY <1>3, SeqFacts DEF IsAppend
<1>5. ASSUME NEW i \in DOMAIN ins PROVE Rests(ins[i][1], ins[i][2], s, t)
  <2>1. i \in 1..Len(e.ins) \/ i = Len(e.ins) + 1
    BY <1>3, <1>4
  <2>2. CASE i \in 1..Len(e.ins)
    <3>1. i \in DOMAIN e.ins /\ ins[i] = e.ins[i]
      BY <1>3, <2>2 DEF IsAppend
    <3>. QED BY <3>1 DEF Anchored
  <2>3. CASE i = Len(e.ins) + 1
    <3>1. ins[i] = place
      BY <1>3, <2>3 DEF IsAppend
    <3>. QED BY <3>1
  <2>. QED BY <2>1, <2>2, <2>3
<1>. QED BY <1>1, <1>5 DEF Anchored, p

LEMMA AnchoredMerged ==
  ASSUME NEW a, IsSeq(a.ins), NEW b, IsSeq(b.ins), NEW e, IsConcat(e.ins, a.ins, b.ins),
         NEW s, NEW t, Anchored(a, s, t), Anchored(b, s, t)
  PROVE  Anchored(e, s, t)
<1>1. /\ Len(a.ins) \in Nat /\ DOMAIN a.ins = 1..Len(a.ins)
      /\ Len(b.ins) \in Nat /\ DOMAIN b.ins = 1..Len(b.ins)
  BY SeqFacts
<1>2. /\ DOMAIN e.ins = 1..Len(a.ins) + Len(b.ins) /\ \A i \in 1..Len(a.ins) : e.ins[i] = a.ins[i]
      /\ \A i \in 1..Len(b.ins) : e.ins[Len(a.ins) + i] = b.ins[i]
  BY SeqFacts DEF IsConcat
<1>3. ASSUME NEW i \in DOMAIN e.ins
      PROVE  \/ i \in DOMAIN a.ins /\ e.ins[i] = a.ins[i]
             \/ i - Len(a.ins) \in DOMAIN b.ins /\ e.ins[i] = b.ins[i - Len(a.ins)]
  <2>1. \/ i \in 1..Len(a.ins)
        \/ i - Len(a.ins) \in 1..Len(b.ins) /\ Len(a.ins) + (i - Len(a.ins)) = i
    <3>. DEFINE x == Len(a.ins)
                y == Len(b.ins)
    <3>1. x \in Nat /\ y \in Nat /\ i \in 1..x + y
      BY <1>1, <1>2
    <3>. HIDE DEF x, y
    <3>2. i \in 1..x \/ (i - x \in 1..y /\ x + (i - x) = i)
      BY <3>1
    <3>. QED BY <3>2 DEF x, y
  <2>. QED BY <1>1, <1>2, <2>1
<1>4. ASSUME NEW i \in DOMAIN e.ins
      PROVE  Rests(e.ins[i][1], e.ins[i][2], s, t)
  BY <1>3 DEF Anchored
<1>. QED BY <1>4 DEF Anchored

LEMMA AnchoredNothing ==
  ASSUME NEW e, e.ins = << >>, NEW s, NEW t
  PROVE  Anchored(e, s, t)
BY DEF Anchored

LEMMA AllAnchoredNothing == \A t : AllAnchored(<< >>, t)
BY DEF AllAnchored

LEMMA AllAnchoredDrop ==
  ASSUME NEW m, NEW S, NEW t
  PROVE  AllAnchored(Drop(m, S), t) <=> \A o \in DOMAIN m : o \notin S => Anchored(m[o], m[o].sats, t)
BY DEF AllAnchored, Drop

\* The sats of an input are in those of the inputs, behind those of the inputs
\* before it.
LEMMA InputsWithin ==
  ASSUME NEW ins, NEW n \in Nat, \A i \in 1..n : IsSeq(ins[i].sats), NEW k \in 1..n
  PROVE  Within(ins[k].sats, Len(SatsOf(ins, k - 1)), SatsOf(ins, n))
<1>1. \A i \in 0..n : /\ IsSeq(SatsOf(ins, i))
                      /\ i < n => IsConcat(SatsOf(ins, i + 1), SatsOf(ins, i), ins[i + 1].sats)
  BY SatsAreSeq
<1>. DEFINE c == ins[k].sats
            at == Len(SatsOf(ins, k - 1))
            G == {d \in Nat : k + d <= n => Within(c, at, SatsOf(ins, k + d))}
<1>2. k \in Nat /\ k - 1 \in 0..n /\ k - 1 < n /\ (k - 1) + 1 = k
  OBVIOUS
<1>3. at \in Nat /\ IsSeq(c)
  BY <1>1, <1>2, SeqFacts
<1>4. 0 \in G
  <2>1. IsConcat(SatsOf(ins, k), SatsOf(ins, k - 1), c) /\ IsSeq(SatsOf(ins, k - 1))
    <3>1. IsConcat(SatsOf(ins, (k - 1) + 1), SatsOf(ins, k - 1), ins[(k - 1) + 1].sats)
      BY <1>1, <1>2
    <3>. QED BY <1>1, <1>2, <3>1
  <2>. HIDE DEF c
  <2>2. Within(c, at, SatsOf(ins, k))
    BY <1>3, <2>1, WithinConcat
  <2>3. k + 0 = k
    BY <1>2
  <2>. QED BY <2>2, <2>3
<1>5. \A d \in Nat : d \in G => d + 1 \in G
  <2>1. ASSUME NEW d \in Nat, d \in G, k + (d + 1) <= n
        PROVE  Within(c, at, SatsOf(ins, k + (d + 1)))
    <3>. DEFINE i == k + d
    <3>1. i \in 0..n /\ i < n /\ i + 1 = k + (d + 1) /\ i + 1 \in 1..n /\ i <= n
      BY <1>2, <2>1
    <3>2. Within(c, at, SatsOf(ins, i))
      BY <2>1, <3>1
    <3>. HIDE DEF i, c, at
    <3>3. IsConcat(SatsOf(ins, i + 1), SatsOf(ins, i), ins[i + 1].sats) /\ IsSeq(SatsOf(ins, i))
          /\ IsSeq(ins[i + 1].sats)
      BY <1>1, <3>1
    <3>. DEFINE s == SatsOf(ins, i)
                r == SatsOf(ins, i + 1)
    <3>4. Within(s, 0, r)
      BY <3>3, WithinConcat
    <3>. HIDE DEF s, r
    <3>5. ASSUME NEW j \in DOMAIN c PROVE at + j \in DOMAIN r /\ r[at + j] = c[j]
      <4>. DEFINE x == at + j
      <4>1. x \in DOMAIN s /\ s[x] = c[j]
        BY <3>2, <3>5 DEF Within, s
      <4>2. x \in Int
        <5>1. DOMAIN c = 1..Len(c)
          BY <1>3, SeqFacts
        <5>2. j \in Int
          BY <3>5, <5>1
        <5>. QED BY <1>3, <5>2
      <4>. HIDE DEF x
      <4>3. 0 + x \in DOMAIN r /\ r[0 + x] = s[x] /\ 0 + x = x
        BY <3>4, <4>1, <4>2 DEF Within
      <4>. QED BY <4>1, <4>3 DEF x
    <3>. QED BY <3>1, <3>5 DEF Within, r
  <2>. QED BY <2>1
<1>. HIDE DEF G
<1>6. \A d \in Nat : d \in G
  BY <1>4, <1>5, NatSetInduction
<1>7. n - k \in Nat /\ k + (n - k) = n
  OBVIOUS
<1>8. n - k \in G
  BY <1>6, <1>7
<1>. QED BY <1>7, <1>8 DEF G

-----------------------------------------------------------------------------
(* Steps that leave the sats alone                                           *)

SameGround ==
  /\ past' = past /\ tab'.utxo = tab.utxo /\ tab'.entries = tab.entries
  /\ staged'.cache = staged.cache /\ Outs' = Outs /\ SameBooks

LEMMA GroundMoored == ASSUME Moored, SameGround PROVE Moored'
<1>1. Keeps(tab, tab')
  BY KeepsSame DEF SameGround
<1>2. (IsLast' <=> IsLast) \/ ~InTx
  BY DEF SameGround, SameBooks, IsLast
<1>. HIDE DEF InTx, Indexing, At, Accounts, Work, Outs, IsLast
<1>3. Sinking' = Sinking
  BY DEF SameGround, SameBooks, Sinking
<1>4. Ashore(tab')
  BY <1>1, KeepsAnchored DEF Ashore, Moored, SameGround
<1>5. AllAnchored(Drop(staged'.cache, Special), tab')
  BY <1>1, KeepsAnchored DEF Moored, SameGround
<1>6. Null \in DOMAIN staged'.cache => Anchored(staged'.cache[Null], Sinking', tab')
  BY <1>1, <1>3, KeepsAnchored DEF Moored, SameGround
<1>7. AllAnchored(Outs', tab')
  BY <1>1, KeepsAnchored DEF Moored, SameGround
<1>8. (InTx /\ ~IsLast => AllAnchored(Work.ins, tab))'
  BY <1>1, <1>2, KeepsAnchored DEF Moored, SameGround, SameBooks
<1>9. Ashore(tab)' <=> Ashore(tab')
  BY DEF Ashore
<1>. QED BY <1>4, <1>5, <1>6, <1>7, <1>8, <1>9 DEF Moored

LEMMA GroundRiding ==
  ASSUME Riding, SameGround, Queue' = Queue, Located' = Located PROVE Riding'
<1>1. Keeps(tab, tab')
  BY KeepsSame DEF SameGround
<1>. HIDE DEF InTx, Work, Outs, Queue, Located
<1>2. SUFFICES ASSUME InTx'
               PROVE  /\ AllRide(Queue', Work'.inSats, tab')
                      /\ \A i \in DOMAIN Located' : /\ Rides(Located'[i].flotsam, Work'.inSats, tab')
                                                   /\ Fits(Located'[i], Work'.inSats, Outs')
  BY DEF Riding, AllRide
<1>3. InTx /\ Work'.inSats = Work.inSats
  BY <1>2 DEF SameGround, SameBooks
<1>4. AllRide(Queue', Work'.inSats, tab')
  BY <1>1, <1>3, KeepsAnchored DEF Riding
<1>5. ASSUME NEW i \in DOMAIN Located'
      PROVE  Rides(Located'[i].flotsam, Work'.inSats, tab') /\ Fits(Located'[i], Work'.inSats, Outs')
  BY <1>1, <1>3, <1>5, KeepsAnchored DEF Riding, SameGround
<1>. QED BY <1>4, <1>5

LEMMA GroundWaited == ASSUME Waited, SameGround, Waiting' = Waiting PROVE Waited'
<1>1. Keeps(tab, tab')
  BY KeepsSame DEF SameGround
<1>. HIDE DEF Indexing, Accounts, Waiting
<1>2. Indexing' => AllRide(Waiting', Accounts'.fees, tab')
  BY <1>1, KeepsAnchored DEF Waited, SameGround, SameBooks
<1>. QED BY <1>2 DEF Waited

LEMMA SameBound == ASSUME Bound, SameView, SameBooks PROVE Bound'
<1>1. SameGround /\ Queue' = Queue /\ Located' = Located /\ Waiting' = Waiting /\ past' = past
  BY DEF SameView, SameGround
<1>2. (\A h \in DOMAIN past.tab : Ashore(past.tab[h])) => (\A h \in DOMAIN past.tab : Ashore(past.tab[h]))'
  BY <1>1 DEF Ashore
<1>. QED BY <1>1, <1>2, GroundMoored, GroundRiding, GroundWaited DEF Bound

LEMMA QuietBound ==
  ASSUME Frame, Frame', Sited, Bound,
         \/ Begin \/ Continue \/ NextOutput \/ FinishOutputs \/ FinishLocations
         \/ (FinishInputs /\ Resumes) \/ Break \/ CommitInscription
  PROVE  Bound'
<1>1. Positions
  BY DEF Sited
<1>2. SameView
  BY <1>1, BeginView, ContinuePlaces, NextOutputPlaces, FinishOutputsPlaces, FinishLocationsPlaces,
     FinishInputsAgain, BreakInputsPlaces, BreakOutputsPlaces, BreakLocationsPlaces,
     CommitInscriptionPlaces DEF Break
<1>3. SameBooks
  BY BeginBooks, ContinueBooks, LocalBooks, FinishInputsBooks, BreakBooks, CommitInscriptionBooks
<1>. QED BY <1>2, <1>3, SameBound

LEMMA StutterBound == ASSUME Bound, UNCHANGED vars PROVE Bound'
<1>1. /\ (InTx' <=> InTx) /\ (Indexing' <=> Indexing) /\ At' = At /\ Accounts' = Accounts
      /\ Work' = Work /\ Txs' = Txs /\ tab' = tab /\ staged' = staged /\ past' = past
      /\ (Resumes' <=> Resumes) /\ (Loading3' <=> Loading3) /\ (Loading2' <=> Loading2)
      /\ tx' = tx /\ saved' = saved
  BY DEF vars, InTx, Indexing, At, Accounts, Kept, Work, NewBlock, H, Txs, InOrder, Resumes,
         Loading2, Loading3
<1>. HIDE DEF InTx, Indexing, At, Accounts, Work, Resumes, Loading2, Loading3
<1>2. /\ Queue' = Queue /\ Located' = Located /\ Outs' = Outs /\ Waiting' = Waiting
      /\ Sinking' = Sinking /\ (IsLast' <=> IsLast)
  BY <1>1 DEF Queue, Located, Reading, Outs, Waiting, Sinking, IsLast
<1>. HIDE DEF Queue, Located, Outs, Waiting, Sinking, IsLast
<1>3. Moored => Moored'
  BY <1>1, <1>2 DEF Moored, Ashore
<1>4. Riding => Riding'
  BY <1>1, <1>2 DEF Riding, AllRide, Rides, Fits, Rests
<1>5. Waited => Waited'
  BY <1>1, <1>2 DEF Waited, AllRide, Rides, Rests
<1>6. (\A h \in DOMAIN past.tab : Ashore(past.tab[h])) => (\A h \in DOMAIN past.tab : Ashore(past.tab[h]))'
  BY <1>1 DEF Ashore
<1>. QED BY <1>1, <1>3, <1>4, <1>5, <1>6 DEF Bound

-----------------------------------------------------------------------------
(* Inputs                                                                    *)

LEMMA AllRideAppend ==
  ASSUME NEW q, IsSeq(q), NEW f, NEW r, IsAppend(r, q, f), NEW s, NEW t,
         AllRide(q, s, t), Rides(f, s, t)
  PROVE  AllRide(r, s, t)
<1>1. \A i \in DOMAIN r : (i \in DOMAIN q /\ r[i] = q[i]) \/ r[i] = f
  BY DEF IsAppend, IsSeq
<1>. QED BY <1>1 DEF AllRide

LEMMA AllRideNothing == \A s, t : AllRide(<< >>, s, t)
BY DEF AllRide

\* The sats of the input at hand are those behind the value of the inputs done.
LEMMA InputWithin ==
  ASSUME Frame, tx # Absent, ~Coinbase, run.input \in 1..Inputs,
         tx.inValue = Len(SatsOf(tx.ins, run.input - 1))
  PROVE  /\ Within(tx.ins[run.input].sats, tx.inValue, tx.inSats)
         /\ run.input \in DOMAIN tx.ins /\ EntryOK(tx.ins[run.input]) /\ tx.inValue \in Nat
<1>. DEFINE n == Len(tx.ins)
<1>1. /\ run # Absent /\ TxOK(tx) /\ RunOK(run) /\ Indexing /\ InTx
      /\ At = run /\ Work = tx /\ This = T /\ (IsLast <=> Coinbase) /\ InputCount = Inputs
  BY InTxFacts
<1>2. n = Inputs /\ n \in Nat /\ DOMAIN tx.ins = 1..n
  <2>1. Len(Work.ins) = Len(This.ins)
    BY <1>1 DEF Frame, Counts
  <2>2. IsSeq(tx.ins)
    BY <1>1 DEF TxOK, WorkOK
  <2>. QED BY <1>1, <2>1, <2>2 DEF Inputs, IsSeq
<1>3. \A j \in 1..n : EntryOK(tx.ins[j]) /\ IsSeq(tx.ins[j].sats)
  BY <1>1, <1>2 DEF TxOK, WorkOK, EntryOK
<1>4. Within(tx.ins[run.input].sats, tx.inValue, SatsOf(tx.ins, n))
  BY <1>2, <1>3, InputsWithin
<1>5. tx.inSats = SatsOf(tx.ins, n)
  BY <1>1 DEF Frame, Balanced
<1>. QED BY <1>1, <1>2, <1>3, <1>4, <1>5 DEF TxOK

\* An inscription on an input is at its sat among those of all inputs.
LEMMA InputRests ==
  ASSUME Frame, tx # Absent, ~Coinbase, run.input \in 1..Inputs, past.clean, Bound,
         tx.inValue = Len(SatsOf(tx.ins, run.input - 1)),
         NEW i \in DOMAIN tx.ins[run.input].ins
  PROVE  Rests(tx.ins[run.input].ins[i][1], tx.inValue + tx.ins[run.input].ins[i][2], tx.inSats, tab)
<1>. DEFINE e == tx.ins[run.input]
<1>1. InTx /\ Work = tx /\ ~IsLast
  BY InTxFacts
<1>2. Within(e.sats, tx.inValue, tx.inSats) /\ run.input \in DOMAIN tx.ins /\ EntryOK(e)
      /\ tx.inValue \in Nat
  BY InputWithin
<1>3. AllAnchored(tx.ins, tab)
  BY <1>1 DEF Bound, Moored
<1>4. Rests(e.ins[i][1], e.ins[i][2], e.sats, tab)
  BY <1>2, <1>3 DEF AllAnchored, Anchored
<1>5. e.ins[i][2] \in Nat
  BY <1>2, EntryPlaces
<1>. QED BY <1>2, <1>4, <1>5, RestsWithin

LEMMA TakeBound == ASSUME Frame, Frame', Bound, Take PROVE Bound'
<1>. DEFINE m == Moved[run.inscription]
            f == [id |-> tab.entries[m[1]].id, offset |-> tx.inValue + m[2],
                  seq |-> m[1], new |-> Absent]
            floating == Append(tx.floating, f)
            offsets == Counted(tx.offsets, tx.inValue + m[2], tab.entries[m[1]].id)
            ins == tx.ins[run.input].ins
<1>1. /\ AtInput /\ run.inscription <= Len(Moved)
      /\ tx' = [tx EXCEPT !.floating = floating, !.offsets = offsets]
      /\ run' = [run EXCEPT !.inscription = run.inscription + 1]
      /\ UNCHANGED <<chain, tab, records, block, cursor, staged, saved, past>>
  BY DEF Take
<1>2. /\ run # Absent /\ TxOK(tx) /\ RunOK(run) /\ Indexing /\ InTx /\ block # None
      /\ At = run /\ Work = tx /\ Accounts = run
      /\ tx # Absent /\ tx.phase = "inputs" /\ run.input <= Inputs
  BY <1>1, InTxFacts DEF AtInput
<1>3. /\ ~Resumes /\ run.input \in 1..Inputs /\ Inputs \in Nat /\ ~Coinbase
      /\ Len(tx.ins) = Inputs /\ EntryOK(tx.ins[run.input])
      /\ tx.inValue = Len(SatsOf(tx.ins, run.input - 1))
  <2>1. ASSUME Coinbase PROVE FALSE
    <3>1. Moved = << >>
      BY <2>1 DEF Moved
    <3>2. run.inscription \in Nat \ {0} /\ Len(Moved) = 0
      BY <1>2, <3>1 DEF RunOK
    <3>. QED BY <1>1, <3>2
  <2>. QED BY <1>1, <2>1, AtInputFacts
<1>4. \E i \in DOMAIN ins : m = ins[i]
  <2>1. ins \in Seq(Nat \X Nat)
    BY <1>3 DEF EntryOK
  <2>2. Moved = Sorted(ins, [i \in DOMAIN ins |-> ins[i][1]])
    BY <1>3 DEF Moved
  <2>. HIDE DEF ins
  <2>3. Len(Moved) = Len(ins) /\ DOMAIN Moved = DOMAIN ins /\ DOMAIN ins = 1..Len(ins)
        /\ \E p : Permutes(Moved, ins, p)
    BY <2>1, <2>2, InOrderFromFacts
  <2>4. run.inscription \in Nat \ {0} /\ Len(ins) \in Nat
    BY <1>2, <2>1 DEF RunOK
  <2>5. run.inscription \in 1..Len(ins)
    BY <1>1, <2>3, <2>4
  <2>. QED BY <2>3, <2>5 DEF Permutes
<1>5. past.clean => Rests(m[1], tx.inValue + m[2], tx.inSats, tab)
  BY <1>2, <1>3, <1>4, InputRests
<1>6. f.new = Absent /\ f.seq = m[1] /\ f.offset = tx.inValue + m[2]
  OBVIOUS
<1>. HIDE DEF f
<1>7. IsAppend(floating, tx.floating, f) /\ IsSeq(tx.floating)
  BY <1>2, AppendSeq DEF TxOK, Flotsams
<1>. HIDE DEF floating, offsets
<1>8. /\ "phase" \in DOMAIN tx' /\ tx'.phase = "inputs" /\ tx'.outs = tx.outs
      /\ tx'.floating = floating /\ tx'.inSats = tx.inSats
  BY <1>1, <1>2 DEF TxOK, TxShape
<1>9. "tx" \in DOMAIN run' /\ run'.flotsam = run.flotsam
  BY <1>1, <1>2 DEF RunOK, RunShape
<1>10. tx' # Absent /\ run' # Absent
  BY <1>8, <1>9, HasFields
<1>11. ViewsReading /\ ViewsReading'
  <2>1. (Frame /\ tx # Absent /\ tx.phase = "inputs" /\ ~Resumes => ViewsReading)'
    BY ViewReading, PTL
  <2>. QED BY <1>1, <1>2, <1>3, <1>8, <1>10, <2>1, ViewReading DEF Resumes
<1>12. /\ Queue = tx.floating /\ Queue' = floating /\ Outs' = Outs /\ Waiting' = Waiting
       /\ Located = << >> /\ Located' = << >>
  BY <1>8, <1>9, <1>11 DEF ViewsReading
<1>13. SameGround
  BY <1>1, <1>12, TakeBooks DEF SameGround
<1>14. Work'.inSats = Work.inSats
  BY <1>2, <1>13 DEF SameGround, SameBooks
<1>. SUFFICES ASSUME past.clean
              PROVE  ((\A h \in DOMAIN past.tab : Ashore(past.tab[h])) /\ Moored /\ Riding /\ Waited)'
  BY <1>1 DEF Bound
<1>15. (\A h \in DOMAIN past.tab : Ashore(past.tab[h])) /\ Moored /\ Riding /\ Waited
  BY DEF Bound
<1>16. (\A h \in DOMAIN past.tab : Ashore(past.tab[h]))' /\ Moored' /\ Waited'
  BY <1>1, <1>12, <1>13, <1>15, GroundMoored, GroundWaited
<1>17. AllRide(Queue', Work'.inSats, tab')
  <2>1. AllRide(Queue, tx.inSats, tab)
    BY <1>2, <1>15 DEF Riding
  <2>2. Rides(f, tx.inSats, tab)
    BY <1>5, <1>6 DEF Rides
  <2>. QED BY <1>1, <1>2, <1>7, <1>12, <1>14, <2>1, <2>2, AllRideAppend
<1>18. Riding'
  <2>1. DOMAIN Located' = {}
    BY <1>12
  <2>. HIDE DEF InTx, Work, Queue, Located, Outs
  <2>. QED BY <1>17, <2>1 DEF Riding
<1>. QED BY <1>16, <1>18

\* A new inscription points at a sat, if the input has one.
Points(at, value, s) ==
  /\ IsSeq(s) /\ ValueOf(T.outs, Len(T.outs)) <= Len(s)
  /\ ValueOf(T.outs, Len(T.outs)) \in Nat
  /\ value # 0 => at + 1 \in DOMAIN s

LEMMA RevealRides ==
  ASSUME NEW u, TxShape(u), IsSeq(u.floating), NEW s, NEW t, AllRide(u.floating, s, t),
         NEW e, e.pointer = None \/ e.pointer \in Nat, NEW at \in Nat, NEW value,
         Points(at, value, s)
  PROVE  LET w == Reveal(u, e, at, value)
         IN TxShape(w) /\ IsSeq(w.floating) /\ AllRide(w.floating, s, t)
<1>. DEFINE to == IF e.pointer # None /\ e.pointer < ValueOf(T.outs, Len(T.outs))
                  THEN e.pointer ELSE at
            id == <<T.id, u.id>>
            curse == \/ e.flaw # "none" \/ e.input # 1 \/ e.pointer # None
                     \/ Reinscribes(u.offsets, at)
            unbound == value = 0 \/ e.flaw = "even"
            new == [cursed |-> curse /\ H < Jubilee, vindicated |-> curse /\ H >= Jubilee,
                    unbound |-> unbound,
                    reinscription |-> to \in DOMAIN u.offsets, parents |-> e.parents]
            f == [id |-> id, offset |-> to, seq |-> None, new |-> new]
            floating == Append(u.floating, f)
            offsets == Counted(u.offsets, to, id)
            w == Reveal(u, e, at, value)
<1>1. w = [u EXCEPT !.floating = floating, !.offsets = offsets, !.id = u.id + 1]
  BY DEF Reveal
<1>2. value # 0 => to + 1 \in DOMAIN s
  <2>1. Len(s) \in Nat /\ DOMAIN s = 1..Len(s)
    BY SeqFacts DEF Points
  <2>2. CASE e.pointer # None /\ e.pointer < ValueOf(T.outs, Len(T.outs))
    <3>. DEFINE p == e.pointer
                v == ValueOf(T.outs, Len(T.outs))
                n == Len(s)
    <3>1. p \in Nat /\ v \in Nat /\ v <= n /\ n \in Nat /\ p < v /\ to = p
      BY <2>1, <2>2 DEF Points
    <3>. HIDE DEF p, v, n, to
    <3>2. to + 1 \in 1..n
      BY <3>1
    <3>. QED BY <2>1, <3>2 DEF n
  <2>3. CASE ~(e.pointer # None /\ e.pointer < ValueOf(T.outs, Len(T.outs)))
    BY <2>3 DEF Points
  <2>. QED BY <2>2, <2>3
<1>. HIDE DEF to, curse
<1>3. NewOK(new) /\ "parents" \in DOMAIN new /\ new.unbound = unbound
  BY DEF NewOK
<1>. HIDE DEF new, id, w
<1>4. f.new = new /\ f.offset = to /\ new # Absent
  BY <1>3, HasFields
<1>. HIDE DEF f, offsets
<1>5. Rides(f, s, t)
  <2>1. CASE value = 0
    BY <1>3, <1>4, <2>1 DEF Rides
  <2>2. CASE value # 0
    BY <1>2, <1>4, <2>2 DEF Rides
  <2>. QED BY <2>1, <2>2
<1>6. IsAppend(floating, u.floating, f)
  BY AppendSeq
<1>. HIDE DEF floating
<1>7. TxShape(w) /\ w.floating = floating
  BY <1>1 DEF TxShape
<1>8. AllRide(floating, s, t)
  BY <1>5, <1>6, AllRideAppend
<1>. QED BY <1>6, <1>7, <1>8 DEF w, IsAppend

LEMMA RevealedRide ==
  ASSUME TxOK(tx), ContentOK(T), NEW at \in Nat, NEW value, NEW s, NEW t,
         AllRide(tx.floating, s, t), ~Coinbase => Points(at, value, s)
  PROVE  AllRide(Revealed(at, value).floating, s, t)
<1>. DEFINE n == Len(EnvelopesHere)
            envs == EnvelopesHere
<1>1. /\ n \in Nat /\ DOMAIN envs = 1..n
      /\ \A k \in 1..n : envs[k].pointer = None \/ envs[k].pointer \in Nat
      /\ n # 0 => ~Coinbase
  <2>1. CASE Coinbase
    <3>1. EnvelopesHere = << >>
      BY <2>1 DEF EnvelopesHere
    <3>2. Len(EnvelopesHere) = 0 /\ DOMAIN EnvelopesHere = {}
      BY <3>1, NothingSeq
    <3>. QED BY <3>2
  <2>2. CASE ~Coinbase
    BY <2>2, SeqFacts DEF ContentOK, EnvelopesHere
  <2>. QED BY <2>1, <2>2
<1>. HIDE DEF n, envs
<1>2. PICK g : IsReveals(g, n, at, value) /\ Revealed(at, value) = g[n]
  BY <1>1, RevealedIs DEF n
<1>3. /\ g[0] = tx
      /\ \A k \in 1..n : g[k] = IF envs[k].input = run.input
                                THEN Reveal(g[k - 1], envs[k], at, value) ELSE g[k - 1]
  BY <1>1, <1>2 DEF IsReveals, envs
<1>. DEFINE P(k) == TxShape(g[k]) /\ IsSeq(g[k].floating) /\ AllRide(g[k].floating, s, t)
            S == {k \in Nat : k <= n => P(k)}
<1>4. 0 \in S
  BY <1>3 DEF TxOK, Flotsams
<1>5. ASSUME NEW k \in Nat, k \in S PROVE k + 1 \in S
  <2>. SUFFICES ASSUME k + 1 <= n PROVE P(k + 1)
    OBVIOUS
  <2>1. k + 1 \in 1..n /\ (k + 1) - 1 = k /\ k <= n /\ n # 0
    BY <1>1
  <2>2. P(k)
    BY <1>5, <2>1
  <2>3. g[k + 1] = IF envs[k + 1].input = run.input
                   THEN Reveal(g[k], envs[k + 1], at, value) ELSE g[k]
    BY <1>3, <2>1
  <2>4. envs[k + 1].pointer = None \/ envs[k + 1].pointer \in Nat
    BY <1>1, <2>1
  <2>. DEFINE w == Reveal(g[k], envs[k + 1], at, value)
  <2>5. TxShape(w) /\ IsSeq(w.floating) /\ AllRide(w.floating, s, t)
    BY <1>1, <2>1, <2>2, <2>4, RevealRides
  <2>. HIDE DEF w
  <2>6. g[k + 1] = w \/ g[k + 1] = g[k]
    BY <2>3 DEF w
  <2>. QED BY <2>2, <2>5, <2>6
<1>. HIDE DEF S
<1>6. n \in S
  BY <1>1, <1>4, <1>5, NatSetInduction
<1>7. P(n)
  BY <1>1, <1>6 DEF S
<1>. QED BY <1>2, <1>7

LEMMA FinishInputBound == ASSUME Frame, Frame', Bound, FinishInput PROVE Bound'
<1>. DEFINE value == IF Coinbase THEN Subsidy ELSE Len(tx.ins[run.input].sats)
            w == Revealed(tx.inValue, value)
<1>1. /\ AtInput
      /\ tx' = [w EXCEPT !.inValue = w.inValue + value]
      /\ run' = [run EXCEPT !.input = run.input + 1, !.inscription = 1]
      /\ UNCHANGED <<chain, tab, records, block, cursor, staged, saved, past>>
  BY DEF FinishInput
<1>2. /\ run # Absent /\ TxOK(tx) /\ RunOK(run) /\ Indexing /\ InTx /\ block # None
      /\ At = run /\ Work = tx /\ Accounts = run
      /\ This = T /\ tx # Absent /\ tx.phase = "inputs" /\ ContentOK(T) /\ tx.inValue \in Nat
  BY <1>1, InTxFacts DEF AtInput, TxOK
<1>3. /\ ~Resumes /\ run.input \in 1..Inputs
      /\ ~Coinbase => tx.inValue = Len(SatsOf(tx.ins, run.input - 1))
  BY <1>1, AtInputFacts
<1>4. ~Coinbase => Points(tx.inValue, value, tx.inSats)
  <2>. SUFFICES ASSUME ~Coinbase PROVE Points(tx.inValue, value, tx.inSats)
    OBVIOUS
  <2>. DEFINE s == tx.ins[run.input].sats
  <2>1. Within(s, tx.inValue, tx.inSats) /\ EntryOK(tx.ins[run.input])
    BY <1>2, <1>3, InputWithin
  <2>2. IsSeq(s) /\ value = Len(s)
    BY <2>1 DEF EntryOK
  <2>3. IsSeq(tx.inSats)
    BY <1>2 DEF TxOK, WorkOK
  <2>4. ValueOf(T.outs, Len(T.outs)) <= Len(tx.inSats)
    BY <1>2 DEF Frame, Balanced, PaidOut, Paid
  <2>5. ValueOf(T.outs, Len(T.outs)) \in Nat
    BY <1>2, PaidFacts
  <2>. HIDE DEF s, value
  <2>6. ASSUME value # 0 PROVE tx.inValue + 1 \in DOMAIN tx.inSats
    <3>1. 1 \in DOMAIN s
      BY <2>2, <2>6, SeqFacts
    <3>. QED BY <2>1, <3>1 DEF Within
  <2>. QED BY <2>3, <2>4, <2>5, <2>6 DEF Points
<1>. HIDE DEF value
<1>5. Reveals(tx, w)
  BY <1>2, RevealedReveals
<1>6. AllRide(tx.floating, tx.inSats, tab) => AllRide(w.floating, tx.inSats, tab)
  BY <1>2, <1>4, RevealedRide
<1>. HIDE DEF w
<1>7. /\ TxShape(w) /\ w.phase = tx.phase /\ w.ins = tx.ins /\ w.outs = tx.outs
  BY <1>5 DEF Reveals
<1>8. /\ "phase" \in DOMAIN tx' /\ tx'.phase = "inputs" /\ tx'.outs = tx.outs
      /\ tx'.floating = w.floating
  BY <1>1, <1>2, <1>7 DEF TxShape
<1>9. "tx" \in DOMAIN run' /\ run'.flotsam = run.flotsam
  BY <1>1, <1>2 DEF RunOK, RunShape
<1>10. tx' # Absent /\ run' # Absent
  BY <1>8, <1>9, HasFields
<1>11. ViewsReading /\ ViewsReading'
  <2>1. (Frame /\ tx # Absent /\ tx.phase = "inputs" /\ ~Resumes => ViewsReading)'
    BY ViewReading, PTL
  <2>. QED BY <1>1, <1>2, <1>3, <1>8, <1>10, <2>1, ViewReading DEF Resumes
<1>12. /\ Queue = tx.floating /\ Queue' = w.floating /\ Outs' = Outs /\ Waiting' = Waiting
       /\ Located = << >> /\ Located' = << >>
  BY <1>8, <1>9, <1>11 DEF ViewsReading
<1>13. SameGround
  BY <1>1, <1>12, FinishInputBooks DEF SameGround
<1>14. Work'.inSats = Work.inSats
  BY <1>2, <1>13 DEF SameGround, SameBooks
<1>. SUFFICES ASSUME past.clean
              PROVE  ((\A h \in DOMAIN past.tab : Ashore(past.tab[h])) /\ Moored /\ Riding /\ Waited)'
  BY <1>1 DEF Bound
<1>15. (\A h \in DOMAIN past.tab : Ashore(past.tab[h])) /\ Moored /\ Riding /\ Waited
  BY DEF Bound
<1>16. (\A h \in DOMAIN past.tab : Ashore(past.tab[h]))' /\ Moored' /\ Waited'
  BY <1>1, <1>12, <1>13, <1>15, GroundMoored, GroundWaited
<1>17. AllRide(Queue', Work'.inSats, tab')
  <2>1. AllRide(Queue, tx.inSats, tab)
    BY <1>2, <1>15 DEF Riding
  <2>. QED BY <1>1, <1>2, <1>6, <1>12, <1>14, <2>1
<1>18. Riding'
  <2>1. DOMAIN Located' = {}
    BY <1>12
  <2>. HIDE DEF InTx, Work, Queue, Located, Outs
  <2>. QED BY <1>17, <2>1 DEF Riding
<1>. QED BY <1>16, <1>18

LEMMA AllRideConcat ==
  ASSUME NEW q, IsSeq(q), NEW p, IsSeq(p), NEW r, IsConcat(r, q, p), NEW s, NEW t,
         AllRide(q, s, t), AllRide(p, s, t)
  PROVE  AllRide(r, s, t)
<1>. DEFINE m == Len(q)
            n == Len(p)
<1>1. m \in Nat /\ DOMAIN q = 1..m /\ n \in Nat /\ DOMAIN p = 1..n /\ DOMAIN r = 1..m + n
  BY SeqFacts DEF IsConcat
<1>2. (\A i \in 1..m : r[i] = q[i]) /\ (\A i \in 1..n : r[m + i] = p[i])
  BY DEF IsConcat
<1>. HIDE DEF m, n
<1>3. ASSUME NEW i \in 1..m + n PROVE Rides(r[i], s, t)
  <2>1. CASE i <= m
    BY <1>1, <1>2, <2>1 DEF AllRide
  <2>2. CASE i > m
    <3>1. i - m \in 1..n /\ m + (i - m) = i
      BY <1>1, <2>2
    <3>2. r[i] = p[i - m]
      BY <1>2, <3>1
    <3>. QED BY <1>1, <3>1, <3>2 DEF AllRide
  <2>. QED BY <1>1, <2>1, <2>2
<1>. QED BY <1>1, <1>3 DEF AllRide

LEMMA AllRideSorted ==
  ASSUME NEW q, Flotsams(q), NEW s, NEW t, AllRide(q, s, t)
  PROVE  AllRide(Sorted(q, [i \in DOMAIN q |-> q[i].offset]), s, t)
<1>. DEFINE key == [i \in DOMAIN q |-> q[i].offset]
            r == Sorted(q, key)
<1>1. IsSeq(q) /\ \A i \in DOMAIN q : key[i] \in Int
  BY DEF Flotsams, FlotsamOK
<1>. HIDE DEF key
<1>2. \E p : Permutes(r, q, p)
  BY <1>1, SortedPermutes
<1>. HIDE DEF r
<1>3. AllRide(r, s, t)
  BY <1>2 DEF Permutes, AllRide
<1>. QED BY <1>3 DEF r, key

\* Parents that are dropped do not move an inscription.
LEMMA OwnRides ==
  ASSUME NEW q, Flotsams(q), NEW present, NEW s, NEW t, AllRide(q, s, t)
  PROVE  AllRide(Own(q, present), s, t)
<1>. DEFINE own == Own(q, present)
<1>0. own = [i \in DOMAIN q |-> IF q[i].new = Absent THEN q[i]
                                ELSE [q[i] EXCEPT !.new.parents = @ \cap present]]
  BY DEF Own
<1>. HIDE DEF own
<1>1. ASSUME NEW f, FlotsamOK(f), f.new # Absent, Rides(f, s, t)
      PROVE  Rides([f EXCEPT !.new.parents = @ \cap present], s, t)
  <2>. DEFINE p == f.new.parents \cap present
              n == [f.new EXCEPT !.parents = p]
              g == [f EXCEPT !.new = n]
  <2>1. [f EXCEPT !.new.parents = @ \cap present] = g
    BY <1>1 DEF FlotsamOK
  <2>. HIDE DEF p
  <2>2. "parents" \in DOMAIN n /\ n.unbound = f.new.unbound
    BY <1>1 DEF FlotsamOK, NewOK
  <2>. HIDE DEF n
  <2>3. n # Absent
    BY <2>2, HasFields
  <2>4. g.new = n /\ g.offset = f.offset
    BY <1>1 DEF FlotsamOK
  <2>. HIDE DEF g
  <2>5. f.new.unbound \/ f.offset + 1 \in DOMAIN s
    BY <1>1 DEF Rides
  <2>6. Rides(g, s, t)
    BY <2>2, <2>3, <2>4, <2>5 DEF Rides
  <2>. QED BY <2>1, <2>6
<1>2. \A i \in DOMAIN q : FlotsamOK(q[i]) /\ Rides(q[i], s, t)
  BY DEF Flotsams, AllRide
<1>3. DOMAIN own = DOMAIN q
  BY <1>0
<1>4. \A i \in DOMAIN q : Rides(own[i], s, t)
  BY <1>0, <1>1, <1>2
<1>. QED BY <1>3, <1>4 DEF AllRide, own

LEMMA FinishInputsBound ==
  ASSUME Frame, Frame', Bound, FinishInputs, ~Resumes
  PROVE  Bound'
<1>. DEFINE present == {tx.floating[i].id : i \in DOMAIN tx.floating}
            own == Own(tx.floating, present)
            fees == IF Coinbase THEN run.flotsam ELSE << >>
            all == own \o fees
            queue == Sorted(all, [i \in DOMAIN all |-> all[i].offset])
            flotsam == IF Coinbase THEN << >> ELSE run.flotsam
<1>1. /\ run # Absent /\ tx # Absent /\ tx.phase = "inputs"
      /\ saved.in2 = Absent /\ saved.in3 = Absent
      /\ tx' = [tx EXCEPT !.phase = "outputs", !.queue = queue]
      /\ run' = [run EXCEPT !.input = 1, !.flotsam = flotsam]
      /\ saved' = [saved EXCEPT !.in1 = Absent]
      /\ UNCHANGED <<chain, tab, records, block, cursor, staged, past>>
  BY DEF FinishInputs, Own, Resumes
<1>. HIDE DEF present
<1>2. /\ Indexing /\ InTx /\ At = run /\ Work = tx /\ Accounts = run /\ TxOK(tx) /\ RunOK(run)
      /\ (IsLast <=> Coinbase) /\ Flotsams(tx.floating) /\ Flotsams(run.flotsam)
  BY <1>1, InTxFacts DEF TxOK, RunOK, AccountsOK
<1>3. Flotsams(own) /\ IsSeq(own)
  BY <1>2, OwnFlotsams, OwnKeys
<1>4. Flotsams(fees) /\ IsSeq(fees)
  BY <1>2, EmptyLists DEF Flotsams
<1>5. Flotsams(all) /\ IsConcat(all, own, fees)
  <2>. HIDE DEF own, fees
  <2>. QED BY <1>3, <1>4, ConcatFlotsams, ConcatSeq
<1>6. ViewsReading
  BY <1>1, ViewReading DEF Resumes
<1>7. past.clean => AllRide(queue, tx.inSats, tab) /\ AllRide(flotsam, run.fees, tab)
  <2>. SUFFICES ASSUME past.clean PROVE AllRide(queue, tx.inSats, tab) /\ AllRide(flotsam, run.fees, tab)
    OBVIOUS
  <2>1. AllRide(tx.floating, tx.inSats, tab) /\ AllRide(run.flotsam, run.fees, tab)
    BY <1>2, <1>6 DEF Bound, Riding, Waited, ViewsReading
  <2>2. AllRide(own, tx.inSats, tab)
    BY <1>2, <2>1, OwnRides
  <2>3. Coinbase => tx.inSats = run.fees
    BY <1>2 DEF Frame, Balanced
  <2>4. AllRide(fees, tx.inSats, tab) /\ AllRide(flotsam, run.fees, tab)
    BY <2>1, <2>3, AllRideNothing
  <2>. HIDE DEF own, fees
  <2>5. AllRide(all, tx.inSats, tab)
    BY <1>3, <1>4, <1>5, <2>2, <2>4, AllRideConcat
  <2>. HIDE DEF all
  <2>6. AllRide(queue, tx.inSats, tab)
    BY <1>5, <2>5, AllRideSorted
  <2>. QED BY <2>4, <2>6
<1>. HIDE DEF queue, flotsam, own, fees, all
<1>8. "tx" \in DOMAIN run' /\ run'.flotsam = flotsam
  BY <1>1, <1>2 DEF RunOK, RunShape
<1>9. /\ "phase" \in DOMAIN tx' /\ tx'.phase = "outputs" /\ tx'.outs = tx.outs
      /\ tx'.queue = queue /\ tx'.located = tx.located
  BY <1>1, <1>2 DEF TxOK, TxShape
<1>10. tx' # Absent /\ run' # Absent
  BY <1>8, <1>9, HasFields
<1>11. saved'.in3 = Absent /\ tx.located = << >>
  BY <1>1 DEF Frame, Types, SavedOK, SavedShape, Pending
<1>12. ViewsLocals'
  <2>1. (Frame /\ tx # Absent
           /\ ((tx.phase = "outputs" /\ saved.in3 = Absent) \/ tx.phase \in {"locations", "rest"})
           => ViewsLocals)'
    BY ViewLocals, PTL
  <2>. QED BY <1>9, <1>10, <1>11, <2>1
<1>13. Queue' = queue /\ Outs' = Outs /\ Waiting' = flotsam /\ Located' = << >>
  BY <1>6, <1>8, <1>9, <1>11, <1>12 DEF ViewsReading, ViewsLocals
<1>14. SameGround
  BY <1>1, <1>13, FinishInputsBooks DEF SameGround
<1>15. Work'.inSats = tx.inSats /\ Accounts'.fees = run.fees
  BY <1>2, <1>14 DEF SameGround, SameBooks
<1>. SUFFICES ASSUME past.clean
              PROVE  ((\A h \in DOMAIN past.tab : Ashore(past.tab[h])) /\ Moored /\ Riding /\ Waited)'
  BY <1>1 DEF Bound
<1>16. (\A h \in DOMAIN past.tab : Ashore(past.tab[h])) /\ Moored
  BY DEF Bound
<1>17. (\A h \in DOMAIN past.tab : Ashore(past.tab[h]))' /\ Moored'
  BY <1>1, <1>14, <1>16, GroundMoored
<1>18. Riding'
  <2>1. DOMAIN Located' = {}
    BY <1>13
  <2>2. AllRide(Queue', Work'.inSats, tab')
    BY <1>1, <1>7, <1>13, <1>15
  <2>. HIDE DEF InTx, Work, Queue, Located, Outs
  <2>. QED BY <2>1, <2>2 DEF Riding
<1>19. Waited'
  <2>1. AllRide(Waiting', Accounts'.fees, tab')
    BY <1>1, <1>7, <1>13, <1>15
  <2>. HIDE DEF Indexing, Waiting, Accounts
  <2>. QED BY <2>1 DEF Waited
<1>. QED BY <1>17, <1>18, <1>19

-----------------------------------------------------------------------------
(* Outputs                                                                   *)

\* At an output, what the outputs before it have left begins with its sats.
LEMMA OutputHere ==
  ASSUME Frame, Sited, Accounted, tx # Absent, tx.phase = "outputs", NEW v, v = tx.out,
         v \in 1..Len(T.outs), saved.in3 = Absent
  PROVE  /\ v \in DOMAIN tx.outs /\ tx.outValue \in Nat /\ T.outs[v].value \in Nat
         /\ Len(tx.outs[v].sats) = T.outs[v].value
         /\ DOMAIN tx.outs[v].sats = 1..T.outs[v].value
         /\ \A k \in 1..T.outs[v].value : tx.outs[v].sats[k] = tx.inSats[tx.outValue + k]
<1>. DEFINE from == Paid(v - 1)
            n == T.outs[v].value
            s == tx.inSats
<1>1. /\ run # Absent /\ InTx /\ Indexing /\ Work = tx /\ This = T /\ TxOK(tx) /\ ContentOK(T)
  BY InTxFacts
<1>2. v \in DOMAIN tx.outs
  BY <1>1 DEF Sited, Positions
<1>3. tx.outs[v].sats = SubSeq(s, from + 1, from + n)
  BY <1>1, <1>2 DEF Accounted
<1>4. tx.outValue = from
  BY <1>1 DEF Frame, Counts
<1>5. from \in Nat /\ n \in Nat /\ from + n <= PaidOut
  <2>1. v - 1 \in 0..Len(T.outs) /\ v \in 0..Len(T.outs)
    BY <1>1, PaidFacts
  <2>. QED BY <1>1, <2>1, PaidFacts DEF Paid, PaidOut
<1>6. PaidOut <= Len(s) /\ IsSeq(s) /\ PaidOut \in Nat
  <2>1. PaidOut \in Nat
    BY <1>1, PaidFacts DEF Paid, PaidOut
  <2>. QED BY <1>1, <2>1 DEF Frame, Balanced, TxOK, WorkOK
<1>7. Len(s) \in Nat
  BY <1>6, SeqFacts
<1>. HIDE DEF from, n, s
<1>8. /\ IsSeq(SubSeq(s, from + 1, from + n)) /\ Len(SubSeq(s, from + 1, from + n)) = n
      /\ \A k \in 1..n : SubSeq(s, from + 1, from + n)[k] = s[from + k]
  <2>. DEFINE m == from + n
  <2>1. m \in Nat /\ from <= m /\ m <= Len(s) /\ m - from = n
    BY <1>5, <1>6, <1>7
  <2>. HIDE DEF m
  <2>2. /\ IsSeq(SubSeq(s, from + 1, m)) /\ Len(SubSeq(s, from + 1, m)) = m - from
        /\ \A k \in 1..m - from : SubSeq(s, from + 1, m)[k] = s[from + k]
    BY <1>5, <1>6, <2>1, SubSeqOf
  <2>. QED BY <2>1, <2>2 DEF m
<1>9. Len(tx.outs[v].sats) = n /\ DOMAIN tx.outs[v].sats = 1..n
      /\ \A k \in 1..n : tx.outs[v].sats[k] = s[from + k]
  BY <1>3, <1>8, SeqFacts
<1>. QED BY <1>2, <1>4, <1>5, <1>9 DEF n, s

LEMMA PlaceBound == ASSUME Frame, Frame', Sited, Accounted, Bound, Place PROVE Bound'
<1>. DEFINE f == Head(tx.queue)
            l == [flotsam |-> f, out |-> tx.out, offset |-> f.offset - tx.outValue]
<1>1. /\ run # Absent /\ tx # Absent /\ tx.phase = "outputs" /\ tx.queue # << >>
      /\ tx.out <= Len(T.outs) /\ f.offset < tx.outValue + T.outs[tx.out].value
      /\ tx' = [tx EXCEPT !.located = Append(tx.located, l), !.queue = Tail(tx.queue)]
      /\ UNCHANGED <<chain, tab, records, block, cursor, staged, saved, run, past>>
  BY DEF Place, Placeable, AtOutputs
<1>2. /\ Indexing /\ InTx /\ At = run /\ Work = tx /\ Accounts = run /\ TxOK(tx) /\ This = T
      /\ ContentOK(T)
  BY <1>1, InTxFacts
<1>3. Ready(tx.queue, tx.outValue) /\ saved.in3 = Absent /\ tx.out \in 1..Len(T.outs)
  <2>1. /\ Ready(tx.queue, tx.outValue) /\ saved.in3 = Absent /\ tx.out \in 1..Len(T.outs) + 1
    BY <1>1, <1>2 DEF Frame, Counts, Pending
  <2>2. Len(T.outs) \in Nat
    BY <1>2, PaidFacts
  <2>. QED BY <1>1, <2>1, <2>2
<1>4. IsTail(Tail(tx.queue), tx.queue) /\ f = tx.queue[1] /\ IsSeq(tx.queue) /\ FlotsamOK(f)
      /\ tx.outValue <= f.offset
      /\ IsAppend(Append(tx.located, l), tx.located, l) /\ IsSeq(tx.located) /\ Len(tx.located) \in Nat
  <2>1. IsTail(Tail(tx.queue), tx.queue) /\ f = tx.queue[1] /\ FlotsamOK(tx.queue[1])
        /\ tx.outValue <= tx.queue[1].offset
    BY <1>1, <1>3, TailReady
  <2>2. IsSeq(tx.located) /\ IsSeq(tx.queue)
    BY <1>2 DEF TxOK, Landed, Flotsams
  <2>. HIDE DEF l
  <2>. QED BY <2>1, <2>2, AppendSeq, SeqFacts
<1>5. l.flotsam = f /\ l.out = tx.out /\ l.offset = f.offset - tx.outValue
  OBVIOUS
<1>. HIDE DEF l, f
<1>6. Fits(l, tx.inSats, tx.outs)
  <2>. DEFINE v == tx.out
              x == T.outs[v].value
              a == tx.outValue
              o == f.offset
  <2>1. /\ a \in Nat /\ x \in Nat /\ DOMAIN tx.outs[v].sats = 1..x
        /\ \A k \in 1..x : tx.outs[v].sats[k] = tx.inSats[a + k]
    BY <1>1, <1>3, OutputHere
  <2>2. o \in Nat /\ a <= o /\ o < a + x
    BY <1>1, <1>4 DEF FlotsamOK
  <2>3. l.offset = o - a /\ l.out = v /\ l.flotsam.offset = o
    BY <1>5
  <2>. HIDE DEF v, x, a, o
  <2>4. (o - a) + 1 \in 1..x /\ a + ((o - a) + 1) = o + 1
    BY <2>1, <2>2
  <2>5. tx.outs[v].sats[(o - a) + 1] = tx.inSats[o + 1]
    BY <2>1, <2>4
  <2>. QED BY <2>1, <2>3, <2>4, <2>5 DEF Fits
<1>7. /\ "phase" \in DOMAIN tx' /\ tx'.phase = "outputs" /\ tx'.outs = tx.outs
      /\ tx'.queue = Tail(tx.queue) /\ tx'.located = Append(tx.located, l)
      /\ tx'.inSats = tx.inSats
  BY <1>1, <1>2 DEF TxOK, TxShape
<1>8. tx' # Absent
  BY <1>7, HasFields
<1>9. ViewsLocals /\ ViewsLocals'
  <2>1. (Frame /\ tx # Absent
           /\ ((tx.phase = "outputs" /\ saved.in3 = Absent) \/ tx.phase \in {"locations", "rest"})
           => ViewsLocals)'
    BY ViewLocals, PTL
  <2>. QED BY <1>1, <1>3, <1>7, <1>8, <2>1, ViewLocals
<1>10. /\ Outs' = Outs /\ Waiting' = Waiting /\ Outs = tx.outs
       /\ Queue = tx.queue /\ Queue' = Tail(tx.queue)
       /\ Located = tx.located /\ Located' = Append(tx.located, l)
  BY <1>1, <1>7, <1>9 DEF ViewsLocals
<1>11. SameGround
  BY <1>1, <1>10, LocalBooks DEF SameGround
<1>12. Work'.inSats = tx.inSats
  BY <1>2, <1>11 DEF SameGround, SameBooks
<1>. SUFFICES ASSUME past.clean
              PROVE  ((\A h \in DOMAIN past.tab : Ashore(past.tab[h])) /\ Moored /\ Riding /\ Waited)'
  BY <1>1 DEF Bound
<1>13. (\A h \in DOMAIN past.tab : Ashore(past.tab[h])) /\ Moored /\ Riding /\ Waited
  BY DEF Bound
<1>14. (\A h \in DOMAIN past.tab : Ashore(past.tab[h]))' /\ Moored' /\ Waited'
  BY <1>1, <1>10, <1>11, <1>13, GroundMoored, GroundWaited
<1>15. /\ AllRide(tx.queue, tx.inSats, tab)
       /\ \A i \in DOMAIN tx.located : Rides(tx.located[i].flotsam, tx.inSats, tab)
                                       /\ Fits(tx.located[i], tx.inSats, tx.outs)
  BY <1>2, <1>10, <1>13 DEF Riding
<1>16. Rides(f, tx.inSats, tab) /\ AllRide(Tail(tx.queue), tx.inSats, tab)
  <2>. DEFINE q == tx.queue
              r == Tail(tx.queue)
  <2>1. IsSeq(q) /\ IsTail(r, q) /\ f = q[1]
    BY <1>4
  <2>. HIDE DEF q, r
  <2>2. Len(q) \in Nat /\ Len(q) >= 1 /\ DOMAIN q = 1..Len(q) /\ DOMAIN r = 1..Len(q) - 1
        /\ \A i \in 1..Len(q) - 1 : r[i] = q[i + 1] /\ i + 1 \in 1..Len(q)
    BY <2>1, SeqFacts DEF IsTail
  <2>3. AllRide(q, tx.inSats, tab)
    BY <1>15 DEF q
  <2>4. Rides(f, tx.inSats, tab)
    BY <2>1, <2>2, <2>3 DEF AllRide
  <2>5. AllRide(r, tx.inSats, tab)
    BY <2>2, <2>3 DEF AllRide
  <2>. QED BY <2>4, <2>5 DEF r
<1>17. \A i \in DOMAIN Located' : Rides(Located'[i].flotsam, tx.inSats, tab)
                                 /\ Fits(Located'[i], tx.inSats, tx.outs)
  <2>1. \A i \in DOMAIN Located' : Located'[i] = l \/ (i \in DOMAIN tx.located /\ Located'[i] = tx.located[i])
    BY <1>4, <1>10, SeqFacts DEF IsAppend
  <2>. QED BY <1>5, <1>6, <1>15, <1>16, <2>1
<1>18. Riding'
  <2>1. AllRide(Queue', Work'.inSats, tab')
    BY <1>1, <1>10, <1>12, <1>16
  <2>2. \A i \in DOMAIN Located' : Rides(Located'[i].flotsam, Work'.inSats, tab')
                                   /\ Fits(Located'[i], Work'.inSats, Outs')
    BY <1>1, <1>10, <1>12, <1>17
  <2>. HIDE DEF InTx, Work, Queue, Located, Outs
  <2>. QED BY <2>1, <2>2 DEF Riding
<1>. QED BY <1>14, <1>18

-----------------------------------------------------------------------------
(* What comes down                                                           *)

IsUnbound(f) == IF f.new = Absent THEN FALSE ELSE f.new.unbound

\* Where, and at which offset.
LEMMA SettleOffset ==
  ASSUME TabOK(tab), StagedOK(staged), RunOK(run),
         NEW t, TxShape(t), NEW f, FlotsamOK(f), NEW o, NEW offset \in Nat, NEW burn,
         Settle(t, f, o, offset, burn)
  PROVE  \E to : \E place \in Nat \X Nat :
           /\ Comes(t, f, o, to, place)
           /\ IF IsUnbound(f) THEN to = Unbound ELSE to = o /\ place[2] = offset
<1>. DEFINE unbound == IF f.new = Absent THEN FALSE ELSE f.new.unbound
            to == IF unbound THEN Unbound ELSE o
            place == <<IF f.new = Absent THEN f.seq ELSE run.next,
                       IF unbound THEN run.stats.unbound ELSE offset>>
            cache == IF to \in Special
                     THEN Put(staged.cache, to, Pushed(Cached(staged.cache, to), place))
                     ELSE staged.cache
            outs == [t.outs EXCEPT ![to[2]] = Pushed(t.outs[to[2]], place)]
<1>1. /\ IF f.new = Absent THEN Transfer(f, burn, cache) ELSE Inscribe(f, o, burn, cache)
      /\ tx' = IF to \in Special THEN t ELSE [t EXCEPT !.outs = outs]
  BY DEF Settle, Pushed
<1>2. /\ place \in Nat \X Nat /\ place[1] = IF f.new = Absent THEN f.seq ELSE run.next
      /\ ~unbound => place[2] = offset
  <2>1. run.next \in Nat /\ run.stats.unbound \in Nat
    BY DEF RunOK, StatsOK
  <2>2. f.new = Absent => f.seq \in Nat
    BY DEF FlotsamOK
  <2>. QED BY <2>1, <2>2
<1>3. (to \notin Special => to = o) /\ (unbound => to = Unbound) /\ (~unbound => to = o)
  BY DEF Special
<1>4. unbound <=> IsUnbound(f)
  BY DEF IsUnbound
<1>. HIDE DEF place, to, unbound
<1>. HIDE DEF cache
<1>5. IF f.new = Absent THEN Transfers(f, burn, cache) ELSE Inscribes(f, o, burn, cache)
  BY <1>1, TransferFacts, InscribeFacts
<1>6. staged'.cache = cache
  BY <1>5 DEF Transfers, Inscribes
<1>. HIDE DEF outs
<1>7. tx'.outs = IF to \in Special THEN t.outs ELSE outs
  BY <1>1 DEF TxShape
<1>8. Comes(t, f, o, to, place)
  BY <1>2, <1>3, <1>6, <1>7 DEF Comes, cache, outs
<1>. QED BY <1>2, <1>3, <1>4, <1>8

\* Inscriptions keep their sats, and a new one gets that at its offset.
LEMMA SettleKeeps ==
  ASSUME NEW f, NEW o, NEW burn, NEW cache,
         IF f.new = Absent THEN Transfers(f, burn, cache) ELSE Inscribes(f, o, burn, cache),
         run.next \notin DOMAIN tab.entries, Rides(f, tx.inSats, tab)
  PROVE  /\ Keeps(tab, tab')
         /\ ~IsUnbound(f) => Rests(IF f.new = Absent THEN f.seq ELSE run.next, f.offset, tx.inSats, tab')
<1>1. CASE f.new = Absent
  <2>1. Transfers(f, burn, cache)
    BY <1>1
  <2>2. Keeps(tab, tab')
    <3>1. CASE burn
      <4>1. f.seq \in DOMAIN tab.entries /\ tab'.entries = Burned(tab.entries, f.seq)
        BY <2>1, <3>1 DEF Transfers
      <4>. QED BY <4>1 DEF Burned, Keeps
    <3>2. CASE ~burn
      <4>1. tab'.entries = tab.entries
        BY <2>1, <3>2 DEF Transfers
      <4>. QED BY <4>1, KeepsSame
    <3>. QED BY <3>1, <3>2
  <2>3. Rests(f.seq, f.offset, tx.inSats, tab)
    BY <1>1 DEF Rides
  <2>4. Rests(f.seq, f.offset, tx.inSats, tab')
    BY <2>2, <2>3 DEF Rests, Keeps
  <2>. QED BY <1>1, <2>2, <2>4
<1>2. CASE f.new # Absent
  <2>. DEFINE e == NewEntry(f, o, burn)
              n == run.next
              g == tab.entries
  <2>1. tab'.entries = Put(g, n, e)
    BY <1>2 DEF Inscribes
  <2>2. ~IsUnbound(f) => e.sat = {tx.inSats[f.offset + 1]} /\ f.offset + 1 \in DOMAIN tx.inSats
    BY <1>2 DEF NewEntry, NewSats, IsUnbound, Rides
  <2>. HIDE DEF e
  <2>3. n \in DOMAIN tab'.entries /\ tab'.entries[n] = e
        /\ \A x \in DOMAIN g : x # n => x \in DOMAIN tab'.entries /\ tab'.entries[x] = g[x]
    BY <2>1 DEF Put
  <2>4. Keeps(tab, tab')
    BY <2>3 DEF Keeps
  <2>5. ~IsUnbound(f) => Rests(n, f.offset, tx.inSats, tab')
    BY <2>2, <2>3 DEF Rests
  <2>. QED BY <1>2, <2>4, <2>5
<1>. QED BY <1>1, <1>2

\* What is at offset at of r is at offset of s.
Meets(offset, s, at, r) ==
  at + 1 \in DOMAIN r => offset + 1 \in DOMAIN s /\ s[offset + 1] = r[at + 1]

LEMMA MeetsRests ==
  ASSUME NEW seq, NEW t, NEW offset, NEW s, NEW at, NEW r,
         Meets(offset, s, at, r), Rests(seq, at, r, t)
  PROVE  Rests(seq, offset, s, t)
  BY DEF Meets, Rests

\* The cache and the outputs then, when the null outpoint gets the sats sink.
LEMMA ComesAnchored ==
  ASSUME NEW x, NEW f, NEW o, NEW to, NEW place, Comes(x, f, o, to, place),
         EntriesOK(staged.cache), EntriesOK(x.outs), NEW offset, NEW sink,
         IF IsUnbound(f) THEN to = Unbound ELSE to = o /\ place[2] = offset,
         IF o \in Special THEN o = Null ELSE o[2] \in DOMAIN x.outs,
         ~IsUnbound(f) => Rests(place[1], offset, IF o \in Special THEN sink ELSE x.outs[o[2]].sats, tab'),
         AllAnchored(Drop(staged.cache, Special), tab'), AllAnchored(x.outs, tab'),
         Null \in DOMAIN staged.cache => Anchored(staged.cache[Null], sink, tab')
  PROVE  /\ AllAnchored(Drop(staged'.cache, Special), tab') /\ AllAnchored(tx'.outs, tab')
         /\ Null \in DOMAIN staged'.cache => Anchored(staged'.cache[Null], sink, tab')
<1>0. Null # Unbound /\ Null \in Special /\ Unbound \in Special
  BY DEF Null, Unbound, Special
<1>1. CASE to \in Special
  <2>. DEFINE e == Cached(staged.cache, to)
              p == Pushed(e, place)
  <2>1. staged'.cache = Put(staged.cache, to, p) /\ tx'.outs = x.outs
    BY <1>1 DEF Comes
  <2>2. EntryOK(e)
    BY CachedOK
  <2>3. to = Null => Anchored(e, sink, tab')
    <3>1. NoEntry.ins = << >>
      BY DEF NoEntry
    <3>. QED BY <3>1, AnchoredNothing DEF Cached
  <2>. HIDE DEF e
  <2>4. to = Null => Anchored(p, sink, tab')
    <3>1. ASSUME to = Null PROVE ~IsUnbound(f) /\ Rests(place[1], place[2], sink, tab')
      BY <1>0, <3>1
    <3>. QED BY <2>2, <2>3, <3>1, AnchoredPushed
  <2>. HIDE DEF p
  <2>5. \A q \in DOMAIN staged'.cache : q \notin Special =>
          q \in DOMAIN staged.cache /\ staged'.cache[q] = staged.cache[q]
    BY <1>1, <2>1 DEF Put
  <2>6. AllAnchored(Drop(staged'.cache, Special), tab')
    BY <2>5, AllAnchoredDrop
  <2>7. Null \in DOMAIN staged'.cache => Anchored(staged'.cache[Null], sink, tab')
    BY <2>1, <2>4 DEF Put
  <2>. QED BY <2>1, <2>6, <2>7
<1>2. CASE to \notin Special
  <2>. DEFINE v == o[2]
              p == Pushed(x.outs[v], place)
  <2>1. /\ to = o /\ o \notin Special /\ staged'.cache = staged.cache /\ ~IsUnbound(f)
        /\ tx'.outs = [x.outs EXCEPT ![v] = p] /\ v \in DOMAIN x.outs /\ place[2] = offset
    BY <1>0, <1>2 DEF Comes
  <2>2. EntryOK(x.outs[v])
    BY <2>1 DEF EntriesOK
  <2>3. Rests(place[1], place[2], x.outs[v].sats, tab')
    BY <2>1
  <2>4. Anchored(x.outs[v], x.outs[v].sats, tab')
    BY <2>1 DEF AllAnchored
  <2>5. Anchored(p, p.sats, tab')
    BY <2>2, <2>3, <2>4, AnchoredPushed, PushedSats
  <2>. HIDE DEF p, v
  <2>6. AllAnchored(tx'.outs, tab')
    BY <2>1, <2>5 DEF AllAnchored
  <2>. QED BY <2>1, <2>6
<1>. QED BY <1>1, <1>2

\* What Locate and Lose do to the places.
LEMMA ComedownAnchors ==
  ASSUME Frame, Listed, Moored, past.clean, run # Absent, tx # Absent, Outs = tx.outs,
         NEW t, NEW f, NEW o, NEW offset, NEW burn, Comedown(t, f, o, offset, burn),
         Rides(f, tx.inSats, tab),
         IF o \in Special THEN o = Null /\ Meets(offset, Sinking, f.offset, tx.inSats)
         ELSE o[2] \in DOMAIN tx.outs /\ Meets(offset, tx.outs[o[2]].sats, f.offset, tx.inSats)
  PROVE  /\ Keeps(tab, tab') /\ tab'.utxo = tab.utxo
         /\ AllAnchored(Drop(staged'.cache, Special), tab') /\ AllAnchored(tx'.outs, tab')
         /\ Null \in DOMAIN staged'.cache => Anchored(staged'.cache[Null], Sinking, tab')
<1>1. /\ TxOK(tx) /\ RunOK(run) /\ TabOK(tab) /\ StagedOK(staged)
  BY DEF Frame, Types
<1>2. /\ Settle(t, f, o, offset, burn) /\ FlotsamOK(f) /\ offset \in Nat
      /\ TxShape(t) /\ t.outs = tx.outs /\ EntriesOK(t.outs) /\ EntriesOK(staged.cache)
  BY <1>1 DEF Comedown, TxOK, WorkOK, StagedOK
<1>3. PICK to : \E place \in Nat \X Nat :
         /\ Comes(t, f, o, to, place)
         /\ IF IsUnbound(f) THEN to = Unbound ELSE to = o /\ place[2] = offset
  BY <1>1, <1>2, SettleOffset
<1>4. PICK place \in Nat \X Nat :
         /\ Comes(t, f, o, to, place)
         /\ IF IsUnbound(f) THEN to = Unbound ELSE to = o /\ place[2] = offset
  BY <1>3
<1>5. PICK cache : IF f.new = Absent THEN Transfers(f, burn, cache) ELSE Inscribes(f, o, burn, cache)
  BY <1>1, <1>2, SettlePlaces
<1>6. run.next \notin DOMAIN tab.entries
  BY NextFree
<1>7. Keeps(tab, tab')
      /\ (~IsUnbound(f) => Rests(IF f.new = Absent THEN f.seq ELSE run.next, f.offset, tx.inSats, tab'))
  BY <1>5, <1>6, SettleKeeps
<1>8. tab'.utxo = tab.utxo
  BY <1>5 DEF Transfers, Inscribes
<1>. DEFINE sink == Sinking
            onto == IF o \in Special THEN sink ELSE tx.outs[o[2]].sats
<1>9. Meets(offset, onto, f.offset, tx.inSats)
  OBVIOUS
<1>10. place[1] = IF f.new = Absent THEN f.seq ELSE run.next
  BY <1>4 DEF Comes
<1>11. ~IsUnbound(f) => Rests(place[1], offset, onto, tab')
  <2>. HIDE DEF onto
  <2>. QED BY <1>7, <1>9, <1>10, MeetsRests
<1>12. /\ AllAnchored(Drop(staged.cache, Special), tab') /\ AllAnchored(t.outs, tab')
       /\ Null \in DOMAIN staged.cache => Anchored(staged.cache[Null], sink, tab')
  BY <1>2, <1>7, KeepsAnchored DEF Moored
<1>13. IF o \in Special THEN o = Null ELSE o[2] \in DOMAIN t.outs
  BY <1>2
<1>14. ~IsUnbound(f) => Rests(place[1], offset, IF o \in Special THEN sink ELSE t.outs[o[2]].sats, tab')
  BY <1>2, <1>11
<1>. HIDE DEF sink, onto
<1>15. /\ AllAnchored(Drop(staged'.cache, Special), tab') /\ AllAnchored(tx'.outs, tab')
       /\ Null \in DOMAIN staged'.cache => Anchored(staged'.cache[Null], sink, tab')
  BY <1>2, <1>4, <1>12, <1>13, <1>14, ComesAnchored
<1>. QED BY <1>7, <1>8, <1>15 DEF sink

LEMMA LocateMeets ==
  ASSUME Frame, Sited, Bound, past.clean, Locate
  PROVE  LET l == tx.located[tx.loc]
             o == <<T.id, l.out>>
         IN /\ Rides(l.flotsam, tx.inSats, tab) /\ o \notin Special /\ o[2] \in DOMAIN tx.outs
            /\ Meets(l.offset, tx.outs[o[2]].sats, l.flotsam.offset, tx.inSats)
<1>. DEFINE l == tx.located[tx.loc]
            o == <<T.id, l.out>>
<1>1. run # Absent /\ tx # Absent /\ tx.phase = "locations" /\ tx.loc \in DOMAIN tx.located
  BY LocateComes DEF Locate, AtLocations
<1>2. ViewsLocals
  BY <1>1, ViewLocals
<1>3. InTx /\ Work = tx /\ Outs = tx.outs /\ Located = tx.located
  BY <1>1, <1>2 DEF ViewsLocals, InTx, Work
<1>4. Rides(l.flotsam, tx.inSats, tab) /\ Fits(l, tx.inSats, tx.outs)
  BY <1>1, <1>3 DEF Bound, Riding
<1>5. l.out \in DOMAIN tx.outs /\ l.out \in 1..Len(This.outs)
  BY <1>1, <1>3 DEF Sited, Positions
<1>. HIDE DEF l
<1>6. o[2] = l.out /\ o \notin Special
  <2>1. l.out # 0
    BY <1>5
  <2>. QED BY <2>1 DEF Special, Null, Unbound
<1>7. Meets(l.offset, tx.outs[l.out].sats, l.flotsam.offset, tx.inSats)
  BY <1>4 DEF Fits, Meets
<1>. QED BY <1>4, <1>5, <1>6, <1>7 DEF l

LEMMA LoseMeets ==
  ASSUME Frame, Flowing, Accounted, Bound, past.clean, Lose
  PROVE  LET f == tx.queue[1]
         IN /\ Rides(f, tx.inSats, tab)
            /\ Meets(run.stats.lost + f.offset - tx.outValue, Sinking, f.offset, tx.inSats)
<1>. DEFINE f == tx.queue[1]
            S == Sunk(tab.utxo)
            lost == run.lost
            r == tx.inSats
<1>1. /\ run # Absent /\ tx # Absent /\ tx.phase = "rest" /\ Coinbase
      /\ IsTail(Tail(tx.queue), tx.queue) /\ tx.outValue <= f.offset /\ FlotsamOK(f)
  BY LoseComes DEF Lose, Comedown
<1>2. /\ Indexing /\ InTx /\ At = run /\ Work = tx /\ Accounts = run /\ TxOK(tx) /\ RunOK(run)
      /\ This = T /\ TabOK(tab) /\ ContentOK(T)
  BY <1>1, InTxFacts DEF Frame, Types
<1>3. ViewsLocals
  BY <1>1, ViewLocals
<1>4. Rides(f, r, tab)
  <2>1. AllRide(tx.queue, r, tab)
    BY <1>2, <1>3 DEF Bound, Riding, ViewsLocals
  <2>2. IsSeq(tx.queue)
    BY <1>2 DEF TxOK, Flotsams
  <2>3. 1 \in DOMAIN tx.queue
    BY <1>1, <2>2, SeqFacts DEF IsTail
  <2>. QED BY <2>1, <2>3 DEF AllRide
<1>5. IsLast /\ At.tx <= Len(Txs)
  <2>1. At.tx <= Len(Txs)
    BY <1>2 DEF Frame, Control
  <2>. QED BY <1>1, <1>2, <2>1 DEF Coinbase, IsLast
<1>6. Continues(lost, 0, r, PaidOut) /\ run.stats.lost = tab.stats.lost
  BY <1>1, <1>2, <1>5 DEF Accounted
<1>7. Len(S) = tab.stats.lost /\ IsSeq(S) /\ Len(S) \in Nat
  <2>1. LostCounted
    BY DEF Flowing
  <2>2. Sunk(staged.cache) = << >> /\ Len(<< >>) = 0
    BY <1>2, <2>1 DEF LostCounted
  <2>3. IsSeq(S) /\ Len(S) \in Nat
    BY <1>2, SunkSeq DEF TabOK
  <2>. QED BY <2>1, <2>2, <2>3 DEF LostCounted
<1>8. IsSeq(lost)
  BY <1>2 DEF RunOK, AccountsOK
<1>9. Sinking = S \o lost
  BY <1>2 DEF Sinking
<1>. HIDE DEF S, lost
<1>10. Within(lost, Len(S), S \o lost)
  BY <1>7, <1>8, ConcatSeq, WithinConcat
<1>11. tx.outValue = PaidOut /\ PaidOut \in Nat
  <2>1. tx.outValue = PaidOut
    BY <1>1, <1>2 DEF Frame, Counts
  <2>. QED BY <1>2, <2>1 DEF TxOK
<1>. DEFINE n == PaidOut
            k == Len(S)
            a == f.offset
            sink == S \o lost
<1>12. a \in Nat /\ n <= a /\ n \in Nat /\ k \in Nat
  BY <1>1, <1>7, <1>11 DEF FlotsamOK
<1>13. Continues(lost, 0, r, n) /\ Within(lost, k, sink)
  BY <1>6, <1>10
<1>14. run.stats.lost + f.offset - tx.outValue = k + a - n
  BY <1>6, <1>7, <1>11
<1>. HIDE DEF n, k, a, sink, r
<1>15. Meets(k + a - n, sink, a, r)
  <2>1. SUFFICES ASSUME a + 1 \in DOMAIN r
                 PROVE  (k + a - n) + 1 \in DOMAIN sink /\ sink[(k + a - n) + 1] = r[a + 1]
    BY DEF Meets
  <2>. DEFINE j == 0 + ((a + 1) - n)
  <2>2. n < a + 1 /\ k + j = (k + a - n) + 1
    BY <1>12
  <2>3. j \in DOMAIN lost /\ lost[j] = r[a + 1]
    BY <1>13, <2>1, <2>2 DEF Continues
  <2>. HIDE DEF j
  <2>4. k + j \in DOMAIN sink /\ sink[k + j] = lost[j]
    BY <1>13, <2>3 DEF Within
  <2>. QED BY <2>2, <2>3, <2>4
<1>. QED BY <1>4, <1>9, <1>14, <1>15 DEF r, a, sink

LEMMA SettlesBound ==
  ASSUME Frame, Frame', Listed, Sited, Flowing, Accounted, Bound, Locate \/ Lose
  PROVE  Bound'
<1>1. run # Absent /\ tx # Absent /\ UNCHANGED <<chain, block, past, saved>>
      /\ tx.phase \in {"locations", "rest"}
  BY DEF Locate, Lose, AtLocations
<1>2. /\ Indexing /\ InTx /\ At = run /\ Work = tx /\ Accounts = run /\ TxOK(tx) /\ RunOK(run)
      /\ This = T /\ TabOK(tab) /\ StagedOK(staged)
  BY <1>1, InTxFacts DEF Frame, Types
<1>3. ViewsLocals
  BY <1>1, ViewLocals
<1>. SUFFICES ASSUME past.clean
              PROVE  ((\A h \in DOMAIN past.tab : Ashore(past.tab[h])) /\ Moored /\ Riding /\ Waited)'
  BY <1>1 DEF Bound
<1>4. (\A h \in DOMAIN past.tab : Ashore(past.tab[h])) /\ Moored /\ Riding /\ Waited
  BY DEF Bound
<1>5. \E t, f, o, offset, burn :
        /\ Comedown(t, f, o, offset, burn) /\ Rides(f, tx.inSats, tab)
        /\ t.phase = tx.phase /\ t.located = tx.located
        /\ t.queue = tx.queue \/ IsTail(t.queue, tx.queue)
        /\ IF o \in Special THEN o = Null /\ Meets(offset, Sinking, f.offset, tx.inSats)
           ELSE o[2] \in DOMAIN tx.outs /\ Meets(offset, tx.outs[o[2]].sats, f.offset, tx.inSats)
  <2>1. CASE Locate
    <3>. DEFINE l == tx.located[tx.loc]
                t == [tx EXCEPT !.loc = tx.loc + 1]
                o == <<T.id, l.out>>
    <3>1. Comedown(t, l.flotsam, o, l.offset, T.outs[l.out].burn)
      BY <2>1, LocateComes
    <3>2. /\ Rides(l.flotsam, tx.inSats, tab) /\ o \notin Special /\ o[2] \in DOMAIN tx.outs
          /\ Meets(l.offset, tx.outs[o[2]].sats, l.flotsam.offset, tx.inSats)
      BY <2>1, LocateMeets
    <3>3. t.phase = tx.phase /\ t.located = tx.located /\ t.queue = tx.queue
      BY <1>2 DEF TxOK, TxShape
    <3>. HIDE DEF t, l, o
    <3>. QED BY <3>1, <3>2, <3>3
  <2>2. CASE Lose
    <3>. DEFINE f == tx.queue[1]
                queue == Tail(tx.queue)
                offset == run.stats.lost + f.offset - tx.outValue
                t == [tx EXCEPT !.queue = queue]
    <3>1. Comedown(t, f, Null, offset, FALSE) /\ IsTail(queue, tx.queue)
      BY <2>2, LoseComes
    <3>2. Rides(f, tx.inSats, tab) /\ Meets(offset, Sinking, f.offset, tx.inSats)
      BY <2>2, LoseMeets
    <3>. HIDE DEF queue, offset, f
    <3>3. t.phase = tx.phase /\ t.located = tx.located /\ t.queue = queue
      BY <1>2 DEF TxOK, TxShape
    <3>4. Null \in Special
      BY DEF Special
    <3>. HIDE DEF t
    <3>. QED BY <3>1, <3>2, <3>3, <3>4
  <2>. QED BY <2>1, <2>2
<1>6. PICK t, f, o, offset, burn :
        /\ Comedown(t, f, o, offset, burn) /\ Rides(f, tx.inSats, tab)
        /\ t.phase = tx.phase /\ t.located = tx.located
        /\ t.queue = tx.queue \/ IsTail(t.queue, tx.queue)
        /\ IF o \in Special THEN o = Null /\ Meets(offset, Sinking, f.offset, tx.inSats)
           ELSE o[2] \in DOMAIN tx.outs /\ Meets(offset, tx.outs[o[2]].sats, f.offset, tx.inSats)
  BY <1>5
<1>7. EntriesOK(t.outs) /\ t.outs = tx.outs /\ t.inSats = tx.inSats
  BY <1>2, <1>6 DEF Comedown, TxOK, WorkOK
<1>8. /\ run' # Absent /\ run'.tx = run.tx /\ run'.flotsam = run.flotsam
      /\ "phase" \in DOMAIN tx' /\ tx'.phase = tx.phase /\ tx'.inSats = tx.inSats
      /\ tx'.located = tx.located /\ tx'.queue = t.queue
  BY <1>2, <1>6, <1>7, SettleFacts DEF Comedown
<1>9. tx' # Absent
  BY <1>8, HasFields
<1>10. ViewsLocals'
  <2>1. (Frame /\ tx # Absent
           /\ ((tx.phase = "outputs" /\ saved.in3 = Absent) \/ tx.phase \in {"locations", "rest"})
           => ViewsLocals)'
    BY ViewLocals, PTL
  <2>. QED BY <1>1, <1>8, <1>9, <2>1
<1>11. /\ Outs = tx.outs /\ Outs' = tx'.outs /\ Waiting' = Waiting
       /\ Queue = tx.queue /\ Queue' = t.queue
       /\ Located = tx.located /\ Located' = tx.located
  BY <1>3, <1>8, <1>10 DEF ViewsLocals
<1>12. SameBooks
  BY SettlesBooks
<1>13. /\ Keeps(tab, tab') /\ tab'.utxo = tab.utxo
       /\ AllAnchored(Drop(staged'.cache, Special), tab') /\ AllAnchored(tx'.outs, tab')
       /\ Null \in DOMAIN staged'.cache => Anchored(staged'.cache[Null], Sinking, tab')
  BY <1>1, <1>4, <1>6, <1>11, ComedownAnchors
<1>14. Sinking' = Sinking
  BY <1>2, <1>12, <1>13 DEF Sinking, SameBooks
<1>15. InTx' /\ Indexing' /\ Work'.inSats = tx.inSats /\ Work'.ins = Work.ins
       /\ Accounts'.fees = Accounts.fees /\ (IsLast' <=> IsLast)
  BY <1>2, <1>12 DEF SameBooks, IsLast
<1>16. \A v \in DOMAIN tx.outs : tx'.outs[v].sats = tx.outs[v].sats
  BY <1>2, <1>11, <1>12 DEF SameBooks, Outs
<1>17. (\A h \in DOMAIN past.tab : Ashore(past.tab[h]))'
  BY <1>1, <1>4
<1>18. Moored'
  <2>1. Ashore(tab')
    BY <1>4, <1>13, KeepsAnchored DEF Moored, Ashore
  <2>2. InTx' /\ ~IsLast' => AllAnchored(Work'.ins, tab')
    BY <1>2, <1>4, <1>13, <1>15, KeepsAnchored DEF Moored
  <2>. HIDE DEF InTx, Work, Outs, IsLast, Sinking
  <2>. QED BY <1>11, <1>13, <1>14, <2>1, <2>2 DEF Moored
<1>19. Riding'
  <2>1. AllRide(tx.queue, tx.inSats, tab)
        /\ \A i \in DOMAIN tx.located : Rides(tx.located[i].flotsam, tx.inSats, tab)
                                        /\ Fits(tx.located[i], tx.inSats, tx.outs)
    BY <1>2, <1>4, <1>11 DEF Riding
  <2>2. AllRide(t.queue, tx.inSats, tab)
    <3>1. CASE t.queue = tx.queue
      BY <2>1, <3>1
    <3>2. CASE IsTail(t.queue, tx.queue)
      <4>. DEFINE q == tx.queue
                  r == t.queue
      <4>1. IsSeq(q) /\ IsTail(r, q)
        BY <1>2, <3>2 DEF TxOK, Flotsams
      <4>2. AllRide(q, tx.inSats, tab)
        BY <2>1
      <4>. HIDE DEF q, r
      <4>3. Len(q) \in Nat /\ DOMAIN q = 1..Len(q) /\ DOMAIN r = 1..Len(q) - 1
            /\ \A i \in 1..Len(q) - 1 : r[i] = q[i + 1] /\ i + 1 \in 1..Len(q)
        BY <4>1, SeqFacts DEF IsTail
      <4>4. AllRide(r, tx.inSats, tab)
        BY <4>2, <4>3 DEF AllRide
      <4>. QED BY <4>4 DEF r
    <3>. QED BY <1>6, <3>1, <3>2
  <2>3. AllRide(Queue', Work'.inSats, tab')
    BY <1>11, <1>13, <1>15, <2>2, KeepsAnchored
  <2>4. \A i \in DOMAIN Located' : Rides(Located'[i].flotsam, Work'.inSats, tab')
                                   /\ Fits(Located'[i], Work'.inSats, Outs')
    <3>1. TAKE i \in DOMAIN Located'
    <3>2. i \in DOMAIN tx.located /\ Located'[i] = tx.located[i]
      BY <1>11, <3>1
    <3>3. tx.located[i].out \in DOMAIN tx.outs
      BY <1>11, <3>2 DEF Sited, Positions
    <3>4. Rides(Located'[i].flotsam, tx.inSats, tab')
      BY <1>13, <2>1, <3>2, KeepsAnchored
    <3>5. Fits(Located'[i], tx.inSats, tx'.outs)
      <4>. DEFINE l == tx.located[i]
      <4>1. Fits(l, tx.inSats, tx.outs) /\ tx'.outs[l.out].sats = tx.outs[l.out].sats
        BY <1>16, <2>1, <3>2, <3>3
      <4>2. Located'[i] = l
        BY <3>2
      <4>. HIDE DEF l
      <4>. QED BY <4>1, <4>2 DEF Fits
    <3>. QED BY <1>11, <1>15, <3>4, <3>5
  <2>. HIDE DEF InTx, Work, Queue, Located, Outs
  <2>. QED BY <2>3, <2>4 DEF Riding
<1>20. Waited'
  <2>1. AllRide(Waiting', Accounts'.fees, tab')
    BY <1>2, <1>4, <1>11, <1>13, <1>15, KeepsAnchored DEF Waited
  <2>. HIDE DEF Indexing, Waiting, Accounts
  <2>. QED BY <2>1 DEF Waited
<1>. QED BY <1>17, <1>18, <1>19, <1>20

-----------------------------------------------------------------------------
(* The beginning and the end of a transaction                                *)

LEMMA WithinSame == ASSUME NEW s, IsSeq(s) PROVE Within(s, 0, s)
<1>1. Len(s) \in Nat /\ DOMAIN s = 1..Len(s)
  BY SeqFacts
<1>2. \A j \in DOMAIN s : 0 + j = j
  BY <1>1
<1>. QED BY <1>2 DEF Within

\* What is in front does not matter.
LEMMA WithinBehind ==
  ASSUME NEW s, IsSeq(s), NEW a, IsSeq(a), NEW b, IsSeq(b), Within(a, 0, b)
  PROVE  Within(s \o a, 0, s \o b)
<1>1. IsConcat(s \o a, s, a) /\ IsConcat(s \o b, s, b)
  BY ConcatSeq
<1>. DEFINE x == s \o a
            y == s \o b
            n == Len(s)
<1>2. IsConcat(x, s, a) /\ IsConcat(y, s, b)
  BY <1>1
<1>. HIDE DEF x, y
<1>3. /\ n \in Nat /\ Len(a) \in Nat /\ Len(b) \in Nat /\ DOMAIN a = 1..Len(a) /\ DOMAIN b = 1..Len(b)
      /\ DOMAIN x = 1..n + Len(a) /\ DOMAIN y = 1..n + Len(b)
  BY <1>2, SeqFacts DEF IsConcat
<1>. HIDE DEF n
<1>4. SUFFICES ASSUME NEW j \in DOMAIN x PROVE j \in DOMAIN y /\ y[j] = x[j] /\ 0 + j = j
  BY DEF Within, x, y
<1>5. j \in Nat /\ 1 <= j /\ j <= n + Len(a)
  BY <1>3, <1>4
<1>6. CASE j <= n
  <2>1. j \in 1..n /\ j \in 1..n + Len(b)
    BY <1>3, <1>5, <1>6
  <2>. QED BY <1>2, <1>3, <1>5, <2>1 DEF IsConcat, n
<1>7. CASE j > n
  <2>. DEFINE i == j - n
  <2>1. i \in 1..Len(a) /\ n + i = j
    BY <1>3, <1>5, <1>7
  <2>. HIDE DEF i
  <2>2. 0 + i = i /\ i \in DOMAIN a
    BY <1>3, <2>1
  <2>3. i \in DOMAIN b /\ b[i] = a[i]
    BY <2>2 DEF Within
  <2>4. i \in 1..Len(b) /\ n + i \in 1..n + Len(b)
    BY <1>3, <2>3
  <2>5. x[n + i] = a[i] /\ y[n + i] = b[i]
    BY <1>2, <2>1, <2>4 DEF IsConcat, n
  <2>. QED BY <1>3, <1>5, <2>1, <2>3, <2>4, <2>5
<1>. QED BY <1>5, <1>6, <1>7, <1>3

LEMMA SpendBound == ASSUME Frame, Frame', Bound, Spend PROVE Bound'
<1>. DEFINE V == ValueOf(T.outs, Len(T.outs))
            left == SubSeq(tx'.inSats, V + 1, Len(tx'.inSats))
            S == SpentHere \ DOMAIN staged.cache
<1>1. /\ run # Absent /\ tx = Absent /\ saved.tx = Absent /\ run.tx <= Len(Txs)
      /\ UNCHANGED <<chain, records, block, cursor, saved, past>>
      /\ \A o \in SpentHere : o \in DOMAIN staged.cache \/ o \in DOMAIN tab.utxo
      /\ tab'.utxo = Drop(tab.utxo, S) /\ tab'.entries = tab.entries
      /\ staged'.cache = Drop(staged.cache, SpentHere)
      /\ run' # Absent /\ run'.flotsam = run.flotsam
      /\ tx' # Absent /\ tx'.phase = "inputs" /\ tx'.floating = << >>
      /\ ~Coinbase => tx'.ins = [i \in DOMAIN T.ins |-> Taken[T.ins[i]]]
      /\ DOMAIN tx'.outs = DOMAIN T.outs /\ \A v \in DOMAIN T.outs : tx'.outs[v].ins = << >>
  BY SpendFields
<1>2. /\ Accounts = run /\ Indexing /\ ~InTx /\ block # None
      /\ run.tx \in 1..Len(Txs) /\ RunOK(run) /\ TabOK(tab) /\ StagedOK(staged)
      /\ InTx' /\ Indexing' /\ Work' = tx' /\ Accounts' = run' /\ (IsLast' <=> Coinbase)
  BY SpendViews
<1>3. /\ IsSeq(tx'.inSats) /\ V <= Len(tx'.inSats)
      /\ Coinbase => run'.lost = run.lost \o left
      /\ ~Coinbase => run'.lost = run.lost /\ run'.fees = run.fees \o left
  BY SpendSats
<1>4. V \in Nat /\ IsSeq(left)
  <2>1. V \in Nat
    BY SpendViews, PaidFacts
  <2>. DEFINE s == tx'.inSats
              n == Len(s)
  <2>2. n \in Nat /\ IsSeq(s) /\ V <= n /\ n <= Len(s)
    BY <1>3, SeqFacts
  <2>. HIDE DEF s, V, n
  <2>3. IsSeq(SubSeq(s, V + 1, n))
    BY <2>1, <2>2, SubSeqOf
  <2>. QED BY <2>1, <2>3 DEF s, n
<1>5. Within(run.lost, 0, run'.lost) /\ IsSeq(run.lost) /\ IsSeq(run'.lost)
  <2>1. IsSeq(run.lost)
    BY <1>2 DEF RunOK, AccountsOK
  <2>. HIDE DEF left
  <2>2. CASE Coinbase
    <3>1. IsConcat(run.lost \o left, run.lost, left)
      BY <1>4, <2>1, ConcatSeq
    <3>2. IsConcat(run'.lost, run.lost, left)
      BY <1>3, <2>2, <3>1
    <3>3. IsSeq(run'.lost)
      BY <3>2 DEF IsConcat
    <3>. QED BY <1>4, <2>1, <3>2, <3>3, WithinConcat
  <2>3. CASE ~Coinbase
    BY <1>3, <2>1, <2>3, WithinSame
  <2>. QED BY <2>2, <2>3
<1>6. Within(run.fees, 0, run'.fees)
  <2>1. IsSeq(run.fees)
    BY <1>2 DEF RunOK, AccountsOK
  <2>2. Coinbase => run'.fees = run.fees
    <3>1. Coinbase => run' = [run EXCEPT !.lost = run'.lost]
      BY <1>2 DEF Spend, RunOK, RunShape
    <3>. DEFINE l == run'.lost
    <3>2. Coinbase => run' = [run EXCEPT !.lost = l]
      BY <3>1
    <3>. HIDE DEF l
    <3>. QED BY <1>2, <3>2 DEF RunOK, RunShape
  <2>. HIDE DEF left
  <2>. QED BY <1>3, <1>4, <2>1, <2>2, ConcatSeq, WithinConcat, WithinSame
<1>7. (\A i \in DOMAIN T.ins : T.ins[i] \notin Special) /\ Null \notin SpentHere
  <2>1. \A i \in DOMAIN T.ins : T.ins[i] \notin Special
    BY <1>2, InputsHere
  <2>. QED BY <2>1 DEF SpentHere, ToSet, Special
<1>8. Within(Sinking, 0, Sinking')
  <2>1. Sunk(tab'.utxo) = Sunk(tab.utxo)
    <3>1. Null \notin S
      BY <1>7
    <3>. HIDE DEF S
    <3>. QED BY <1>1, <3>1, SunkDrop
  <2>2. IsSeq(Sunk(tab.utxo))
    BY <1>2, SunkSeq DEF TabOK
  <2>3. Sinking = Sunk(tab.utxo) \o run.lost /\ Sinking' = Sunk(tab.utxo) \o run'.lost
    <3>. HIDE DEF Indexing, Accounts
    <3>. QED BY <1>2, <2>1 DEF Sinking
  <2>. QED BY <1>5, <2>2, <2>3, WithinBehind
<1>9. Queue' = << >> /\ Located' = << >> /\ Outs' = tx'.outs /\ Waiting = run.flotsam /\ Waiting' = run.flotsam
  <2>1. saved.in2 = Absent /\ saved.in3 = Absent
    BY <1>1 DEF Frame, Control
  <2>2. ~Resumes'
    BY <1>1, <2>1 DEF Resumes
  <2>3. (Frame /\ tx # Absent /\ tx.phase = "inputs" /\ ~Resumes => ViewsReading)'
    BY ViewReading, PTL
  <2>4. ViewsReading'
    BY <1>1, <2>2, <2>3
  <2>5. Waiting = run.flotsam
    BY <1>2 DEF Waiting
  <2>. QED BY <1>1, <2>4, <2>5 DEF ViewsReading
<1>. SUFFICES ASSUME past.clean
              PROVE  ((\A h \in DOMAIN past.tab : Ashore(past.tab[h])) /\ Moored /\ Riding /\ Waited)'
  BY <1>1 DEF Bound
<1>10. (\A h \in DOMAIN past.tab : Ashore(past.tab[h])) /\ Moored /\ Waited
  BY DEF Bound
<1>11. Keeps(tab, tab')
  BY <1>1, KeepsSame
<1>12. Ashore(tab) /\ AllAnchored(Drop(staged.cache, Special), tab)
  BY <1>10 DEF Moored
<1>13. /\ \A o \in DOMAIN tab.utxo : o # Unbound => Anchored(tab.utxo[o], tab.utxo[o].sats, tab')
       /\ \A o \in DOMAIN staged.cache : o \notin Special =>
            Anchored(staged.cache[o], staged.cache[o].sats, tab')
  <2>1. /\ \A o \in DOMAIN tab.utxo : o # Unbound => Anchored(tab.utxo[o], tab.utxo[o].sats, tab)
        /\ \A o \in DOMAIN staged.cache : o \notin Special =>
             Anchored(staged.cache[o], staged.cache[o].sats, tab)
    BY <1>12, AllAnchoredDrop DEF Ashore
  <2>. QED BY <1>11, <2>1, KeepsAnchored
<1>14. Ashore(tab')
  <2>1. \A o \in DOMAIN tab'.utxo : o \in DOMAIN tab.utxo /\ tab'.utxo[o] = tab.utxo[o]
    <3>. HIDE DEF S
    <3>. QED BY <1>1 DEF Drop
  <2>2. \A o \in DOMAIN tab'.utxo : o \notin {Unbound} => Anchored(tab'.utxo[o], tab'.utxo[o].sats, tab')
    BY <1>13, <2>1
  <2>. QED BY <2>2, AllAnchoredDrop DEF Ashore
<1>15. \A o \in DOMAIN staged'.cache : o \in DOMAIN staged.cache /\ staged'.cache[o] = staged.cache[o]
  BY <1>1 DEF Drop
<1>16. AllAnchored(Drop(staged'.cache, Special), tab')
  BY <1>13, <1>15, AllAnchoredDrop
<1>17. Null \in DOMAIN staged'.cache => Anchored(staged'.cache[Null], Sinking', tab')
  <2>1. SUFFICES ASSUME Null \in DOMAIN staged'.cache
                 PROVE  Anchored(staged'.cache[Null], Sinking', tab')
    OBVIOUS
  <2>2. Null \in DOMAIN staged.cache /\ staged'.cache[Null] = staged.cache[Null]
    BY <1>15, <2>1
  <2>3. Anchored(staged.cache[Null], Sinking, tab')
    BY <1>10, <1>11, <2>2, KeepsAnchored DEF Moored
  <2>4. EntryOK(staged.cache[Null])
    BY <1>2, <2>2 DEF StagedOK, EntriesOK
  <2>. QED BY <1>8, <2>2, <2>3, <2>4, AnchoredWithin
<1>18. AllAnchored(Outs', tab')
  <2>1. \A v \in DOMAIN tx'.outs : Anchored(tx'.outs[v], tx'.outs[v].sats, tab')
    BY <1>1, AnchoredNothing
  <2>. QED BY <1>9, <2>1 DEF AllAnchored
<1>19. ~Coinbase => AllAnchored(tx'.ins, tab')
  <2>1. SUFFICES ASSUME ~Coinbase, NEW i \in DOMAIN tx'.ins
                 PROVE  Anchored(tx'.ins[i], tx'.ins[i].sats, tab')
    BY DEF AllAnchored
  <2>. DEFINE o == T.ins[i]
  <2>2. i \in DOMAIN T.ins /\ tx'.ins[i] = Taken[o] /\ o \in SpentHere /\ o \notin Special
    <3>1. i \in DOMAIN T.ins /\ tx'.ins[i] = Taken[o]
      BY <1>1, <2>1
    <3>2. o \in SpentHere
      BY <2>1, <3>1 DEF SpentHere, ToSet
    <3>. QED BY <1>7, <3>1, <3>2
  <2>3. Taken[o] = IF o \in DOMAIN staged.cache THEN staged.cache[o] ELSE tab.utxo[o]
    BY <2>2 DEF Taken
  <2>4. o # Unbound
    BY <2>2 DEF Special
  <2>. QED BY <1>1, <1>13, <2>2, <2>3, <2>4
<1>20. Moored'
  <2>. HIDE DEF InTx, Work, IsLast, Outs, Sinking, Coinbase
  <2>. QED BY <1>2, <1>14, <1>16, <1>17, <1>18, <1>19 DEF Moored
<1>21. Riding'
  <2>1. AllRide(Queue', Work'.inSats, tab')
    BY <1>9, AllRideNothing
  <2>2. DOMAIN Located' = {}
    BY <1>9
  <2>. HIDE DEF InTx, Work, Queue, Located, Outs
  <2>. QED BY <2>1, <2>2 DEF Riding
<1>22. Waited'
  <2>1. AllRide(run.flotsam, run.fees, tab)
    BY <1>2, <1>9, <1>10 DEF Waited
  <2>2. Flotsams(run.flotsam)
    BY <1>2 DEF RunOK, AccountsOK
  <2>3. AllRide(run.flotsam, run'.fees, tab')
    BY <1>6, <1>11, <2>1, <2>2, AllRideWithin, KeepsAnchored
  <2>. HIDE DEF Indexing, Waiting, Accounts
  <2>. QED BY <1>2, <1>9, <2>3 DEF Waited
<1>. QED BY <1>1, <1>10, <1>20, <1>21, <1>22

\* What a transaction leaves is at its sats among the fees.
LEMMA LeftRides ==
  ASSUME NEW f, FlotsamOK(f), NEW fees, NEW reward \in Nat, NEW s, NEW n \in Nat, NEW t,
         Continues(fees, reward, s, n), n <= f.offset, Rides(f, s, t)
  PROVE  Rides([f EXCEPT !.offset = reward + f.offset - n], fees, t)
<1>. DEFINE a == f.offset
            to == reward + f.offset - n
            g == [f EXCEPT !.offset = to]
<1>1. g.new = f.new /\ g.seq = f.seq /\ g.offset = to
  <2>. HIDE DEF to
  <2>. QED BY DEF FlotsamOK
<1>2. a \in Nat /\ n <= a /\ to = reward + a - n
  BY DEF FlotsamOK
<1>. HIDE DEF g
<1>3. f.new = Absent \/ ~f.new.unbound =>
        /\ a + 1 \in DOMAIN s /\ to + 1 \in DOMAIN fees /\ fees[to + 1] = s[a + 1]
  <2>1. SUFFICES ASSUME f.new = Absent \/ ~f.new.unbound
                 PROVE  a + 1 \in DOMAIN s /\ to + 1 \in DOMAIN fees /\ fees[to + 1] = s[a + 1]
    OBVIOUS
  <2>2. a + 1 \in DOMAIN s
    BY <2>1 DEF Rides, Rests
  <2>. HIDE DEF a, to
  <2>3. n < a + 1 /\ reward + ((a + 1) - n) = to + 1
    BY <1>2
  <2>4. reward + ((a + 1) - n) \in DOMAIN fees /\ fees[reward + ((a + 1) - n)] = s[a + 1]
    BY <2>2, <2>3 DEF Continues
  <2>. QED BY <2>2, <2>3, <2>4
<1>4. CASE f.new = Absent
  <2>1. f.seq \in DOMAIN t.entries /\ t.entries[f.seq].sat = {s[a + 1]}
    BY <1>4 DEF Rides, Rests
  <2>. HIDE DEF a, to
  <2>2. Rests(f.seq, to, fees, t)
    BY <1>3, <1>4, <2>1 DEF Rests
  <2>. QED BY <1>1, <1>4, <2>2 DEF Rides, g, to
<1>5. CASE f.new # Absent
  <2>. HIDE DEF a, to
  <2>1. f.new.unbound \/ to + 1 \in DOMAIN fees
    BY <1>3
  <2>2. Rides(g, fees, t)
    BY <1>1, <1>5, <2>1 DEF Rides
  <2>. QED BY <2>2 DEF g, to
<1>. QED BY <1>4, <1>5

LEMMA FinishTransactionBound ==
  ASSUME Frame, Frame', Sited, Accounted, Bound, FinishTransaction PROVE Bound'
<1>1. /\ run # Absent /\ tx # Absent /\ tx.phase = "rest"
      /\ UNCHANGED <<chain, tab, records, block, cursor, past>>
      /\ staged'.cache = PutAll(staged.cache, OutsHere) /\ staged'.state = staged.state
      /\ saved'.tx = Absent /\ tx' = Absent /\ run' # Absent
      /\ Coinbase => run'.flotsam = run.flotsam
  BY FinishTransactionFields
<1>2. /\ Indexing /\ At = run /\ Work = tx /\ Accounts = run /\ InTx /\ RunOK(run)
      /\ run.tx \in 1..Len(Txs) /\ Len(Txs) \in Nat /\ This = T /\ TxOK(tx) /\ (IsLast <=> Coinbase)
      /\ ContentOK(T) /\ block # None
  BY <1>1, InTxFacts
<1>3. ViewsLocals
  BY <1>1, ViewLocals
<1>4. ~InTx' /\ Indexing' /\ Accounts' = run' /\ run'.fees = run.fees /\ run'.lost = run.lost
  BY <1>1, <1>2, FinishTransactionAccounts DEF InTx, Indexing, Accounts
<1>5. /\ Outs = tx.outs /\ Outs' = << >> /\ Waiting = run.flotsam /\ Waiting' = run'.flotsam
      /\ Queue = tx.queue
  BY <1>3, <1>4 DEF ViewsLocals, Outs, Waiting
<1>6. Sinking' = Sinking
  <2>. HIDE DEF Indexing, Accounts
  <2>. QED BY <1>1, <1>2, <1>4 DEF Sinking
<1>. SUFFICES ASSUME past.clean
              PROVE  ((\A h \in DOMAIN past.tab : Ashore(past.tab[h])) /\ Moored /\ Riding /\ Waited)'
  BY <1>1 DEF Bound
<1>7. (\A h \in DOMAIN past.tab : Ashore(past.tab[h])) /\ Moored /\ Riding /\ Waited
  BY DEF Bound
<1>8. /\ DOMAIN OutsHere = {<<T.id, v>> : v \in DOMAIN tx.outs}
      /\ \A o \in DOMAIN OutsHere : OutsHere[o] = tx.outs[o[2]]
  BY DEF OutsHere
<1>9. \A o \in DOMAIN OutsHere : o \notin Special /\ o[2] \in DOMAIN tx.outs
  <2>1. DOMAIN tx.outs = 1..Len(T.outs)
    BY <1>2 DEF Sited, Positions
  <2>2. \A v \in DOMAIN tx.outs : v # 0
    BY <2>1
  <2>. QED BY <1>8, <2>2 DEF Special, Null, Unbound
<1>10. Moored'
  <2>. DEFINE m == OutsHere
              c == staged.cache
              d == staged'.cache
  <2>1. \A o \in DOMAIN m : Anchored(m[o], m[o].sats, tab)
    BY <1>5, <1>7, <1>8, <1>9 DEF Moored, AllAnchored
  <2>2. \A o \in DOMAIN c : o \notin Special => Anchored(c[o], c[o].sats, tab)
    BY <1>7, AllAnchoredDrop DEF Moored
  <2>3. d = PutAll(c, m)
    BY <1>1
  <2>4. \A o \in DOMAIN m : o \notin Special
    BY <1>9
  <2>. HIDE DEF m, c, d
  <2>5. \A o \in DOMAIN d : IF o \in DOMAIN m THEN d[o] = m[o] ELSE o \in DOMAIN c /\ d[o] = c[o]
    BY <2>3 DEF PutAll
  <2>6. AllAnchored(Drop(d, Special), tab)
    BY <2>1, <2>2, <2>5, AllAnchoredDrop
  <2>7. Null \in DOMAIN d => Null \in DOMAIN c /\ d[Null] = c[Null]
    BY <2>4, <2>5 DEF Special
  <2>8. Null \in DOMAIN staged'.cache => Anchored(staged'.cache[Null], Sinking', tab')
    BY <1>1, <1>6, <1>7, <2>7 DEF Moored, c, d
  <2>9. Ashore(tab') /\ AllAnchored(Drop(staged'.cache, Special), tab') /\ AllAnchored(Outs', tab')
    BY <1>1, <1>5, <1>7, <2>6, AllAnchoredNothing DEF Moored, d
  <2>. HIDE DEF InTx, Work, IsLast, Outs, Sinking
  <2>. QED BY <1>4, <2>8, <2>9 DEF Moored
<1>11. Riding'
  <2>. HIDE DEF InTx, Work, Queue, Located, Outs
  <2>. QED BY <1>4 DEF Riding
<1>12. AllRide(run.flotsam, run.fees, tab)
  BY <1>2, <1>5, <1>7 DEF Waited
<1>13. AllRide(run'.flotsam, run.fees, tab)
  <2>1. CASE Coinbase
    BY <1>1, <1>12, <2>1
  <2>2. CASE ~Coinbase
    <3>. DEFINE q == tx.queue
                n == tx.outValue
                rest == [i \in DOMAIN q |-> [q[i] EXCEPT !.offset = run.reward + q[i].offset - n]]
    <3>1. run'.flotsam = run.flotsam \o rest
      BY <2>2, FinishTransactionReward
    <3>2. Ready(q, n) /\ n = PaidOut /\ n \in Nat /\ run.reward \in Nat
      BY <1>1, <1>2 DEF Frame, Counts, TxOK, RunOK, AccountsOK
    <3>3. Continues(run.fees, run.reward, tx.inSats, n)
      BY <1>2, <2>2, <3>2 DEF Accounted
    <3>4. AllRide(q, tx.inSats, tab)
      BY <1>2, <1>5, <1>7 DEF Riding
    <3>5. IsSeq(rest) /\ IsSeq(run.flotsam)
      BY <1>2, <3>2, RestFlotsams DEF Flotsams, RunOK, AccountsOK
    <3>6. AllRide(rest, run.fees, tab)
      <4>1. SUFFICES ASSUME NEW i \in DOMAIN q PROVE Rides(rest[i], run.fees, tab)
        BY DEF AllRide
      <4>2. FlotsamOK(q[i]) /\ n <= q[i].offset /\ Rides(q[i], tx.inSats, tab)
        BY <3>2, <3>4, <4>1 DEF Ready, Flotsams, AllRide
      <4>3. rest[i] = [q[i] EXCEPT !.offset = run.reward + q[i].offset - n]
        BY <4>1
      <4>. DEFINE f == q[i]
      <4>. HIDE DEF rest, q, n
      <4>4. Rides([f EXCEPT !.offset = run.reward + f.offset - n], run.fees, tab)
        BY <3>2, <3>3, <4>2, LeftRides
      <4>. QED BY <4>3, <4>4
    <3>. HIDE DEF rest, q, n
    <3>7. IsConcat(run.flotsam \o rest, run.flotsam, rest)
      BY <3>5, ConcatSeq
    <3>. QED BY <1>12, <3>1, <3>5, <3>6, <3>7, AllRideConcat
  <2>. QED BY <2>1, <2>2
<1>14. Waited'
  <2>. HIDE DEF Indexing, Waiting, Accounts
  <2>. QED BY <1>1, <1>4, <1>5, <1>13 DEF Waited
<1>. QED BY <1>1, <1>7, <1>10, <1>11, <1>14

-----------------------------------------------------------------------------
(* Blocks                                                                    *)

\* Where no transaction is in progress and nothing waits, the inscriptions are
\* on the outputs of the tables.
LEMMA BareBound ==
  /\ ~InTx /\ staged.cache = << >> /\ Waiting = << >>
  /\ past.clean => (\A h \in DOMAIN past.tab : Ashore(past.tab[h])) /\ Ashore(tab)
  => Bound
<1>. SUFFICES ASSUME ~InTx, staged.cache = << >>, Waiting = << >>, Ashore(tab)
              PROVE  Moored /\ Riding /\ Waited
  BY DEF Bound
<1>1. Outs = << >>
  BY NotInTx
<1>. HIDE DEF InTx, Indexing, Outs, Work, Accounts, IsLast, Waiting, Sinking
<1>2. Drop(staged.cache, Special) = << >>
  BY DEF Drop
<1>3. Moored
  BY <1>1, <1>2, AllAnchoredNothing DEF Moored
<1>4. Riding
  BY DEF Riding
<1>5. Waited
  BY AllRideNothing DEF Waited
<1>. QED BY <1>3, <1>4, <1>5

LEMMA InitBound == ASSUME Init PROVE Bound
<1>1. tab = NoTables /\ past.tab = << >> /\ staged = NoStaged
  BY DEF Init
<1>2. tab.utxo = << >> /\ staged.cache = << >>
  BY <1>1 DEF NoTables, NoStaged
<1>3. ~Indexing /\ ~InTx
  BY DEF Init, Indexing, InTx, NoSaved
<1>4. Waiting = << >>
  <2>. HIDE DEF Indexing
  <2>. QED BY <1>3 DEF Waiting
<1>5. Drop(tab.utxo, {Unbound}) = << >>
  BY <1>2 DEF Drop
<1>6. Ashore(tab) /\ \A h \in DOMAIN past.tab : Ashore(past.tab[h])
  BY <1>1, <1>5, AllAnchoredNothing DEF Ashore
<1>. HIDE DEF InTx, Waiting
<1>. QED BY <1>2, <1>3, <1>4, <1>6, BareBound

LEMMA StageBound == ASSUME Frame, Frame', Bound, Stage PROVE Bound'
<1>1. /\ block = None /\ chain' = chain /\ tab' = tab /\ staged' = staged /\ saved' = saved
      /\ run' = run /\ tx' = tx /\ staged = NoStaged
      /\ run = Absent /\ tx = Absent /\ saved = NoSaved
  BY DEF Stage, Frame, Control, Indexing
<1>2. PICK b \in Blocks : block' = b /\ past' = [past EXCEPT !.tab = Put(past.tab, Height[b], tab)]
  BY DEF Stage
<1>3. (\E h : past'.tab = Put(past.tab, h, tab)) /\ past'.clean = past.clean
  BY <1>2 DEF Frame, Types, PastOK
<1>4. \A h \in DOMAIN past'.tab :
        past'.tab[h] = tab \/ (h \in DOMAIN past.tab /\ past'.tab[h] = past.tab[h])
  BY <1>3 DEF Put
<1>5. block' # None
  BY <1>2, NoneAssumption
<1>6. ~InTx' /\ Indexing' /\ Accounts' = Kept' /\ staged'.cache = << >>
  <2>1. staged.state = "Index" /\ staged.cache = << >> /\ saved.tx = Absent
    BY <1>1 DEF NoStaged, NoSaved
  <2>. QED BY <1>1, <1>5, <2>1 DEF Indexing, InTx, Accounts
<1>7. Waiting' = << >>
  <2>1. Kept' = NewBlock'
    BY <1>1 DEF Kept, NoSaved
  <2>2. NewBlock'.flotsam = << >>
    BY DEF NewBlock
  <2>. HIDE DEF NewBlock, Kept, Accounts, Indexing
  <2>. QED BY <1>6, <2>1, <2>2 DEF Waiting
<1>8. ASSUME past.clean PROVE Ashore(tab) /\ \A h \in DOMAIN past.tab : Ashore(past.tab[h])
  BY <1>8 DEF Bound, Moored
<1>9. ASSUME past'.clean
      PROVE  Ashore(tab') /\ \A h \in DOMAIN past'.tab : Ashore(past'.tab[h])
  BY <1>1, <1>3, <1>4, <1>8, <1>9
<1>10. (past.clean => (\A h \in DOMAIN past.tab : Ashore(past.tab[h])) /\ Ashore(tab))'
  BY <1>9 DEF Ashore
<1>11. (/\ ~InTx /\ staged.cache = << >> /\ Waiting = << >>
        /\ past.clean => (\A h \in DOMAIN past.tab : Ashore(past.tab[h])) /\ Ashore(tab)
        => Bound)'
  BY BareBound, PTL
<1>. HIDE DEF InTx, Waiting, Bound
<1>. QED BY <1>6, <1>7, <1>10, <1>11

LEMMA SaveBound == ASSUME Frame, Bound, Save PROVE Bound'
<1>1. /\ Committing /\ UNCHANGED <<tab, past, tx, saved>> /\ staged' = NoStaged /\ block' = None
  BY DEF Save
<1>2. tx = Absent /\ saved = NoSaved
  BY <1>1, CommittingFacts
<1>3. ~InTx' /\ ~Indexing' /\ staged'.cache = << >>
  BY <1>1, <1>2 DEF InTx, Indexing, NoStaged, NoSaved
<1>4. Waiting' = << >>
  <2>. HIDE DEF Indexing
  <2>. QED BY <1>3 DEF Waiting
<1>5. past.clean => (\A h \in DOMAIN past.tab : Ashore(past.tab[h])) /\ Ashore(tab)
  BY DEF Bound, Moored
<1>6. (past.clean => (\A h \in DOMAIN past.tab : Ashore(past.tab[h])) /\ Ashore(tab))'
  BY <1>1, <1>5 DEF Ashore
<1>7. (/\ ~InTx /\ staged.cache = << >> /\ Waiting = << >>
       /\ past.clean => (\A h \in DOMAIN past.tab : Ashore(past.tab[h])) /\ Ashore(tab)
       => Bound)'
  BY BareBound, PTL
<1>. HIDE DEF InTx, Waiting, Bound
<1>. QED BY <1>3, <1>4, <1>6, <1>7

LEMMA IdleBare == Frame /\ block = None => ~InTx /\ ~Indexing /\ staged.cache = << >>
BY DEF Frame, Control, Indexing, InTx, NoSaved, NoStaged

LEMMA HandleReorgBound == ASSUME Frame, Frame', Listed, Bound, HandleReorg PROVE Bound'
<1>1. PICK n \in 1..MaxUndo :
        /\ n <= Len(chain) - 1
        /\ past' = [tab |-> Drop(past.tab, Len(chain) - 1 - n + 1 .. Len(chain) - 1),
                    reorgs |-> past.reorgs + 1,
                    clean |-> past.clean /\ Plain(tab') = Plain(past.tab[Len(chain) - 1 - n + 1])]
  BY DEF HandleReorg
<1>2. block = None /\ block' = None
  BY DEF HandleReorg
<1>3. /\ n \in Nat /\ Len(chain) \in Nat /\ DOMAIN past.tab = 0..Len(chain) - 1
  BY <1>2, UndoAssumption DEF Frame, Linked
<1>. DEFINE m == Len(chain) - n
<1>4. m \in DOMAIN past.tab /\ Len(chain) - 1 - n + 1 = m
  BY <1>1, <1>3
<1>5. /\ past'.tab = Drop(past.tab, m..Len(chain) - 1)
      /\ past'.clean => past.clean /\ Plain(tab') = Plain(past.tab[m])
  BY <1>1, <1>4
<1>. HIDE DEF m
<1>6. \A h \in DOMAIN past'.tab : h \in DOMAIN past.tab /\ past'.tab[h] = past.tab[h]
  BY <1>5 DEF Drop
<1>7. ASSUME past'.clean PROVE past.clean /\ Alike(past.tab[m], tab')
  <2>1. TabShape(tab') /\ TabShape(past.tab[m]) /\ past.clean /\ Plain(past.tab[m]) = Plain(tab')
    BY <1>4, <1>5, <1>7 DEF Frame, Types, TabOK, Listed
  <2>. QED BY <2>1, AlikePlain
<1>8. past.clean => \A h \in DOMAIN past.tab : Ashore(past.tab[h])
  BY DEF Bound
<1>9. ASSUME past'.clean PROVE Ashore(tab')
  <2>1. Ashore(past.tab[m])
    BY <1>4, <1>7, <1>8, <1>9
  <2>2. tab'.utxo = past.tab[m].utxo /\ tab'.entries = past.tab[m].entries
    BY <1>7, <1>9 DEF Alike
  <2>3. Keeps(past.tab[m], tab')
    BY <2>2, KeepsSame
  <2>. QED BY <2>1, <2>2, <2>3, KeepsAnchored DEF Ashore
<1>10. ASSUME past'.clean, NEW h \in DOMAIN past'.tab PROVE Ashore(past'.tab[h])
  BY <1>6, <1>7, <1>8, <1>10
<1>11. (past.clean => (\A h \in DOMAIN past.tab : Ashore(past.tab[h])) /\ Ashore(tab))'
  BY <1>9, <1>10 DEF Ashore
<1>12. ~InTx' /\ ~Indexing' /\ staged'.cache = << >>
  <2>1. (Frame /\ block = None => ~InTx /\ ~Indexing /\ staged.cache = << >>)'
    BY IdleBare, PTL
  <2>. QED BY <1>2, <2>1
<1>13. Waiting' = << >>
  <2>. HIDE DEF Indexing
  <2>. QED BY <1>12 DEF Waiting
<1>14. (/\ ~InTx /\ staged.cache = << >> /\ Waiting = << >>
        /\ past.clean => (\A h \in DOMAIN past.tab : Ashore(past.tab[h])) /\ Ashore(tab)
        => Bound)'
  BY BareBound, PTL
<1>. HIDE DEF InTx, Waiting, Bound
<1>. QED BY <1>11, <1>12, <1>13, <1>14

\* The lost sats come on the null outpoint of the cache, which has none while
\* the block is indexed.
LEMMA FinishBlockBound == ASSUME Frame, Flowing, Bound, FinishBlock PROVE Bound'
<1>. DEFINE lost == run.lost
            was == Cached(staged.cache, Null)
            null == Merged(was, [sats |-> lost, ins |-> << >>])
<1>1. /\ run # Absent /\ tx = Absent /\ run.tx > Len(Txs) /\ RunOK(run)
      /\ UNCHANGED <<chain, block, past, records>> /\ TabOK(tab) /\ StagedOK(staged)
      /\ tab'.utxo = tab.utxo /\ tab'.entries = tab.entries /\ staged'.state = "Commit"
      /\ staged'.cache = IF lost = << >> THEN staged.cache ELSE Put(staged.cache, Null, null)
  BY FinishBlockFields
<1>2. Indexing /\ Accounts = run
  <2>1. Indexing
    BY <1>1 DEF Frame, Control
  <2>. QED BY <1>1, <2>1 DEF Accounts
<1>3. saved.tx = Absent
  <2>1. At = run /\ run.tx \in Nat /\ Len(Txs) \in Nat /\ block # None
    BY <1>1, <1>2, TxsFacts DEF At, Indexing, Frame, RunOK
  <2>2. InTx => At.tx <= Len(Txs)
    BY DEF Frame, Control
  <2>3. ~InTx
    <3>. HIDE DEF InTx, At
    <3>. QED BY <1>1, <2>1, <2>2
  <2>. QED BY <2>3 DEF InTx
<1>4. ~Indexing' /\ ~InTx'
  <2>1. SavedShape(saved) /\ saved' = [saved EXCEPT !.block = Absent] /\ tx' = tx
    BY DEF Frame, Types, SavedOK, FinishBlock
  <2>2. saved'.tx = saved.tx
    BY <2>1 DEF SavedShape
  <2>. QED BY <1>1, <1>3, <2>1, <2>2 DEF Indexing, InTx
<1>5. Outs' = << >> /\ Waiting' = << >>
  <2>. HIDE DEF Indexing, InTx
  <2>. QED BY <1>4, NotInTxNext DEF Waiting
<1>. SUFFICES ASSUME past.clean
              PROVE  ((\A h \in DOMAIN past.tab : Ashore(past.tab[h])) /\ Moored /\ Riding /\ Waited)'
  BY <1>1 DEF Bound
<1>6. (\A h \in DOMAIN past.tab : Ashore(past.tab[h])) /\ Moored
  BY DEF Bound
<1>7. Sunk(staged.cache) = << >>
  BY <1>2 DEF Flowing, LostCounted
<1>8. /\ IsSeq(lost) /\ EntriesOK(staged.cache) /\ EntryOK(was) /\ was.sats = << >>
  BY <1>1, <1>7, CachedOK DEF RunOK, AccountsOK, StagedOK, Sunk
<1>9. null.sats = lost /\ IsConcat(null.ins, was.ins, << >>) /\ IsSeq(was.ins) /\ IsSeq(<< >>)
  <2>1. null.sats = << >> \o lost /\ null.ins = was.ins \o << >>
    BY <1>8 DEF Merged
  <2>2. << >> \o lost = lost
    BY <1>8 DEF IsSeq
  <2>3. IsSeq(was.ins) /\ IsSeq(<< >>)
    BY <1>8, EntryInsSeq, NothingSeq
  <2>. HIDE DEF null, was, lost
  <2>. QED BY <2>1, <2>2, <2>3, ConcatSeq
<1>10. Sunk(staged'.cache) = lost
  <2>1. CASE lost = << >>
    BY <1>1, <1>7, <2>1
  <2>2. CASE lost # << >>
    <3>. HIDE DEF null, lost
    <3>. QED BY <1>1, <1>9, <2>2, SunkPut
  <2>. QED BY <2>1, <2>2
<1>11. Sinking' = Sinking
  <2>1. Sinking = Sunk(tab.utxo) \o lost
    <3>. HIDE DEF Indexing, Accounts
    <3>. QED BY <1>2 DEF Sinking
  <2>2. Sinking' = Sunk(tab'.utxo) \o Sunk(staged'.cache)
    <3>. HIDE DEF Indexing
    <3>. QED BY <1>4 DEF Sinking
  <2>. QED BY <1>1, <1>10, <2>1, <2>2
<1>12. Keeps(tab, tab')
  BY <1>1, KeepsSame
<1>13. Anchored(was, Sinking, tab)
  <2>1. CASE Null \in DOMAIN staged.cache
    BY <1>6, <2>1 DEF Moored, Cached
  <2>2. CASE Null \notin DOMAIN staged.cache
    <3>1. was.ins = << >>
      BY <2>2 DEF Cached, NoEntry
    <3>. QED BY <3>1, AnchoredNothing
  <2>. QED BY <2>1, <2>2
<1>14. Anchored(null, Sinking, tab)
  <2>. DEFINE b == [sats |-> lost, ins |-> << >>]
  <2>1. b.ins = << >>
    OBVIOUS
  <2>. HIDE DEF null, was, b
  <2>2. Anchored(b, Sinking, tab)
    BY <2>1, AnchoredNothing
  <2>. QED BY <1>9, <1>13, <2>1, <2>2, AnchoredMerged
<1>. DEFINE c == staged.cache
            d == staged'.cache
<1>15. /\ \A o \in DOMAIN d : o # Null => o \in DOMAIN c /\ d[o] = c[o]
       /\ Null \in DOMAIN d => d[Null] = null \/ (Null \in DOMAIN c /\ d[Null] = c[Null])
  <2>1. d = c \/ d = Put(c, Null, null)
    BY <1>1
  <2>. HIDE DEF c, d, null
  <2>. QED BY <2>1 DEF Put
<1>16. Null \in DOMAIN d => Anchored(d[Null], Sinking, tab)
  BY <1>6, <1>14, <1>15 DEF Moored
<1>17. AllAnchored(Drop(d, Special), tab)
  <2>1. \A o \in DOMAIN c : o \notin Special => Anchored(c[o], c[o].sats, tab)
    BY <1>6, AllAnchoredDrop DEF Moored
  <2>. HIDE DEF c, d, null
  <2>2. \A o \in DOMAIN d : o \notin Special => Anchored(d[o], d[o].sats, tab)
    BY <1>15, <2>1 DEF Special
  <2>. QED BY <2>2, AllAnchoredDrop
<1>18. Moored'
  <2>1. Ashore(tab)'
    BY <1>1, <1>6, <1>12, KeepsAnchored DEF Moored, Ashore
  <2>2. AllAnchored(Drop(d, Special), tab')
    BY <1>12, <1>17, KeepsAnchored
  <2>3. Null \in DOMAIN d => Anchored(d[Null], Sinking', tab')
    <3>. HIDE DEF Sinking
    <3>. QED BY <1>11, <1>12, <1>16, KeepsAnchored
  <2>4. AllAnchored(Outs', tab')
    <3>. HIDE DEF Outs
    <3>. QED BY <1>5, AllAnchoredNothing
  <2>. HIDE DEF InTx, Work, IsLast, Outs, Sinking
  <2>. QED BY <1>4, <2>1, <2>2, <2>3, <2>4 DEF Moored
<1>19. Riding'
  <2>. HIDE DEF InTx, Work, Queue, Located, Outs
  <2>. QED BY <1>4 DEF Riding
<1>20. Waited'
  <2>. HIDE DEF Indexing, Waiting, Accounts
  <2>. QED BY <1>4 DEF Waited
<1>21. (\A h \in DOMAIN past.tab : Ashore(past.tab[h]))'
  BY <1>1, <1>6 DEF Ashore
<1>. QED BY <1>18, <1>19, <1>20, <1>21

\* An entry goes from the cache to the table, and the lost sats keep their order.
LEMMA CommitAnchors ==
  ASSUME NEW U, EntriesOK(U), NEW C, EntriesOK(C), NEW o \in DOMAIN C, NEW t,
         AllAnchored(Drop(U, {Unbound}), t), AllAnchored(Drop(C, Special), t),
         Null \in DOMAIN C => Anchored(C[Null], Sunk(U) \o Sunk(C), t)
  PROVE  LET e == IF o \in Special /\ o \in DOMAIN U THEN Merged(U[o], C[o]) ELSE C[o]
             U1 == Put(U, o, e)
             C1 == Drop(C, {o})
         IN /\ Sunk(U1) \o Sunk(C1) = Sunk(U) \o Sunk(C)
            /\ AllAnchored(Drop(U1, {Unbound}), t) /\ AllAnchored(Drop(C1, Special), t)
            /\ Null \in DOMAIN C1 => Anchored(C1[Null], Sunk(U) \o Sunk(C), t)
<1>. DEFINE e == IF o \in Special /\ o \in DOMAIN U THEN Merged(U[o], C[o]) ELSE C[o]
            S == {o}
            U1 == Put(U, o, e)
            C1 == Drop(C, S)
            u == Sunk(U)
            c == Sunk(C)
            all == u \o c
<1>1. IsSeq(u) /\ IsSeq(c) /\ IsConcat(all, u, c)
  <2>1. IsSeq(u) /\ IsSeq(c)
    BY SunkSeq
  <2>. HIDE DEF u, c
  <2>. QED BY <2>1, ConcatSeq
<1>2. \A p : p \in S <=> p = o
  OBVIOUS
<1>3. /\ \A p \in DOMAIN U : p # Unbound => Anchored(U[p], U[p].sats, t)
      /\ \A p \in DOMAIN C : p \notin Special => Anchored(C[p], C[p].sats, t)
  BY AllAnchoredDrop
<1>4. o = Null => e.sats = all
  <2>. SUFFICES ASSUME o = Null PROVE e.sats = all
    OBVIOUS
  <2>1. c = C[o].sats
    BY DEF Sunk, Cached
  <2>2. CASE o \in DOMAIN U
    <3>1. u = U[o].sats
      BY <2>2 DEF Sunk, Cached
    <3>2. e.sats = U[o].sats \o C[o].sats
      BY <2>2 DEF Merged, Special
    <3>. HIDE DEF e, u, c
    <3>. QED BY <2>1, <3>1, <3>2
  <2>3. CASE o \notin DOMAIN U
    <3>1. u = << >> /\ e.sats = C[o].sats
      BY <2>3 DEF Sunk, Cached, NoEntry
    <3>. HIDE DEF e, u, c
    <3>2. << >> \o c = c
      BY <1>1 DEF IsSeq
    <3>. QED BY <2>1, <3>1, <3>2
  <2>. QED BY <2>2, <2>3
<1>5. o = Null => Anchored(e, all, t)
  <2>. SUFFICES ASSUME o = Null PROVE Anchored(e, all, t)
    OBVIOUS
  <2>1. Anchored(C[o], all, t)
    OBVIOUS
  <2>2. CASE o \in DOMAIN U
    <3>1. EntryOK(U[o]) /\ EntryOK(C[o]) /\ u = U[o].sats /\ o # Unbound
      BY <2>2 DEF EntriesOK, Sunk, Cached, Null, Unbound
    <3>2. Anchored(U[o], u, t)
      BY <1>3, <2>2, <3>1
    <3>3. e.ins = U[o].ins \o C[o].ins
      BY <2>2 DEF Merged, Special
    <3>. HIDE DEF e, u, c, all
    <3>4. Within(u, 0, all)
      BY <1>1, WithinConcat
    <3>5. Anchored(U[o], all, t)
      BY <3>1, <3>2, <3>4, AnchoredWithin
    <3>6. IsSeq(U[o].ins) /\ IsSeq(C[o].ins)
      BY <3>1, EntryInsSeq
    <3>7. IsConcat(e.ins, U[o].ins, C[o].ins)
      BY <3>3, <3>6, ConcatSeq
    <3>. QED BY <2>1, <3>5, <3>6, <3>7, AnchoredMerged
  <2>3. CASE o \notin DOMAIN U
    <3>1. e = C[o]
      BY <2>3
    <3>. HIDE DEF e, all
    <3>. QED BY <2>1, <3>1
  <2>. QED BY <2>2, <2>3
<1>6. o \notin Special => e = C[o]
  OBVIOUS
<1>. HIDE DEF e
<1>7. Sunk(U1) \o Sunk(C1) = all
  <2>1. CASE o = Null
    <3>1. Sunk(U1) = all
      BY <1>4, <2>1, SunkPut
    <3>. HIDE DEF S
    <3>2. Sunk(C1) = << >>
      BY <1>2, <2>1, SunkDrop
    <3>. HIDE DEF U1, C1, u, c, all
    <3>3. all \o << >> = all
      BY <1>1 DEF IsConcat, IsSeq
    <3>. QED BY <3>1, <3>2, <3>3
  <2>2. CASE o # Null
    <3>1. Sunk(U1) = u
      BY <2>2, SunkPut
    <3>. HIDE DEF S
    <3>2. Sunk(C1) = c
      BY <1>2, <2>2, SunkDrop
    <3>. HIDE DEF U1, C1, u, c
    <3>. QED BY <3>1, <3>2
  <2>. QED BY <2>1, <2>2
<1>8. \A p \in DOMAIN U1 : IF p = o THEN U1[p] = e ELSE p \in DOMAIN U /\ U1[p] = U[p]
  BY DEF Put
<1>9. \A p \in DOMAIN C1 : p # o /\ p \in DOMAIN C /\ C1[p] = C[p]
  <2>. HIDE DEF S
  <2>. QED BY <1>2 DEF Drop
<1>. HIDE DEF U1, C1, u, c, all
<1>10. o # Unbound => Anchored(e, e.sats, t)
  BY <1>3, <1>4, <1>5, <1>6 DEF Special
<1>11. \A p \in DOMAIN U1 : p # Unbound => Anchored(U1[p], U1[p].sats, t)
  BY <1>3, <1>8, <1>10
<1>12. AllAnchored(Drop(U1, {Unbound}), t)
  <2>1. \A p \in DOMAIN U1 : p \notin {Unbound} => Anchored(U1[p], U1[p].sats, t)
    BY <1>11
  <2>. QED BY <2>1, AllAnchoredDrop
<1>13. \A p \in DOMAIN C1 : p \notin Special => Anchored(C1[p], C1[p].sats, t)
  BY <1>3, <1>9
<1>14. AllAnchored(Drop(C1, Special), t)
  BY <1>13, AllAnchoredDrop
<1>15. Null \in DOMAIN C1 => Anchored(C1[Null], all, t)
  <2>1. Null \in DOMAIN C => Anchored(C[Null], all, t)
    BY DEF all, u, c
  <2>. QED BY <1>9, <2>1
<1>. QED BY <1>7, <1>12, <1>14, <1>15 DEF e, U1, C1, S, all, u, c

LEMMA CommitOutputBound == ASSUME Frame, Bound, CommitOutput PROVE Bound'
<1>1. /\ Committing /\ UNCHANGED <<chain, block, past, run, tx, saved>>
      /\ EntriesOK(staged.cache) /\ EntriesOK(tab.utxo) /\ staged'.state = staged.state
      /\ tab'.entries = tab.entries
  BY CommitOutputFields
<1>2. PICK o \in DOMAIN staged.cache :
        /\ tab'.utxo = Put(tab.utxo, o, IF o \in Special /\ o \in DOMAIN tab.utxo
                                        THEN Merged(tab.utxo[o], staged.cache[o])
                                        ELSE staged.cache[o])
        /\ staged'.cache = Drop(staged.cache, {o})
  BY CommitOutputFields
<1>3. ~Indexing /\ ~InTx /\ tx = Absent /\ saved = NoSaved
  BY <1>1, CommittingFacts
<1>4. ~Indexing' /\ ~InTx'
  BY <1>1, <1>3 DEF Indexing, InTx
<1>5. Outs' = << >>
  <2>. HIDE DEF InTx
  <2>. QED BY <1>4, NotInTxNext
<1>. SUFFICES ASSUME past.clean
              PROVE  ((\A h \in DOMAIN past.tab : Ashore(past.tab[h])) /\ Moored /\ Riding /\ Waited)'
  BY <1>1 DEF Bound
<1>6. (\A h \in DOMAIN past.tab : Ashore(past.tab[h])) /\ Moored
  BY DEF Bound
<1>7. Keeps(tab, tab')
  BY <1>1, KeepsSame
<1>8. Sinking = Sunk(tab.utxo) \o Sunk(staged.cache) /\ Sinking' = Sunk(tab'.utxo) \o Sunk(staged'.cache)
  <2>. HIDE DEF Indexing
  <2>. QED BY <1>3, <1>4 DEF Sinking
<1>9. /\ Sunk(tab'.utxo) \o Sunk(staged'.cache) = Sunk(tab.utxo) \o Sunk(staged.cache)
      /\ AllAnchored(Drop(tab'.utxo, {Unbound}), tab) /\ AllAnchored(Drop(staged'.cache, Special), tab)
      /\ Null \in DOMAIN staged'.cache =>
           Anchored(staged'.cache[Null], Sunk(tab.utxo) \o Sunk(staged.cache), tab)
  <2>. DEFINE U == tab.utxo
              C == staged.cache
              U1 == tab'.utxo
              C1 == staged'.cache
              sinking == Sunk(U) \o Sunk(C)
  <2>1. /\ EntriesOK(U) /\ EntriesOK(C) /\ o \in DOMAIN C
        /\ AllAnchored(Drop(U, {Unbound}), tab) /\ AllAnchored(Drop(C, Special), tab)
        /\ Null \in DOMAIN C => Anchored(C[Null], Sunk(U) \o Sunk(C), tab)
    <3>. HIDE DEF Sinking
    <3>. QED BY <1>1, <1>2, <1>6, <1>8 DEF Moored, Ashore
  <2>2. /\ U1 = Put(U, o, IF o \in Special /\ o \in DOMAIN U THEN Merged(U[o], C[o]) ELSE C[o])
        /\ C1 = Drop(C, {o})
    BY <1>2
  <2>. HIDE DEF U, C, U1, C1
  <2>3. /\ Sunk(U1) \o Sunk(C1) = Sunk(U) \o Sunk(C)
        /\ AllAnchored(Drop(U1, {Unbound}), tab) /\ AllAnchored(Drop(C1, Special), tab)
        /\ Null \in DOMAIN C1 => Anchored(C1[Null], Sunk(U) \o Sunk(C), tab)
    BY <2>1, <2>2, CommitAnchors
  <2>. QED BY <2>3 DEF U, C, U1, C1
<1>10. Moored'
  <2>1. Ashore(tab)'
    BY <1>7, <1>9, KeepsAnchored DEF Ashore
  <2>2. AllAnchored(Drop(staged'.cache, Special), tab')
    BY <1>7, <1>9, KeepsAnchored
  <2>3. Null \in DOMAIN staged'.cache => Anchored(staged'.cache[Null], Sinking', tab')
    <3>. HIDE DEF Sinking
    <3>. QED BY <1>7, <1>8, <1>9, KeepsAnchored
  <2>4. AllAnchored(Outs', tab')
    <3>. HIDE DEF Outs
    <3>. QED BY <1>5, AllAnchoredNothing
  <2>. HIDE DEF InTx, Work, IsLast, Outs, Sinking
  <2>. QED BY <1>4, <2>1, <2>2, <2>3, <2>4 DEF Moored
<1>11. Riding'
  <2>. HIDE DEF InTx, Work, Queue, Located, Outs
  <2>. QED BY <1>4 DEF Riding
<1>12. Waited'
  <2>. HIDE DEF Indexing, Waiting, Accounts
  <2>. QED BY <1>4 DEF Waited
<1>13. (\A h \in DOMAIN past.tab : Ashore(past.tab[h]))'
  BY <1>1, <1>6 DEF Ashore
<1>. QED BY <1>10, <1>11, <1>12, <1>13

-----------------------------------------------------------------------------
(* The invariant                                                             *)
LEMMA NextBound ==
  ASSUME Frame, Frame', Listed, Sited, Flowing, Accounted, Bound, [Next]_vars PROVE Bound'
<1>1. CASE Transaction
  <2>1. CASE Spend \/ Take \/ FinishInput
    BY <2>1, SpendBound, TakeBound, FinishInputBound
  <2>2. CASE FinishInputs
    BY <2>2, QuietBound, FinishInputsBound
  <2>3. CASE Continue \/ NextOutput \/ FinishOutputs \/ FinishLocations
    BY <2>3, QuietBound
  <2>4. CASE Place
    BY <2>4, PlaceBound
  <2>5. CASE Locate \/ Lose
    BY <2>5, SettlesBound
  <2>6. CASE FinishTransaction
    BY <2>6, FinishTransactionBound
  <2>. QED BY <1>1, <2>1, <2>2, <2>3, <2>4, <2>5, <2>6 DEF Transaction
<1>2. CASE Stage \/ Save \/ HandleReorg
  BY <1>2, StageBound, SaveBound, HandleReorgBound
<1>3. CASE Begin \/ Break \/ CommitInscription
  BY <1>3, QuietBound
<1>4. CASE FinishBlock \/ CommitOutput
  BY <1>4, FinishBlockBound, CommitOutputBound
<1>5. CASE UNCHANGED vars
  BY <1>5, StutterBound
<1>. QED BY <1>1, <1>2, <1>3, <1>4, <1>5 DEF Next

LEMMA AccountedHolds == Spec => []Accounted
<1>1. Init => Accounted
  BY InitAccounted
<1>2. Undoable /\ Undoable' /\ Accounted /\ [Next]_vars => Accounted'
  BY NextAccounted DEF Undoable
<1>. QED BY <1>1, <1>2, UndoableHolds, PTL DEF Spec

LEMMA BoundHolds == Spec => []Bound
<1>1. Init => Bound
  BY InitBound
<1>2. /\ Undoable /\ Undoable' /\ Sited /\ Flowing /\ Accounted /\ Bound /\ [Next]_vars => Bound'
  BY NextBound DEF Undoable
<1>. QED BY <1>1, <1>2, UndoableHolds, SitedHolds, FlowingHolds, AccountedHolds, PTL DEF Spec

\* Between two blocks every inscription on an output of the tables is at an
\* offset that the output has, and the sat there is the one its entry names:
\* update_inscription_location moves it by offsets counted in values and
\* index_transaction_sats moves sats as ranges, through fees, the coinbase,
\* the null outpoint, interrupted transactions and rollbacks, and never apart.
THEOREM InscriptionsStayOnTheirSat == Spec => []InscriptionsOnTheirSat
<1>1. Undoable /\ Bound => InscriptionsOnTheirSat
  <2>. SUFFICES ASSUME Undoable, Bound, Between,
                       NEW o \in DOMAIN tab.utxo \ {Unbound}, NEW i \in DOMAIN tab.utxo[o].ins
                PROVE  LET m == tab.utxo[o].ins[i]
                       IN /\ m[2] < Len(tab.utxo[o].sats)
                          /\ tab.entries[m[1]].sat = {tab.utxo[o].sats[m[2] + 1]}
    BY DEF InscriptionsOnTheirSat
  <2>. DEFINE e == tab.utxo[o]
              s == e.sats
              seq == e.ins[i][1]
              at == e.ins[i][2]
  <2>1. Ashore(tab)
    BY DEF Bound, Between, Moored
  <2>2. Anchored(e, s, tab)
    BY <2>1, AllAnchoredDrop DEF Ashore
  <2>3. EntryOK(e)
    BY DEF Undoable, Frame, Types, TabOK, EntriesOK
  <2>4. at \in Nat /\ IsSeq(s)
    BY <2>3, EntryPlaces DEF EntryOK
  <2>5. Rests(seq, at, s, tab)
    BY <2>2 DEF Anchored
  <2>. HIDE DEF s, seq, at
  <2>6. at + 1 \in DOMAIN s /\ tab.entries[seq].sat = {s[at + 1]}
    BY <2>5 DEF Rests
  <2>7. at < Len(s)
    BY <2>4, <2>6, SeqFacts
  <2>. QED BY <2>6, <2>7 DEF s, seq, at
<1>. QED BY <1>1, UndoableHolds, BoundHolds, PTL
=============================================================================
