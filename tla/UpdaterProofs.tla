---------------------------- MODULE UpdaterProofs ----------------------------
(* What holds of the indexing loop for every tree of blocks, every reorg     *)
(* depth, every division of a block into pieces and every environment, as    *)
(* long as one loop is alive at a time.  The header table is reasoned about  *)
(* as a value first; the steps of the loop insert into it, prune it from     *)
(* below or cut it from above.                                               *)
EXTENDS Updater, TLAPS

\* A table of headers that is a window of one chain of the tree.
Chained(H) ==
  /\ Maps(H, Blocks)
  /\ Linked(H)
  /\ \A h, k \in DOMAIN H : h <= k => H[h] \in Lineage[H[k]]

-----------------------------------------------------------------------------
(* The header table *)

LEMMA MaxOfInterval ==
  ASSUME NEW lo \in Int, NEW hi \in Int, lo <= hi
  PROVE  Max(lo..hi) = hi
  BY DEF Max

\* A linked table is empty or has a first and a last height.
LEMMA Shape ==
  ASSUME NEW H, Maps(H, Blocks), Linked(H)
  PROVE  \/ DOMAIN H = {} /\ TipIn(H) = NoBlock /\ NextIn(H) = 0
         \/ \E lo, hi \in Nat :
              /\ lo <= hi /\ DOMAIN H = lo..hi
              /\ TipIn(H) = H[hi] /\ TipIn(H) \in Blocks /\ Height[TipIn(H)] = hi
              /\ NextIn(H) = hi + 1
<1>1. CASE DOMAIN H = {}
  BY <1>1 DEF TipIn, NextIn
<1>2. CASE DOMAIN H # {}
  <2>1. PICK lo, hi \in DOMAIN H : DOMAIN H = lo..hi
    BY <1>2 DEF Linked
  <2>2. lo \in Nat /\ hi \in Nat
    BY DEF Maps
  <2>3. lo <= hi
    BY <2>1, <2>2
  <2>4. Max(DOMAIN H) = hi
    BY <2>1, <2>2, <2>3, MaxOfInterval
  <2>5. TipIn(H) = H[hi] /\ NextIn(H) = hi + 1
    BY <1>2, <2>4 DEF TipIn, NextIn
  <2>6. H[hi] \in Blocks /\ Height[H[hi]] = hi
    BY DEF Maps, Linked
  <2>. QED BY <2>1, <2>2, <2>3, <2>5, <2>6
<1>. QED BY <1>1, <1>2

\* The tip of a table that ends at hi.
LEMMA TipOfWindow ==
  ASSUME NEW H, NEW lo \in Nat, NEW hi \in Nat, lo <= hi, DOMAIN H = lo..hi
  PROVE  TipIn(H) = H[hi] /\ NextIn(H) = hi + 1
<1>1. Max(DOMAIN H) = hi
  BY MaxOfInterval
<1>2. hi \in DOMAIN H
  OBVIOUS
<1>. QED BY <1>1, <1>2 DEF TipIn, NextIn

\* A block that extends the tip belongs at the next height.
LEMMA ExtensionHeight ==
  ASSUME NEW H, Maps(H, Blocks), Linked(H),
         NEW b \in Blocks, Prev[b] = TipIn(H)
  PROVE  Height[b] = NextIn(H) /\ Height[b] \in Nat
<1>1. Height[b] = IF Prev[b] = NoBlock THEN 0 ELSE Height[Prev[b]] + 1
  BY TreeAssumption
<1>2. CASE DOMAIN H = {} /\ TipIn(H) = NoBlock /\ NextIn(H) = 0
  BY <1>1, <1>2, TreeAssumption
<1>3. ASSUME NEW lo \in Nat, NEW hi \in Nat,
             TipIn(H) \in Blocks, Height[TipIn(H)] = hi, NextIn(H) = hi + 1
      PROVE  Height[b] = NextIn(H)
  BY <1>1, <1>3, NoBlockAssumption
<1>. QED BY <1>2, <1>3, Shape, TreeAssumption

\* A block at the next height that does not contradict the tip extends it.
LEMMA Extends ==
  ASSUME NEW H, Maps(H, Blocks), Linked(H),
         NEW b \in Blocks, Height[b] = NextIn(H), TipIn(H) \in {NoBlock, Prev[b]}
  PROVE  Prev[b] = TipIn(H)
<1>1. CASE TipIn(H) = NoBlock
  <2>1. NextIn(H) = 0
    BY <1>1, Shape, NoBlockAssumption
  <2>2. CASE Prev[b] \in Blocks
    <3>1. Height[b] = Height[Prev[b]] + 1 /\ Height[Prev[b]] \in Nat
      BY <2>2, TreeAssumption, NoBlockAssumption
    <3>. QED BY <2>1, <3>1
  <2>. QED BY <1>1, <2>2, TreeAssumption
<1>. QED BY <1>1

\* Cleanup: the header of a block that extends the tip is inserted.
LEMMA PutExtends ==
  ASSUME NEW H, Chained(H), NEW b \in Blocks, Prev[b] = TipIn(H)
  PROVE  LET N == Put(H, NextIn(H), b)
         IN  Chained(N) /\ TipIn(N) = b /\ NextIn(N) = NextIn(H) + 1
<1>. DEFINE N == Put(H, NextIn(H), b)
<1>0. Maps(H, Blocks) /\ Linked(H)
  BY DEF Chained
<1>1. Height[b] = NextIn(H) /\ NextIn(H) \in Nat
  BY <1>0, ExtensionHeight
<1>a. b \in Lineage[b]
  BY LineageAssumption
<1>2. CASE DOMAIN H = {}
  <2>1. NextIn(H) = 0
    BY <1>2 DEF NextIn
  <2>2. DOMAIN N = 0..0 /\ N[0] = b
    BY <1>2, <2>1 DEF Put
  <2>3. Maps(N, Blocks)
    <3>1. N = [x \in {0} |-> b]
      BY <1>2, <2>1 DEF Put
    <3>. QED BY <3>1 DEF Maps
  <2>4. Linked(N)
    <3>1. \E i, j \in DOMAIN N : DOMAIN N = i..j
      BY <2>2
    <3>2. Height[N[0]] = 0
      BY <1>1, <2>1, <2>2
    <3>3. \A h \in 0..0 : h = 0 /\ h + 1 \notin 0..0
      OBVIOUS
    <3>4. \A h \in DOMAIN N : Height[N[h]] = h /\ h + 1 \notin DOMAIN N
      <4>. HIDE DEF N
      <4>. QED BY <2>2, <3>2, <3>3
    <3>. QED BY <3>1, <3>4 DEF Linked
  <2>5. Chained(N)
    BY <1>a, <2>2, <2>3, <2>4 DEF Chained
  <2>6. TipIn(N) = N[0] /\ NextIn(N) = 1
    <3>1. DOMAIN N = NextIn(H)..NextIn(H)
      BY <2>1, <2>2
    <3>a. NextIn(H) <= NextIn(H) /\ NextIn(H) \in Nat
      BY <1>1
    <3>2. TipIn(N) = N[NextIn(H)] /\ NextIn(N) = NextIn(H) + 1
      BY <3>a, <3>1, TipOfWindow
    <3>. QED BY <2>1, <3>2
  <2>. QED BY <2>1, <2>2, <2>5, <2>6
<1>3. CASE DOMAIN H # {}
  <2>1. PICK lo, hi \in Nat :
          /\ lo <= hi /\ DOMAIN H = lo..hi
          /\ TipIn(H) = H[hi] /\ TipIn(H) \in Blocks /\ Height[TipIn(H)] = hi
          /\ NextIn(H) = hi + 1
    BY <1>0, <1>3, Shape
  <2>2. DOMAIN N = lo..(hi + 1) /\ N[hi + 1] = b
    BY <2>1 DEF Put
  <2>3. \A h \in lo..hi : N[h] = H[h]
    BY <2>1 DEF Put
  <2>4. Maps(N, Blocks)
    <3>1. N \in [DOMAIN N -> Blocks]
      BY <1>0, <2>1, <2>2, <2>3 DEF Maps, Put
    <3>. QED BY <2>2, <3>1 DEF Maps
  <2>5. Linked(N)
    <3>1. \E i, j \in DOMAIN N : DOMAIN N = i..j
      BY <2>1, <2>2
    <3>2. \A h \in DOMAIN N : Height[N[h]] = h
      BY <1>0, <1>1, <2>1, <2>2, <2>3 DEF Linked
    <3>3. ASSUME NEW h \in DOMAIN N, h + 1 \in DOMAIN N
          PROVE  Prev[N[h + 1]] = N[h]
      <4>1. CASE h = hi
        BY <4>1, <2>1, <2>2, <2>3
      <4>2. CASE h # hi
        <5>1. h \in lo..hi /\ h + 1 \in lo..hi
          BY <4>2, <2>1, <2>2, <3>3
        <5>2. Prev[H[h + 1]] = H[h]
          BY <5>1, <1>0, <2>1 DEF Linked
        <5>. QED BY <5>1, <5>2, <2>3
      <4>. QED BY <4>1, <4>2
    <3>. QED BY <3>1, <3>2, <3>3 DEF Linked
  <2>6. ASSUME NEW h \in DOMAIN N, NEW k \in DOMAIN N, h <= k
        PROVE  N[h] \in Lineage[N[k]]
    <3>1. CASE k \in lo..hi
      <4>1. h \in lo..hi
        BY <3>1, <2>2, <2>6
      <4>. QED BY <3>1, <4>1, <2>1, <2>3, <2>6 DEF Chained
    <3>2. CASE k = hi + 1 /\ h \in lo..hi
      <4>1. H[h] \in Lineage[H[hi]]
        BY <3>2, <2>1 DEF Chained
      <4>2. Lineage[b] = {b} \cup Lineage[H[hi]]
        BY <2>1, LineageAssumption, NoBlockAssumption
      <4>. QED BY <3>2, <4>1, <4>2, <2>2, <2>3
    <3>3. CASE k = hi + 1 /\ h = hi + 1
      BY <3>3, <1>a, <2>2
    <3>. QED BY <3>1, <3>2, <3>3, <2>1, <2>2
  <2>7. TipIn(N) = b /\ NextIn(N) = hi + 2
    <3>1. lo <= hi + 1 /\ hi + 1 \in Nat
      BY <2>1
    <3>2. TipIn(N) = N[hi + 1] /\ NextIn(N) = (hi + 1) + 1
      BY <2>2, <3>1, TipOfWindow
    <3>. QED BY <2>2, <3>2
  <2>. QED BY <2>1, <2>4, <2>5, <2>6, <2>7 DEF Chained
<1>. QED BY <1>2, <1>3

\* Part of a window of a chain is one too.
LEMMA SubWindow ==
  ASSUME NEW H, Chained(H), NEW S, NEW lo \in Nat, NEW hi \in Nat, lo <= hi,
         DOMAIN Drop(H, S) = lo..hi, lo..hi \subseteq DOMAIN H
  PROVE  Chained(Drop(H, S))
<1>. DEFINE N == Drop(H, S)
<1>1. \A k \in lo..hi : N[k] = H[k]
  BY DEF Drop
<1>2. Maps(N, Blocks)
  BY DEF Chained, Maps, Drop
<1>3. Linked(N)
  <2>1. \E i, j \in DOMAIN N : DOMAIN N = i..j
    OBVIOUS
  <2>2. \A h \in DOMAIN N : Height[N[h]] = h
    BY <1>1 DEF Chained, Linked
  <2>3. ASSUME NEW h \in DOMAIN N, h + 1 \in DOMAIN N
        PROVE  Prev[N[h + 1]] = N[h]
    <3>1. Prev[H[h + 1]] = H[h]
      BY <2>3 DEF Chained, Linked
    <3>. QED BY <3>1, <2>3, <1>1
  <2>. QED BY <2>1, <2>2, <2>3 DEF Linked
<1>4. \A h, k \in DOMAIN N : h <= k => N[h] \in Lineage[N[k]]
  BY <1>1 DEF Chained
<1>. QED BY <1>2, <1>3, <1>4 DEF Chained

\* prune_change_record: forgetting the heights from MaxDepth below the block
\* being indexed leaves the tip in place.
LEMMA DropOld ==
  ASSUME NEW H, Chained(H), NEW S,
         \A k \in DOMAIN H : k \in S <=> k <= NextIn(H) - MaxDepth
  PROVE  LET N == Drop(H, S)
         IN  Chained(N) /\ TipIn(N) = TipIn(H) /\ NextIn(N) = NextIn(H)
<1>. DEFINE N == Drop(H, S)
<1>0. Maps(H, Blocks) /\ Linked(H)
  BY DEF Chained
<1>1. DOMAIN N \subseteq DOMAIN H /\ \A k \in DOMAIN N : N[k] = H[k]
  BY DEF Drop
<1>2. CASE DOMAIN H = {}
  <2>1. DOMAIN N = {}
    BY <1>1, <1>2
  <2>2. Maps(N, Blocks)
    BY <2>1, <1>0, <1>1 DEF Maps, Drop
  <2>. QED BY <1>2, <2>1, <2>2 DEF Chained, Linked, TipIn, NextIn
<1>3. CASE DOMAIN H # {}
  <2>1. PICK lo, hi \in Nat :
          /\ lo <= hi /\ DOMAIN H = lo..hi /\ TipIn(H) = H[hi] /\ NextIn(H) = hi + 1
    BY <1>0, <1>3, Shape
  <2>2. PICK from \in Nat : from <= hi /\ lo <= from /\ DOMAIN N = from..hi
    <3>1. DOMAIN N = {k \in lo..hi : k > hi + 1 - MaxDepth}
      BY <2>1, DepthAssumption DEF Drop
    <3>2. CASE hi + 2 - MaxDepth <= lo
      <4>1. DOMAIN N = lo..hi
        BY <3>1, <3>2, <2>1, DepthAssumption
      <4>. QED BY <4>1, <2>1
    <3>3. CASE hi + 2 - MaxDepth > lo
      <4>1. hi + 2 - MaxDepth \in Nat /\ hi + 2 - MaxDepth <= hi
        BY <3>3, <2>1, DepthAssumption
      <4>2. DOMAIN N = (hi + 2 - MaxDepth)..hi
        BY <3>1, <3>3, <2>1, DepthAssumption
      <4>. QED BY <4>1, <4>2, <3>3
    <3>. QED BY <3>2, <3>3, <2>1, DepthAssumption
  <2>3. Chained(N)
    BY <2>1, <2>2, <1>1, SubWindow
  <2>4. TipIn(N) = H[hi] /\ NextIn(N) = hi + 1
    BY <2>1, <2>2, <1>1, TipOfWindow
  <2>. QED BY <2>1, <2>3, <2>4
<1>. QED BY <1>2, <1>3

\* handle_reorg: dropping what lies above height m leaves m as the tip.
LEMMA DropTop ==
  ASSUME NEW H, Chained(H), NEW m \in DOMAIN H
  PROVE  LET N == Drop(H, m + 1 .. NextIn(H) - 1)
         IN  Chained(N) /\ TipIn(N) = H[m] /\ NextIn(N) = m + 1
<1>. DEFINE N == Drop(H, m + 1 .. NextIn(H) - 1)
<1>1. PICK lo, hi \in Nat :
        /\ lo <= hi /\ DOMAIN H = lo..hi /\ NextIn(H) = hi + 1
  BY Shape DEF Chained
<1>2. m \in Nat /\ lo <= m /\ m <= hi
  BY <1>1
<1>3. DOMAIN N = lo..m /\ \A k \in DOMAIN N : N[k] = H[k]
  BY <1>1, <1>2 DEF Drop
<1>4. Chained(N)
  BY <1>1, <1>2, <1>3, SubWindow
<1>5. TipIn(N) = H[m] /\ NextIn(N) = m + 1
  BY <1>2, <1>3, TipOfWindow
<1>. QED BY <1>4, <1>5

-----------------------------------------------------------------------------
(* The invariant *)

\* At most one loop is alive: start() is called only when none is.
OneLoop == \A l, m \in Loops : l = m

\* HeadersLinked is not inductive by itself: that the next header extends the
\* last one was established before an await (RoundAgrees), and that a rollback
\* ends on an ancestor needs every header of the window to be one.
IInv == TypeOK /\ Chained(headers) /\ RoundsAgree

LEMMA HeadersInNat == ASSUME IInv PROVE NextHeight \in Nat /\ Tip \in Blocks \cup {NoBlock}
  BY Shape DEF IInv, Chained, NextHeight, Tip

LEMMA InitIInv == ASSUME Init PROVE IInv
<1>1. DOMAIN headers = {} /\ DOMAIN records = {}
  BY DEF Init
<1>2. Maps(headers, Blocks) /\ Maps(records, SUBSET AllEffects)
  BY <1>1 DEF Init, Maps
<1>3. Chained(headers)
  BY <1>1, <1>2 DEF Chained, Linked
<1>4. Dead \in Rounds
  BY DepthAssumption DEF Dead, Rounds, States, Stages
<1>5. TypeOK
  <2>1. work \in [state : Stages, cache : SUBSET AllEffects, record : SUBSET AllEffects]
    BY DEF Init, NoWork, Stages
  <2>2. cursor \in Pieces
    BY UnitsAssumption DEF Init, Pieces
  <2>. QED BY <1>2, <1>4, <2>1, <2>2 DEF Init, TypeOK
<1>6. RoundsAgree
  BY DEF Init, RoundsAgree, RoundAgrees, Dead
<1>. QED BY <1>3, <1>5, <1>6 DEF IInv

-----------------------------------------------------------------------------
(* What becomes of the loop *)

\* A loop that is dead, or that waits for its timer with nothing staged to
\* continue, remembers nothing.
LEMMA DieAgrees ==
  ASSUME OneLoop, TypeOK, NEW l \in Loops, Die(l)
  PROVE  loop' \in [Loops -> Rounds] /\ RoundsAgree'
<1>1. Dead \in Rounds
  BY DepthAssumption DEF Dead, Rounds, States, Stages
<1>2. \A m \in Loops : loop'[m] = Dead
  BY DEF Die, OneLoop, TypeOK
<1>3. loop' \in [Loops -> Rounds]
  BY <1>1 DEF Die, TypeOK
<1>4. RoundAgrees(Dead)'
  BY DEF RoundAgrees, Dead
<1>. QED BY <1>2, <1>3, <1>4 DEF RoundsAgree

LEMMA SleepAgrees ==
  ASSUME OneLoop, TypeOK, NEW l \in Loops, NEW s \in States, Sleep(l, s),
         s \notin {"End", "Index"} =>
           staged' \in Blocks /\ Prev[staged'] = Tip' /\ work'.state = s
  PROVE  loop' \in [Loops -> Rounds] /\ RoundsAgree'
<1>. DEFINE r == [Dead EXCEPT !.pc = "timer", !.next = s]
<1>0. Dead \in Rounds
  BY DepthAssumption DEF Dead, Rounds, States, Stages
<1>1. r \in Rounds
  BY <1>0 DEF Rounds
<1>2. \A m \in Loops : loop'[m] = r
  BY DEF Sleep, OneLoop, TypeOK
<1>3. loop' \in [Loops -> Rounds]
  BY <1>1 DEF Sleep, TypeOK
<1>4. r.pc = "timer" /\ r.next = s
  BY DEF Dead
<1>5. RoundAgrees(r)'
  BY <1>4 DEF RoundAgrees
<1>. QED BY <1>2, <1>3, <1>5 DEF RoundsAgree

LEMMA RescheduleAgrees ==
  ASSUME OneLoop, TypeOK, NEW l \in Loops, NEW s \in States, Reschedule(l, s),
         s \notin {"End", "Index"} =>
           staged' \in Blocks /\ Prev[staged'] = Tip' /\ work'.state = s
  PROVE  loop' \in [Loops -> Rounds] /\ RoundsAgree'
<1>1. CASE Die(l)
  BY <1>1, DieAgrees
<1>2. CASE Sleep(l, s)
  BY <1>2, SleepAgrees
<1>. QED BY <1>1, <1>2 DEF Reschedule

-----------------------------------------------------------------------------
(* The stages of a block *)

LEMMA PutMaps ==
  ASSUME NEW S, NEW f, Maps(f, S), NEW k \in Nat, NEW v \in S
  PROVE  Maps(Put(f, k, v), S)
  BY DEF Maps, Put

LEMMA DropMaps ==
  ASSUME NEW S, NEW f, Maps(f, S), NEW K
  PROVE  Maps(Drop(f, K), S)
  BY DEF Maps, Drop

\* One more or the same chain: what a step may do to the indexed chain besides
\* a rollback.
Extended == Tip' \in Blocks /\ Prev[Tip'] = Tip

\* A block that finds its inputs gone stops at once; otherwise at least one
\* piece is indexed.
LEMMA EndsFacts ==
  ASSUME NEW b, NEW at \in Pieces
  PROVE  Ends(b, at) \subseteq at + 1 .. Units
  BY UnitsAssumption DEF Ends, Pieces

LEMMA InputsMissingStep ==
  ASSUME OneLoop, IInv, NEW l \in Loops, NEW b, InputsMissing(l, b),
         best' = best, shuttingDown' = shuttingDown
  PROVE  IInv' /\ Tip' = Tip
<1>1. UNCHANGED <<headers, records, db, utxo, staged, cursor, work>>
  BY DEF InputsMissing, index
<1>2. loop' \in [Loops -> Rounds] /\ RoundsAgree'
  BY DieAgrees DEF InputsMissing, IInv
<1>3. TypeOK'
  BY <1>1, <1>2 DEF IInv, TypeOK
<1>. QED BY <1>1, <1>2, <1>3 DEF IInv, Tip

LEMMA IndexStep ==
  ASSUME OneLoop, IInv, NEW l \in Loops, NEW b \in Blocks, Prev[b] = Tip,
         NEW at \in Pieces, IndexUtxoEntries(l, b, at),
         best' = best, shuttingDown' = shuttingDown
  PROVE  IInv' /\ Tip' = Tip
<1>1. headers' = headers /\ records' = records /\ utxo' = utxo /\ staged' = b
  BY EndsFacts DEF IndexUtxoEntries
<1>2. PICK n \in at + 1 .. Units :
        LET new == {b} \X (at .. n - 1)
            next == IF n = Units THEN "Commit" ELSE "Index"
        IN /\ db' = db \cup new
           /\ work' = [state |-> next, cache |-> work.cache \cup new,
                       record |-> work.record \cup new]
           /\ cursor' = IF n = Units THEN at ELSE n
           /\ Reschedule(l, next)
  BY EndsFacts DEF IndexUtxoEntries
<1>. DEFINE new == {b} \X (at .. n - 1)
            next == IF n = Units THEN "Commit" ELSE "Index"
<1>3. new \subseteq AllEffects
  <2>1. at .. n - 1 \subseteq Pieces
    BY UnitsAssumption DEF Pieces
  <2>2. \A A, B : A \subseteq B => {b} \X A \subseteq Blocks \X B
    OBVIOUS
  <2>. QED BY <2>1, <2>2 DEF AllEffects
<1>4. cursor' \in Pieces
  <2>1. cursor' = IF n = Units THEN at ELSE n
    BY <1>2
  <2>2. n # Units => n \in Pieces
    BY UnitsAssumption DEF Pieces
  <2>. QED BY <2>1, <2>2
<1>5. next \in States /\ next \in Stages
  BY DEF States, Stages
<1>6. work' \in [state : Stages, cache : SUBSET AllEffects, record : SUBSET AllEffects]
  <2>1. work.cache \cup new \in SUBSET AllEffects /\ work.record \cup new \in SUBSET AllEffects
    BY <1>3 DEF IInv, TypeOK
  <2>. HIDE DEF new, next
  <2>. QED BY <1>2, <1>5, <2>1 DEF new, next
<1>7. Tip' = Tip
  BY <1>1 DEF Tip
<1>8. loop' \in [Loops -> Rounds] /\ RoundsAgree'
  <2>1. work'.state = next
    BY <1>2
  <2>2. Reschedule(l, next)
    BY <1>2
  <2>. HIDE DEF next
  <2>. QED BY <2>1, <2>2, <1>1, <1>5, <1>7, RescheduleAgrees DEF IInv
<1>9. TypeOK'
  <2>1. db' \in SUBSET AllEffects
    BY <1>2, <1>3 DEF IInv, TypeOK
  <2>. QED BY <1>1, <1>4, <1>6, <1>8, <2>1 DEF IInv, TypeOK
<1>10. Chained(headers)'
  BY <1>1 DEF IInv
<1>. QED BY <1>7, <1>8, <1>9, <1>10 DEF IInv

LEMMA CommitStep ==
  ASSUME OneLoop, IInv, NEW l \in Loops, NEW b \in Blocks, Prev[b] = Tip,
         NEW at \in Pieces, Commit(l, b, at),
         best' = best, shuttingDown' = shuttingDown
  PROVE  IInv' /\ Tip' = Tip
<1>1. headers' = headers /\ records' = records /\ db' = db /\ staged' = b /\ cursor' = at
  BY DEF Commit
<1>2. Tip' = Tip
  BY <1>1 DEF Tip
<1>3. PICK S \in SUBSET work.cache, s \in {"Commit", "Save"} :
        /\ utxo' = utxo \cup S
        /\ work' = [work EXCEPT !.state = s, !.cache = @ \ S]
        /\ Reschedule(l, s)
  <2>1. CASE \E S \in (SUBSET work.cache) \ {{}} :
               /\ utxo' = utxo \cup S
               /\ work' = [work EXCEPT !.cache = @ \ S]
               /\ Reschedule(l, "Commit")
    <3>1. work.state = "Commit"
      BY DEF Commit
    <3>2. \A S : [work EXCEPT !.cache = @ \ S] = [work EXCEPT !.state = "Commit", !.cache = @ \ S]
      BY <3>1 DEF IInv, TypeOK
    <3>. QED BY <2>1, <3>2
  <2>2. CASE /\ utxo' = utxo \cup work.cache
             /\ work' = [work EXCEPT !.state = "Save", !.cache = {}]
             /\ Reschedule(l, "Save")
    <3>1. work' = [work EXCEPT !.state = "Save", !.cache = @ \ work.cache]
      BY <2>2 DEF IInv, TypeOK
    <3>. QED BY <2>2, <3>1
  <2>. QED BY <2>1, <2>2 DEF Commit
<1>4. S \subseteq AllEffects
  BY DEF IInv, TypeOK
<1>5. s \in States /\ s \in Stages
  BY DEF States, Stages
<1>6. /\ work' \in [state : Stages, cache : SUBSET AllEffects, record : SUBSET AllEffects]
      /\ work'.state = s
  BY <1>3, <1>5 DEF IInv, TypeOK
<1>7. loop' \in [Loops -> Rounds] /\ RoundsAgree'
  BY <1>1, <1>2, <1>3, <1>5, <1>6, RescheduleAgrees DEF IInv
<1>8. TypeOK'
  BY <1>1, <1>3, <1>4, <1>6, <1>7 DEF IInv, TypeOK
<1>9. Chained(headers)'
  BY <1>1 DEF IInv
<1>. QED BY <1>2, <1>7, <1>8, <1>9 DEF IInv

LEMMA SaveStep ==
  ASSUME OneLoop, IInv, NEW l \in Loops, NEW b \in Blocks, Prev[b] = Tip,
         NEW at \in Pieces, Save(l, NextHeight, b, at),
         best' = best, shuttingDown' = shuttingDown
  PROVE  IInv' /\ Tip' = Tip
<1>1. headers' = headers /\ db' = db /\ utxo' = utxo /\ staged' = b /\ cursor' = at
  BY DEF Save
<1>2. Tip' = Tip
  BY <1>1 DEF Tip
<1>3. Maps(records', SUBSET AllEffects)
  <2>1. work.record \in SUBSET AllEffects /\ Maps(records, SUBSET AllEffects)
    BY DEF IInv, TypeOK
  <2>. QED BY <2>1, HeadersInNat, PutMaps DEF Save
<1>4. /\ work' \in [state : Stages, cache : SUBSET AllEffects, record : SUBSET AllEffects]
      /\ work'.state = "Prune"
  BY DEF Save, NoWork, Stages
<1>5. loop' \in [Loops -> Rounds] /\ RoundsAgree'
  <2>1. Reschedule(l, "Prune") /\ "Prune" \in States
    BY DEF Save, States, Stages
  <2>. QED BY <2>1, <1>1, <1>2, <1>4, RescheduleAgrees DEF IInv
<1>6. TypeOK'
  BY <1>1, <1>3, <1>4, <1>5 DEF IInv, TypeOK
<1>7. Chained(headers)'
  BY <1>1 DEF IInv
<1>. QED BY <1>2, <1>5, <1>6, <1>7 DEF IInv

LEMMA PruneStep ==
  ASSUME OneLoop, IInv, NEW l \in Loops, NEW b \in Blocks, Prev[b] = Tip,
         NEW at \in Pieces, Prune(l, NextHeight, b, at),
         best' = best, shuttingDown' = shuttingDown
  PROVE  IInv' /\ Tip' = Tip
<1>. DEFINE old == {k \in DOMAIN records \cup DOMAIN headers : k <= NextHeight - MaxDepth}
<1>1. db' = db /\ utxo' = utxo /\ staged' = b /\ cursor' = at
  BY DEF Prune
<1>2. headers' = Drop(headers, old) /\ records' = Drop(records, old)
  BY DEF Prune
<1>3. Chained(headers') /\ TipIn(headers') = TipIn(headers)
  <2>1. \A k \in DOMAIN headers : k \in old <=> k <= NextIn(headers) - MaxDepth
    BY DEF NextHeight
  <2>2. Chained(headers)
    BY DEF IInv
  <2>. HIDE DEF old
  <2>. QED BY <1>2, <2>1, <2>2, DropOld
<1>4. Tip' = Tip
  BY <1>3 DEF Tip
<1>5. /\ work' \in [state : Stages, cache : SUBSET AllEffects, record : SUBSET AllEffects]
      /\ work'.state = "Cleanup"
  BY DEF Prune, NoWork, Stages
<1>6. loop' \in [Loops -> Rounds] /\ RoundsAgree'
  <2>1. Reschedule(l, "Cleanup") /\ "Cleanup" \in States
    BY DEF Prune, States, Stages
  <2>. QED BY <2>1, <1>1, <1>4, <1>5, RescheduleAgrees DEF IInv
<1>7. TypeOK'
  <2>1. Maps(records', SUBSET AllEffects)
    BY <1>2, DropMaps DEF IInv, TypeOK
  <2>. QED BY <1>1, <1>3, <1>5, <1>6, <2>1 DEF IInv, TypeOK, Chained
<1>. QED BY <1>3, <1>4, <1>6, <1>7 DEF IInv

LEMMA CleanupStep ==
  ASSUME OneLoop, IInv, NEW l \in Loops, NEW b \in Blocks, Prev[b] = Tip,
         NEW at \in Pieces, Cleanup(l, NextHeight, b, at),
         best' = best, shuttingDown' = shuttingDown
  PROVE  IInv' /\ Extended
<1>1. records' = records /\ db' = db /\ utxo' = utxo /\ staged' = NoBlock /\ cursor' = at
  BY DEF Cleanup
<1>2. Chained(headers') /\ TipIn(headers') = b
  <2>1. headers' = Put(headers, NextIn(headers), b)
    BY DEF Cleanup, NextHeight
  <2>. QED BY <2>1, PutExtends DEF IInv, Tip
<1>3. Extended
  BY <1>2 DEF Extended, Tip
<1>4. work' \in [state : Stages, cache : SUBSET AllEffects, record : SUBSET AllEffects]
  BY DEF Cleanup, NoWork, Stages
<1>5. loop' \in [Loops -> Rounds] /\ RoundsAgree'
  <2>1. Reschedule(l, "End") /\ "End" \in States
    BY DEF Cleanup, States, Stages
  <2>. QED BY <2>1, RescheduleAgrees DEF IInv
<1>6. TypeOK'
  BY <1>1, <1>2, <1>4, <1>5 DEF IInv, TypeOK, Chained
<1>. QED BY <1>2, <1>3, <1>5, <1>6 DEF IInv

LEMMA IndexBlockStep ==
  ASSUME OneLoop, IInv, NEW l \in Loops, NEW b \in Blocks, Prev[b] = Tip,
         NEW at \in Pieces, IndexBlock(l, NextHeight, b, at),
         best' = best, shuttingDown' = shuttingDown
  PROVE  IInv' /\ (Tip' = Tip \/ Extended)
  BY IndexStep, InputsMissingStep, CommitStep, SaveStep, PruneStep, CleanupStep
     DEF IndexBlock

-----------------------------------------------------------------------------
(* Reorganizations *)

\* Every height of Bitcoin's chain has one block.
LEMMA AtHeightFacts ==
  ASSUME NEW b \in Blocks, NEW h \in Nat, h <= Height[b]
  PROVE  AtHeight(b, h) \in Blocks /\ Height[AtHeight(b, h)] = h
<1>1. h \in 0..Height[b]
  BY TreeAssumption
<1>2. \E a \in Lineage[b] : Height[a] = h
  BY <1>1, LineageAssumption
<1>3. Lineage[b] \subseteq Blocks
  BY LineageAssumption
<1>. QED BY <1>2, <1>3 DEF AtHeight

LEMMA CheckAncestorStep ==
  ASSUME OneLoop, IInv, NEW l \in Loops, NEW d \in 1 .. MaxDepth + 1,
         CheckAncestor(l, NextHeight, d), headers' = headers
  PROVE  loop' \in [Loops -> Rounds] /\ RoundsAgree'
<1>1. CASE Die(l)
  BY <1>1, DieAgrees DEF IInv
<1>2. CASE ~(d > MaxDepth \/ NextHeight - d \notin DOMAIN headers)
  <2>. DEFINE r == [Dead EXCEPT !.pc = "ancestor", !.height = NextHeight, !.depth = d,
                                !.block = headers[NextHeight - d]]
  <2>1. loop' = [loop EXCEPT ![l] = r]
    BY <1>2 DEF CheckAncestor
  <2>2. d \in 0..MaxDepth /\ d \in 1..MaxDepth
    BY <1>2, DepthAssumption
  <2>3. headers[NextHeight - d] \in Blocks
    BY <1>2 DEF IInv, TypeOK, Maps
  <2>4. NextHeight \in Nat
    BY HeadersInNat
  <2>5. Dead \in Rounds
    BY DepthAssumption DEF Dead, Rounds, States, Stages
  <2>6. r \in Rounds
    BY <2>2, <2>3, <2>4, <2>5 DEF Rounds
  <2>7. /\ r.pc = "ancestor" /\ r.height = NextHeight /\ r.depth = d
        /\ r.block = headers[NextHeight - d]
    BY DEF Dead
  <2>8. NextHeight' = NextHeight
    BY DEF NextHeight
  <2>. HIDE DEF r
  <2>9. \A k \in Loops : loop'[k] = r
    BY <2>1 DEF OneLoop, IInv, TypeOK
  <2>10. loop' \in [Loops -> Rounds]
    BY <2>1, <2>6 DEF IInv, TypeOK
  <2>11. \A k \in Loops :
           /\ loop'[k].pc = "ancestor" /\ loop'[k].height = NextHeight'
           /\ loop'[k].depth \in 1..MaxDepth
           /\ loop'[k].height - loop'[k].depth \in DOMAIN headers'
           /\ loop'[k].block = headers'[loop'[k].height - loop'[k].depth]
    BY <1>2, <2>2, <2>7, <2>8, <2>9
  <2>. QED BY <2>10, <2>11 DEF RoundsAgree, RoundAgrees
<1>. QED BY <1>1, <1>2 DEF CheckAncestor

LEMMA DetectReorgStep ==
  ASSUME OneLoop, IInv, NEW l \in Loops, NEW b \in Blocks, Height[b] = NextHeight,
         NEW at \in Pieces, DetectReorg(l, NextHeight, Tip, b, at),
         best' = best, shuttingDown' = shuttingDown
  PROVE  IInv' /\ (Tip' = Tip \/ Extended)
<1>1. CASE Tip \in {NoBlock, Prev[b]} /\ IndexBlock(l, NextHeight, b, at)
  <2>1. Prev[b] = Tip
    BY <1>1, Extends DEF IInv, Chained, Tip, NextHeight
  <2>. QED BY <1>1, <2>1, IndexBlockStep
<1>2. CASE /\ CheckAncestor(l, NextHeight, 1)
           /\ staged' = b /\ cursor' = at /\ UNCHANGED <<index, work>>
  <2>1. headers' = headers /\ records' = records /\ db' = db /\ utxo' = utxo /\ work' = work
    BY <1>2 DEF index
  <2>2. loop' \in [Loops -> Rounds] /\ RoundsAgree'
    <3>1. 1 \in 1 .. MaxDepth + 1
      BY DepthAssumption
    <3>. QED BY <1>2, <2>1, <3>1, CheckAncestorStep
  <2>3. TypeOK'
    BY <1>2, <2>1, <2>2 DEF IInv, TypeOK
  <2>. QED BY <2>1, <2>2, <2>3 DEF IInv, Tip
<1>. QED BY <1>1, <1>2 DEF DetectReorg

\* What a step that undoes blocks does to the indexed chain.
RolledBack ==
  Tip \in Blocks /\ Tip' \in Lineage[Tip] /\ Height[Tip] - Height[Tip'] < MaxDepth

LEMMA HandleReorgStep ==
  ASSUME OneLoop, IInv, NEW l \in Loops, NEW d \in 1..MaxDepth,
         NextHeight - d \in DOMAIN headers,
         HandleReorg(NextHeight, d), Reschedule(l, "End"),
         best' = best, shuttingDown' = shuttingDown
  PROVE  IInv' /\ RolledBack
<1>. DEFINE m == NextHeight - d
<1>1. /\ headers' = Drop(headers, m + 1 .. NextIn(headers) - 1)
      /\ staged' = staged /\ cursor' = cursor /\ work' = work
  BY DEF HandleReorg, NextHeight
<1>2. Chained(headers') /\ TipIn(headers') = headers[m]
  BY <1>1, DropTop DEF IInv
<1>3. PICK lo, hi \in Nat :
        /\ lo <= hi /\ DOMAIN headers = lo..hi /\ Tip = headers[hi] /\ Tip \in Blocks
        /\ Height[Tip] = hi /\ NextHeight = hi + 1
  BY Shape DEF IInv, Chained, Tip, NextHeight
<1>4. Tip' = headers[m] /\ Height[headers[m]] = m
  BY <1>2 DEF Tip, IInv, Chained, Linked
<1>5. RolledBack
  <2>1. m \in lo..hi /\ hi \in lo..hi /\ m <= hi
    BY <1>3
  <2>2. headers[m] \in Lineage[headers[hi]]
    BY <1>3, <2>1 DEF IInv, Chained
  <2>3. hi - m < MaxDepth
    BY <1>3, DepthAssumption
  <2>. QED BY <1>3, <1>4, <2>2, <2>3 DEF RolledBack
<1>6. loop' \in [Loops -> Rounds] /\ RoundsAgree'
  BY RescheduleAgrees DEF IInv, States
<1>7. Maps(records', SUBSET AllEffects)
  BY DropMaps DEF HandleReorg, IInv, TypeOK
<1>8. db' \in SUBSET AllEffects /\ utxo' \in SUBSET AllEffects
  BY DEF HandleReorg, IInv, TypeOK
<1>9. TypeOK'
  BY <1>1, <1>2, <1>6, <1>7, <1>8 DEF IInv, TypeOK, Chained
<1>. QED BY <1>2, <1>5, <1>6, <1>9 DEF IInv

-----------------------------------------------------------------------------
(* The messages *)

LEMMA GiveUpStep ==
  ASSUME OneLoop, IInv, NEW l \in Loops, GiveUp(l),
         best' = best, shuttingDown' = shuttingDown
  PROVE  IInv' /\ Tip' = Tip
<1>1. UNCHANGED <<headers, records, db, utxo, staged, cursor, work>>
  BY DEF GiveUp, index
<1>2. loop' \in [Loops -> Rounds] /\ RoundsAgree'
  BY RescheduleAgrees DEF IInv, GiveUp, States
<1>3. TypeOK'
  BY <1>1, <1>2 DEF IInv, TypeOK
<1>. QED BY <1>1, <1>2, <1>3 DEF IInv, Tip

\* A step of the environment or of the operator that ends the loop, or leaves
\* it and what it works on alone.
LEMMA AgreesUnchanged ==
  ASSUME RoundsAgree, UNCHANGED <<headers, staged, work, loop>>
  PROVE  RoundsAgree'
  BY DEF RoundsAgree, RoundAgrees, NextHeight, Tip

LEMMA FireStep ==
  ASSUME OneLoop, IInv, NEW l \in Loops, Fire(l)
  PROVE  IInv' /\ (Tip' = Tip \/ Extended)
<1>1. best' = best /\ shuttingDown' = shuttingDown
  BY DEF Fire
<1>2. CASE /\ loop' = [loop EXCEPT ![l] =
               [Dead EXCEPT !.pc = "hash", !.height = NextHeight, !.prev = Tip]]
           /\ UNCHANGED <<index, staged, cursor, work>>
  <2>. DEFINE r == [Dead EXCEPT !.pc = "hash", !.height = NextHeight, !.prev = Tip]
  <2>1. UNCHANGED <<headers, records, db, utxo, staged, cursor, work>>
    BY <1>2 DEF index
  <2>2. Dead \in Rounds
    BY DepthAssumption DEF Dead, Rounds, States, Stages
  <2>3. r \in Rounds
    BY <2>2, HeadersInNat DEF Rounds
  <2>4. r.pc = "hash" /\ r.height = NextHeight /\ r.prev = Tip
    BY DEF Dead
  <2>5. NextHeight' = NextHeight /\ Tip' = Tip
    BY <2>1 DEF NextHeight, Tip
  <2>. HIDE DEF r
  <2>6. \A k \in Loops : loop'[k] = r
    BY <1>2 DEF OneLoop, IInv, TypeOK, r
  <2>7. \A k \in Loops :
          /\ loop'[k].pc = "hash"
          /\ loop'[k].height = NextHeight' /\ loop'[k].prev = Tip'
    BY <2>4, <2>5, <2>6
  <2>8. loop' \in [Loops -> Rounds]
    BY <1>2, <2>3 DEF IInv, TypeOK, r
  <2>9. RoundsAgree'
    BY <2>7 DEF RoundsAgree, RoundAgrees
  <2>10. TypeOK'
    BY <1>1, <2>1, <2>8 DEF IInv, TypeOK
  <2>. QED BY <2>1, <2>5, <2>9, <2>10 DEF IInv
<1>3. CASE GiveUp(l)
  BY <1>1, <1>3, GiveUpStep
<1>4. CASE /\ loop[l].next \notin {"End", "Index"}
           /\ IndexBlock(l, NextHeight, staged, cursor)
  <2>1. staged \in Blocks /\ Prev[staged] = Tip
    BY <1>4 DEF Fire, IInv, RoundsAgree, RoundAgrees
  <2>2. cursor \in Pieces
    BY DEF IInv, TypeOK
  <2>. QED BY <1>1, <1>4, <2>1, <2>2, IndexBlockStep
<1>. QED BY <1>2, <1>3, <1>4 DEF Fire

LEMMA HashFoundStep ==
  ASSUME OneLoop, IInv, NEW l \in Loops, HashFound(l)
  PROVE  IInv' /\ (Tip' = Tip \/ Extended)
<1>. DEFINE h == loop[l].height
            b == AtHeight(best, h)
<1>1. best' = best /\ shuttingDown' = shuttingDown
  BY DEF HashFound
<1>2. loop[l].height = NextHeight /\ loop[l].prev = Tip
  BY DEF HashFound, IInv, RoundsAgree, RoundAgrees
<1>3. b \in Blocks /\ Height[b] = NextHeight
  BY <1>2, HeadersInNat, AtHeightFacts DEF HashFound, IInv, TypeOK
<1>4. CASE DetectReorg(l, h, loop[l].prev, b, cursor)
  <2>1. cursor \in Pieces /\ DetectReorg(l, NextHeight, Tip, b, cursor)
    BY <1>2, <1>4 DEF IInv, TypeOK
  <2>. HIDE DEF b
  <2>. QED BY <1>1, <1>3, <2>1, DetectReorgStep
<1>5. CASE /\ loop' = [loop EXCEPT ![l].pc = "block", ![l].block = b]
           /\ UNCHANGED <<index, staged, cursor, work>>
  <2>. DEFINE r == [loop[l] EXCEPT !.pc = "block", !.block = b]
  <2>. HIDE DEF b
  <2>1. UNCHANGED <<headers, records, db, utxo, staged, cursor, work>>
    BY <1>5 DEF index
  <2>2. loop[l] \in Rounds
    BY DEF IInv, TypeOK
  <2>3. r \in Rounds
    BY <1>3, <2>2 DEF Rounds
  <2>4. r.pc = "block" /\ r.height = NextHeight /\ r.prev = Tip /\ r.block = b
    BY <1>2, <2>2 DEF Rounds
  <2>5. NextHeight' = NextHeight /\ Tip' = Tip
    BY <2>1 DEF NextHeight, Tip
  <2>6. loop' = [loop EXCEPT ![l] = r]
    BY <1>5, <2>2 DEF IInv, TypeOK, Rounds
  <2>. HIDE DEF r
  <2>7. \A k \in Loops : loop'[k] = r
    BY <2>6 DEF OneLoop, IInv, TypeOK
  <2>8. \A k \in Loops :
          /\ loop'[k].pc = "block" /\ loop'[k].block = b
          /\ loop'[k].height = NextHeight' /\ loop'[k].prev = Tip'
    BY <2>4, <2>5, <2>7
  <2>9. loop' \in [Loops -> Rounds]
    BY <2>3, <2>6 DEF IInv, TypeOK
  <2>10. RoundsAgree'
    <3>1. \A k \in Loops :
            /\ loop'[k].block \in Blocks
            /\ Height[loop'[k].block] = loop'[k].height
      BY <1>3, <2>5, <2>8
    <3>. QED BY <2>8, <3>1 DEF RoundsAgree, RoundAgrees
  <2>11. TypeOK'
    BY <1>1, <2>1, <2>9 DEF IInv, TypeOK
  <2>. QED BY <2>1, <2>5, <2>10, <2>11 DEF IInv
<1>. QED BY <1>4, <1>5 DEF HashFound

LEMMA BlockFetchedStep ==
  ASSUME OneLoop, IInv, NEW l \in Loops, BlockFetched(l)
  PROVE  IInv' /\ (Tip' = Tip \/ Extended)
<1>1. best' = best /\ shuttingDown' = shuttingDown
  BY DEF BlockFetched
<1>2. /\ loop[l].height = NextHeight /\ loop[l].prev = Tip
      /\ loop[l].block \in Blocks /\ Height[loop[l].block] = NextHeight
  BY DEF BlockFetched, IInv, RoundsAgree, RoundAgrees
<1>3. 0 \in Pieces
  BY UnitsAssumption DEF Pieces
<1>4. DetectReorg(l, NextHeight, Tip, loop[l].block, 0)
  BY <1>2 DEF BlockFetched
<1>. QED BY <1>1, <1>2, <1>3, <1>4, DetectReorgStep

LEMMA AncestorFoundStep ==
  ASSUME OneLoop, IInv, NEW l \in Loops, AncestorFound(l)
  PROVE  IInv' /\ (Tip' = Tip \/ RolledBack)
<1>. DEFINE h == loop[l].height
            d == loop[l].depth
<1>1. best' = best /\ shuttingDown' = shuttingDown
  BY DEF AncestorFound
<1>2. h = NextHeight /\ d \in 1..MaxDepth /\ h - d \in DOMAIN headers
  BY DEF AncestorFound, IInv, RoundsAgree, RoundAgrees
<1>3. CASE HandleReorg(h, d) /\ Reschedule(l, "End")
  BY <1>1, <1>2, <1>3, HandleReorgStep
<1>4. CASE CheckAncestor(l, h, d + 1) /\ UNCHANGED <<index, staged, cursor, work>>
  <2>1. UNCHANGED <<headers, records, db, utxo, staged, cursor, work>>
    BY <1>4 DEF index
  <2>2. d + 1 \in 1 .. MaxDepth + 1
    BY <1>2, DepthAssumption
  <2>3. loop' \in [Loops -> Rounds] /\ RoundsAgree'
    BY <1>2, <1>4, <2>1, <2>2, CheckAncestorStep
  <2>4. TypeOK'
    BY <1>1, <2>1, <2>3 DEF IInv, TypeOK
  <2>. QED BY <2>1, <2>3, <2>4 DEF IInv, Tip
<1>. QED BY <1>3, <1>4 DEF AncestorFound

LEMMA TrapStep ==
  ASSUME OneLoop, IInv, NEW l \in Loops, Trap(l)
  PROVE  IInv' /\ Tip' = Tip
<1>1. UNCHANGED <<best, headers, records, db, utxo, staged, cursor, work, shuttingDown>>
  BY DEF Trap, index
<1>2. loop' \in [Loops -> Rounds] /\ RoundsAgree'
  BY DieAgrees DEF Trap, IInv
<1>. QED BY <1>1, <1>2 DEF IInv, TypeOK, Tip

LEMMA StartStep ==
  ASSUME OneLoop, IInv, NEW l \in Loops, Start(l)
  PROVE  IInv' /\ Tip' = Tip
<1>1. /\ UNCHANGED <<best, headers, records, db, utxo, staged, cursor, work>>
      /\ shuttingDown' = FALSE
  BY DEF Start, index
<1>2. loop' \in [Loops -> Rounds] /\ RoundsAgree'
  BY SleepAgrees DEF Start, IInv, States, Stages
<1>. QED BY <1>1, <1>2 DEF IInv, TypeOK, Tip

LEMMA StopStep ==
  ASSUME IInv, Stop
  PROVE  IInv' /\ Tip' = Tip
<1>1. /\ UNCHANGED <<best, headers, records, db, utxo, staged, cursor, work, loop>>
      /\ shuttingDown' = TRUE
  BY DEF Stop, index
<1>2. RoundsAgree'
  BY <1>1, AgreesUnchanged DEF IInv
<1>. QED BY <1>1, <1>2 DEF IInv, TypeOK, Tip

LEMMA UpgradeStep ==
  ASSUME IInv, Upgrade
  PROVE  IInv' /\ Tip' = Tip
<1>1. /\ UNCHANGED <<best, headers, records, db, utxo, staged, cursor>>
      /\ shuttingDown' = FALSE /\ work' = NoWork /\ loop' = [k \in Loops |-> Dead]
  BY DEF Upgrade, index
<1>2. Dead \in Rounds
  BY DepthAssumption DEF Dead, Rounds, States, Stages
<1>3. work' \in [state : Stages, cache : SUBSET AllEffects, record : SUBSET AllEffects]
  BY <1>1 DEF NoWork, Stages
<1>4. TypeOK'
  BY <1>1, <1>2, <1>3 DEF IInv, TypeOK
<1>5. RoundsAgree'
  BY <1>1 DEF RoundsAgree, RoundAgrees, Dead
<1>. QED BY <1>1, <1>4, <1>5 DEF IInv, Tip

LEMMA NewBestStep ==
  ASSUME IInv, NewBest
  PROVE  IInv' /\ Tip' = Tip
<1>1. /\ UNCHANGED <<headers, records, db, utxo, staged, cursor, work, loop, shuttingDown>>
      /\ best' \in Blocks
  BY DEF NewBest, index
<1>2. RoundsAgree'
  BY <1>1, AgreesUnchanged DEF IInv
<1>. QED BY <1>1, <1>2 DEF IInv, TypeOK, Tip

\* Every step keeps the invariant, and extends the indexed chain by a block,
\* rolls it back, or leaves it alone.
LEMMA StepIInv ==
  ASSUME OneLoop, IInv, [Next]_vars
  PROVE  IInv' /\ (Tip' = Tip \/ Extended \/ RolledBack)
<1>1. CASE UNCHANGED vars
  <2>1. UNCHANGED <<best, headers, records, db, utxo, staged, cursor, work, loop, shuttingDown>>
    BY <1>1 DEF vars, index
  <2>2. RoundsAgree'
    BY <2>1, AgreesUnchanged DEF IInv
  <2>. QED BY <2>1, <2>2 DEF IInv, TypeOK, Tip
<1>2. ASSUME NEW l \in Loops, Round(l)
      PROVE  IInv' /\ (Tip' = Tip \/ Extended \/ RolledBack)
  <2>1. CASE Fire(l)
    BY <2>1, FireStep
  <2>2. CASE HashFound(l)
    BY <2>2, HashFoundStep
  <2>3. CASE HashUnavailable(l)
    BY <2>3, GiveUpStep DEF HashUnavailable
  <2>4. CASE BlockFetched(l)
    BY <2>4, BlockFetchedStep
  <2>5. CASE BlockUnavailable(l)
    BY <2>5, GiveUpStep DEF BlockUnavailable
  <2>6. CASE AncestorFound(l)
    BY <2>6, AncestorFoundStep
  <2>7. CASE AncestorUnavailable(l)
    BY <2>7, GiveUpStep DEF AncestorUnavailable
  <2>. QED BY <1>2, <2>1, <2>2, <2>3, <2>4, <2>5, <2>6, <2>7 DEF Round
<1>3. ASSUME NEW l \in Loops, Trap(l)
      PROVE  IInv' /\ Tip' = Tip
  BY <1>3, TrapStep
<1>4. ASSUME NEW l \in Loops, Start(l)
      PROVE  IInv' /\ Tip' = Tip
  BY <1>4, StartStep
<1>5. CASE Stop
  BY <1>5, StopStep
<1>6. CASE Upgrade
  BY <1>6, UpgradeStep
<1>7. CASE NewBest
  BY <1>7, NewBestStep
<1>. QED BY <1>1, <1>2, <1>3, <1>4, <1>5, <1>6, <1>7 DEF Next

-----------------------------------------------------------------------------
(* The theorems *)

\* With one loop the invariant holds throughout.
LEMMA Invariance == ASSUME OneLoop PROVE Spec => []IInv
<1>1. Init => IInv
  BY InitIInv
<1>2. IInv /\ [Next]_vars => IInv'
  BY StepIInv
<1>. QED BY <1>1, <1>2, PTL DEF Spec

\* The tables and the staged variables always hold values of their types; in
\* particular CURSOR never points past the last piece of a block, and a loop
\* never looks for a common ancestor deeper than the recoverable depth.
THEOREM TypeCorrect == ASSUME OneLoop PROVE Spec => []TypeOK
<1>1. IInv => TypeOK
  BY DEF IInv
<1>. QED BY <1>1, Invariance, PTL

\* The header table is a window of one chain, whatever blocks, reorgs, failed
\* calls, traps, upgrades and restarts come in whatever order: the blocks that
\* updater.rs inserts, prunes and undoes leave no gap and no mismatch.
THEOREM HeadersStayLinked == ASSUME OneLoop PROVE Spec => []HeadersLinked
<1>1. IInv => HeadersLinked
  BY DEF IInv, Chained, HeadersLinked
<1>. QED BY <1>1, Invariance, PTL

\* What run_indexing_round and detect_reorg read before an await still holds
\* after it, and the timer of a later stage finds the block and the stage it
\* was set for.
THEOREM RoundsStayInAgreement == ASSUME OneLoop PROVE Spec => []RoundsAgree
<1>1. IInv => RoundsAgree
  BY DEF IInv
<1>. QED BY <1>1, Invariance, PTL

\* The case of run_indexing_round whose comment says that it should not happen
\* does not happen while start() is called only when no loop is alive.
THEOREM StagedBlockStays == ASSUME OneLoop PROVE Spec => []StagedBlockPresent
<1>1. IInv => StagedBlockPresent
  BY NoBlockAssumption DEF IInv, RoundsAgree, RoundAgrees, StagedBlockPresent
<1>. QED BY <1>1, Invariance, PTL

\* The detailed loop implements the abstract index: its tip moves to a child
\* block, or back to an ancestor less than the recoverable depth below.
THEOREM Refinement == ASSUME OneLoop PROVE Spec => IndexedChain
<1>1. Init => Tip = NoBlock
  BY DEF Init, Tip, TipIn
<1>2. IInv /\ [Next]_vars => [Chain!Next]_Tip
  <2>1. Extended => Chain!Extend
    BY DEF Extended, Chain!Extend
  <2>2. RolledBack => Chain!Rollback
    BY DEF RolledBack, Chain!Rollback
  <2>. QED BY <2>1, <2>2, StepIInv DEF Chain!Next
<1>3. Init => Chain!Init
  BY <1>1 DEF Chain!Init
<1>. QED BY <1>2, <1>3, Invariance, PTL DEF Spec, IndexedChain, Chain!Spec

-----------------------------------------------------------------------------
(* What the tables hold, for every tree of blocks, every reorg depth and     *)
(* every division of a block into pieces, through breakpoints, traps, failed *)
(* calls, restarts and reorgs, as long as one loop is alive at a time and    *)
(* reorgs and upgrades come between blocks: the runs reorg_mid_block and     *)
(* upgrade_mid_block show what happens when they do not.                     *)

BetweenBlocks == ~ReorgAnytime /\ ~UpgradeAnytime

-----------------------------------------------------------------------------
(* The invariant *)

\* A block in progress is the staged one, the next of the indexed chain, and on
\* Bitcoin's best chain: no look-up can replace it.
Anchored ==
  work # NoWork =>
    staged \in Blocks /\ Prev[staged] = Tip /\ staged \in Lineage[best]

\* While a block or an ancestor is awaited, none is in progress.
NothingInProgress ==
  \A l \in Loops :
    /\ loop[l].pc = "block" => work = NoWork /\ loop[l].block \in Lineage[best]
    /\ loop[l].pc = "ancestor" => work = NoWork

\* What the block in progress has written so far.
Done == IF work.state = "Index" THEN work.record ELSE Effects(staged)

\* The tables hold the indexed chain and the part of the block in progress;
\* what the outputs' table lacks of it is in the cache.
Accounted == db = Indexed \cup Done /\ utxo \cup work.cache = db

\* How far each stage has brought the block.
StageReached ==
  /\ CursorAgrees
  /\ work.state \in {"Commit", "Save"} => work.record = Effects(staged)
  /\ work.state \in {"Save", "Prune", "Cleanup"} => work.cache = {}
  /\ work.state \in {"Prune", "Cleanup"} =>
       NextHeight \in DOMAIN records /\ records[NextHeight] = Effects(staged)

CInv == Anchored /\ NothingInProgress /\ Accounted /\ StageReached /\ RecordsUndo

LEMMA NoWorkFacts ==
  NoWork.state = "Index" /\ NoWork.cache = {} /\ NoWork.record = {}
  BY DEF NoWork

\* What a block in progress is, whatever its stage.
LEMMA InProgressFacts ==
  ASSUME CInv, work.state # "Index"
  PROVE  staged \in Blocks /\ Prev[staged] = Tip /\ staged \in Lineage[best]
         /\ Done = Effects(staged)
  BY NoWorkFacts DEF CInv, Anchored, Done

LEMMA InitCInv == ASSUME Init PROVE CInv
<1>1. Tip = NoBlock /\ DOMAIN headers = {}
  BY DEF Init, Tip, TipIn
<1>. QED BY <1>1, NoWorkFacts
         DEF Init, CInv, Anchored, NothingInProgress, Dead, Accounted, Indexed, Done,
             StageReached, CursorAgrees, RecordsUndo

-----------------------------------------------------------------------------
(* The stages of a block *)

\* A loop that is dead or waits for its timer awaits nothing.
LEMMA DieIdle ==
  ASSUME OneLoop, TypeOK, NEW l \in Loops, Die(l)
  PROVE  NothingInProgress'
<1>1. \A m \in Loops : loop'[m] = Dead
  BY DEF Die, OneLoop, TypeOK
<1>. QED BY <1>1 DEF NothingInProgress, Dead

LEMMA SleepIdle ==
  ASSUME OneLoop, TypeOK, NEW l \in Loops, NEW s, Sleep(l, s)
  PROVE  NothingInProgress'
<1>1. \A m \in Loops : loop'[m] = [Dead EXCEPT !.pc = "timer", !.next = s]
  BY DEF Sleep, OneLoop, TypeOK
<1>2. \A m \in Loops : loop'[m].pc = "timer"
  BY <1>1 DEF Dead
<1>. QED BY <1>2 DEF NothingInProgress

LEMMA RescheduleIdle ==
  ASSUME OneLoop, TypeOK, NEW l \in Loops, NEW s, Reschedule(l, s)
  PROVE  NothingInProgress'
  BY DieIdle, SleepIdle DEF Reschedule

\* What a stage of block b finds.
Ready(b, at) ==
  /\ b \in Blocks /\ Prev[b] = Tip /\ b \in Lineage[best]
  /\ work # NoWork => staged = b
  /\ work.state = "Index" => work.record = {b} \X (0 .. at - 1)

LEMMA IndexContent ==
  ASSUME OneLoop, IInv, CInv, NEW l \in Loops, NEW b, NEW at \in Pieces, Ready(b, at),
         IndexUtxoEntries(l, b, at), best' = best
  PROVE  CInv'
<1>1. UNCHANGED <<headers, records, utxo>> /\ staged' = b /\ work.state = "Index"
  BY EndsFacts DEF IndexUtxoEntries
<1>2. Tip' = Tip /\ Indexed' = Indexed
  BY <1>1 DEF Tip, Indexed
<1>3. PICK n \in at + 1 .. Units :
        LET new == {b} \X (at .. n - 1)
            next == IF n = Units THEN "Commit" ELSE "Index"
        IN /\ db' = db \cup new
           /\ work' = [state |-> next, cache |-> work.cache \cup new,
                       record |-> work.record \cup new]
           /\ cursor' = IF n = Units THEN at ELSE n
           /\ Reschedule(l, next)
  BY EndsFacts DEF IndexUtxoEntries
<1>. DEFINE new == {b} \X (at .. n - 1)
<1>4. /\ db' = db \cup new /\ work'.cache = work.cache \cup new
      /\ work'.record = work.record \cup new
      /\ work'.state = IF n = Units THEN "Commit" ELSE "Index"
      /\ n # Units => cursor' = n
  BY <1>3
<1>5. work'.record = {b} \X (0 .. n - 1)
  <2>1. (0 .. at - 1) \cup (at .. n - 1) = 0 .. n - 1
    BY UnitsAssumption DEF Pieces
  <2>2. \A A, B : ({b} \X A) \cup ({b} \X B) = {b} \X (A \cup B)
    OBVIOUS
  <2>. QED BY <1>1, <1>4, <2>1, <2>2 DEF Ready
<1>. HIDE DEF new
<1>6. Done' = work'.record
  BY <1>1, <1>4, <1>5 DEF Done, Effects, Pieces
<1>7. Accounted'
  <2>1. db = Indexed \cup work.record /\ utxo \cup work.cache = db
    BY <1>1 DEF CInv, Accounted, Done
  <2>. QED BY <1>1, <1>2, <1>4, <1>6, <2>1 DEF Accounted
<1>8. Anchored'
  BY <1>1, <1>2 DEF Ready, Anchored
<1>9. StageReached'
  <2>1. b # NoBlock
    BY NoBlockAssumption DEF Ready
  <2>. QED BY <1>1, <1>4, <1>5, <2>1 DEF StageReached, CursorAgrees, Effects, Pieces
<1>10. NothingInProgress'
  BY <1>3, RescheduleIdle DEF IInv
<1>11. RecordsUndo'
  BY <1>1 DEF CInv, RecordsUndo
<1>. QED BY <1>7, <1>8, <1>9, <1>10, <1>11 DEF CInv

LEMMA CommitContent ==
  ASSUME OneLoop, IInv, CInv, NEW l \in Loops, NEW b, NEW at \in Pieces, Ready(b, at),
         Commit(l, b, at), best' = best
  PROVE  CInv'
<1>1. UNCHANGED <<headers, records, db>> /\ staged' = b /\ work.state = "Commit"
  BY DEF Commit
<1>2. staged = b /\ Done = Effects(b) /\ work.record = Effects(b)
  BY <1>1, InProgressFacts, NoWorkFacts DEF Ready, CInv, StageReached
<1>3. Tip' = Tip /\ Indexed' = Indexed
  BY <1>1 DEF Tip, Indexed
<1>4. PICK S \in SUBSET work.cache, s \in {"Commit", "Save"} :
        /\ utxo' = utxo \cup S
        /\ work'.state = s /\ work'.cache = work.cache \ S /\ work'.record = work.record
        /\ s = "Save" => work'.cache = {}
        /\ Reschedule(l, s)
  <2>1. CASE \E S \in (SUBSET work.cache) \ {{}} :
               /\ utxo' = utxo \cup S
               /\ work' = [work EXCEPT !.cache = @ \ S]
               /\ Reschedule(l, "Commit")
    BY <1>1, <2>1 DEF IInv, TypeOK
  <2>2. CASE /\ utxo' = utxo \cup work.cache
             /\ work' = [work EXCEPT !.state = "Save", !.cache = {}]
             /\ Reschedule(l, "Save")
    <3>1. /\ work'.state = "Save" /\ work'.cache = work.cache \ work.cache
          /\ work'.record = work.record /\ work'.cache = {}
      BY <2>2 DEF IInv, TypeOK
    <3>. QED BY <2>2, <3>1
  <2>. QED BY <2>1, <2>2 DEF Commit
<1>5. Accounted'
  <2>1. Done' = Effects(b)
    BY <1>1, <1>4 DEF Done, Effects, Pieces
  <2>2. utxo' \cup work'.cache = utxo \cup work.cache
    BY <1>4
  <2>. QED BY <1>1, <1>2, <1>3, <2>1, <2>2 DEF CInv, Accounted
<1>6. Anchored'
  BY <1>1, <1>3 DEF Ready, Anchored
<1>7. StageReached'
  BY <1>1, <1>2, <1>4 DEF StageReached, CursorAgrees, Effects, Pieces
<1>8. NothingInProgress'
  BY <1>4, RescheduleIdle DEF IInv
<1>9. RecordsUndo'
  BY <1>1 DEF CInv, RecordsUndo
<1>. QED BY <1>5, <1>6, <1>7, <1>8, <1>9 DEF CInv

\* The height in progress is above the indexed ones.
LEMMA NextIsNew ==
  ASSUME IInv
  PROVE  NextHeight \in Nat /\ NextHeight \notin DOMAIN headers
<1>1. CASE DOMAIN headers = {} /\ NextIn(headers) = 0
  BY <1>1 DEF NextHeight
<1>2. ASSUME NEW lo \in Nat, NEW hi \in Nat, DOMAIN headers = lo..hi,
             NextIn(headers) = hi + 1
      PROVE  NextHeight \in Nat /\ NextHeight \notin DOMAIN headers
  BY <1>2 DEF NextHeight
<1>. QED BY <1>1, <1>2, Shape DEF IInv, Chained

LEMMA SaveContent ==
  ASSUME OneLoop, IInv, CInv, NEW l \in Loops, NEW b, NEW at \in Pieces, Ready(b, at),
         Save(l, NextHeight, b, at), best' = best
  PROVE  CInv'
<1>1. /\ UNCHANGED <<headers, db, utxo>> /\ staged' = b /\ work.state = "Save"
      /\ records' = Put(records, NextHeight, work.record)
      /\ work' = [NoWork EXCEPT !.state = "Prune"] /\ Reschedule(l, "Prune")
  BY DEF Save
<1>2. work'.state = "Prune" /\ work'.cache = {}
  BY <1>1 DEF NoWork
<1>3. staged = b /\ Done = Effects(b) /\ work.record = Effects(b) /\ work.cache = {}
  BY <1>1, InProgressFacts, NoWorkFacts DEF Ready, CInv, StageReached
<1>4. Tip' = Tip /\ Indexed' = Indexed /\ NextHeight' = NextHeight
  BY <1>1 DEF Tip, Indexed, NextHeight
<1>5. Accounted'
  <2>1. Done' = Effects(b)
    BY <1>1, <1>2 DEF Done, Effects, Pieces
  <2>. QED BY <1>1, <1>2, <1>3, <1>4, <2>1 DEF CInv, Accounted
<1>6. Anchored'
  BY <1>1, <1>4 DEF Ready, Anchored
<1>7. StageReached'
  <2>1. NextHeight \in DOMAIN records' /\ records'[NextHeight] = Effects(b)
    BY <1>1, <1>3 DEF Put
  <2>. QED BY <1>1, <1>2, <1>4, <2>1 DEF StageReached, CursorAgrees, Effects, Pieces
<1>8. NothingInProgress'
  BY <1>1, RescheduleIdle DEF IInv
<1>9. RecordsUndo'
  BY <1>1, NextIsNew DEF CInv, RecordsUndo, Put, Effects, Pieces
<1>. QED BY <1>5, <1>6, <1>7, <1>8, <1>9 DEF CInv

\* Pruning keeps the header of the tip and the record of the block in progress.
LEMMA PruneContent ==
  ASSUME OneLoop, IInv, CInv, NEW l \in Loops, NEW b, NEW at \in Pieces, Ready(b, at),
         Prune(l, NextHeight, b, at), best' = best
  PROVE  CInv'
<1>. DEFINE old == {k \in DOMAIN records \cup DOMAIN headers : k <= NextHeight - MaxDepth}
<1>1. /\ UNCHANGED <<db, utxo>> /\ staged' = b /\ work.state = "Prune"
      /\ records' = Drop(records, old) /\ headers' = Drop(headers, old)
      /\ work' = [NoWork EXCEPT !.state = "Cleanup"] /\ Reschedule(l, "Cleanup")
  BY DEF Prune
<1>2. work'.state = "Cleanup" /\ work'.cache = {}
  BY <1>1 DEF NoWork
<1>3. /\ staged = b /\ Done = Effects(b) /\ work.cache = {}
      /\ NextHeight \in DOMAIN records /\ records[NextHeight] = Effects(b)
  BY <1>1, InProgressFacts, NoWorkFacts DEF Ready, CInv, StageReached
<1>4. Tip' = Tip /\ Indexed' = Indexed /\ NextHeight' = NextHeight
  <2>1. \A k \in DOMAIN headers : k \in old <=> k <= NextIn(headers) - MaxDepth
    BY DEF NextHeight
  <2>2. TipIn(headers') = TipIn(headers) /\ NextIn(headers') = NextIn(headers)
    <3>. HIDE DEF old
    <3>. QED BY <1>1, <2>1, DropOld DEF IInv
  <2>. QED BY <2>2 DEF Tip, NextHeight, Indexed
<1>5. Accounted'
  <2>1. Done' = Effects(b)
    BY <1>1, <1>2 DEF Done, Effects, Pieces
  <2>. QED BY <1>1, <1>2, <1>3, <1>4, <2>1 DEF CInv, Accounted
<1>6. Anchored'
  BY <1>1, <1>4 DEF Ready, Anchored
<1>7. StageReached'
  <2>1. NextHeight \notin old
    BY NextIsNew, DepthAssumption
  <2>2. NextHeight \in DOMAIN records' /\ records'[NextHeight] = Effects(b)
    BY <1>1, <1>3, <2>1 DEF Drop
  <2>. QED BY <1>1, <1>2, <1>4, <2>2 DEF StageReached, CursorAgrees, Effects, Pieces
<1>8. NothingInProgress'
  BY <1>1, RescheduleIdle DEF IInv
<1>9. RecordsUndo'
  <2>1. \A h \in DOMAIN headers' :
          /\ h \in DOMAIN headers /\ h \notin old /\ headers'[h] = headers[h]
    BY <1>1 DEF Drop
  <2>2. \A h \in DOMAIN headers' : h \in DOMAIN records' /\ records'[h] = records[h]
    BY <1>1, <2>1 DEF Drop, CInv, RecordsUndo
  <2>. HIDE DEF old
  <2>. QED BY <2>1, <2>2 DEF CInv, RecordsUndo, Effects, Pieces
<1>. QED BY <1>5, <1>6, <1>7, <1>8, <1>9 DEF CInv

\* The header makes the staged block part of what is indexed.
LEMMA CleanupContent ==
  ASSUME OneLoop, IInv, CInv, NEW l \in Loops, NEW b, NEW at \in Pieces, Ready(b, at),
         Cleanup(l, NextHeight, b, at), best' = best
  PROVE  CInv'
<1>1. /\ UNCHANGED <<records, db, utxo>> /\ staged' = NoBlock /\ work' = NoWork
      /\ headers' = Put(headers, NextHeight, b)
      /\ work.state = "Cleanup" /\ Reschedule(l, "End")
  BY DEF Cleanup
<1>2. /\ staged = b /\ Done = Effects(b) /\ work.cache = {}
      /\ NextHeight \in DOMAIN records /\ records[NextHeight] = Effects(b)
  BY <1>1, InProgressFacts, NoWorkFacts DEF Ready, CInv, StageReached
<1>3. Tip' = b
  BY <1>1, PutExtends DEF IInv, Tip, Ready, NextHeight
<1>4. Indexed' = Indexed \cup Effects(b)
  <2>1. Lineage[b] = {b} \cup (IF Prev[b] = NoBlock THEN {} ELSE Lineage[Prev[b]])
    BY LineageAssumption DEF Ready
  <2>2. Indexed' = Lineage[b] \X Pieces
    BY <1>3, NoBlockAssumption DEF Indexed, Ready, Pieces
  <2>3. Indexed = (IF Prev[b] = NoBlock THEN {} ELSE Lineage[Prev[b]]) \X Pieces
    BY DEF Indexed, Ready
  <2>4. \A A, B : (A \cup B) \X Pieces = (B \X Pieces) \cup (A \X Pieces)
    OBVIOUS
  <2>. QED BY <2>1, <2>2, <2>3, <2>4 DEF Effects
<1>5. Accounted'
  BY <1>1, <1>2, <1>4, NoWorkFacts DEF CInv, Accounted, Done
<1>6. Anchored' /\ StageReached'
  BY <1>1, NoWorkFacts DEF Anchored, StageReached, CursorAgrees
<1>7. NothingInProgress'
  BY <1>1, RescheduleIdle DEF IInv
<1>8. RecordsUndo'
  BY <1>1, <1>2 DEF CInv, RecordsUndo, Put, Effects, Pieces
<1>. QED BY <1>5, <1>6, <1>7, <1>8 DEF CInv

\* Nothing but the loop, or Bitcoin's chain above what is in progress, moved.
LEMMA TablesUnchanged ==
  ASSUME CInv, UNCHANGED <<headers, records, db, utxo, staged, cursor, work>>,
         NothingInProgress', work # NoWork => staged \in Lineage[best']
  PROVE  CInv'
<1>1. Tip' = Tip /\ NextHeight' = NextHeight /\ Indexed' = Indexed
  BY DEF Tip, NextHeight, Indexed
<1>. QED BY <1>1 DEF CInv, Anchored, Accounted, Done, StageReached, CursorAgrees,
                     RecordsUndo, Effects, Pieces

LEMMA IndexBlockContent ==
  ASSUME OneLoop, IInv, CInv, NEW l \in Loops, NEW b, NEW at \in Pieces, Ready(b, at),
         IndexBlock(l, NextHeight, b, at), best' = best
  PROVE  CInv'
<1>1. CASE InputsMissing(l, b)
  <2>1. UNCHANGED <<headers, records, db, utxo, staged, cursor, work>>
    BY <1>1 DEF InputsMissing, index
  <2>2. NothingInProgress'
    BY <1>1, DieIdle DEF InputsMissing, IInv
  <2>. QED BY <2>1, <2>2, TablesUnchanged DEF CInv, Anchored
<1>. QED BY <1>1, IndexContent, CommitContent, SaveContent, PruneContent, CleanupContent
         DEF IndexBlock

-----------------------------------------------------------------------------
(* Reorganizations *)

\* The search begins or goes on with no block in progress.
LEMMA CheckAncestorContent ==
  ASSUME OneLoop, IInv, NEW l \in Loops, NEW h, NEW d, CheckAncestor(l, h, d),
         work' = NoWork
  PROVE  NothingInProgress'
<1>1. CASE Die(l)
  BY <1>1, DieIdle DEF IInv
<1>2. CASE loop' = [loop EXCEPT ![l] =
             [Dead EXCEPT !.pc = "ancestor", !.height = h, !.depth = d,
                          !.block = headers[h - d]]]
  <2>. DEFINE r == [Dead EXCEPT !.pc = "ancestor", !.height = h, !.depth = d,
                                !.block = headers[h - d]]
  <2>1. r.pc = "ancestor"
    BY DEF Dead
  <2>2. \A m \in Loops : loop'[m] = r
    BY <1>2 DEF OneLoop, IInv, TypeOK
  <2>. HIDE DEF r
  <2>. QED BY <2>1, <2>2 DEF NothingInProgress
<1>. QED BY <1>1, <1>2 DEF CheckAncestor

\* A block that contradicts the tip comes when none is in progress.
LEMMA DetectReorgContent ==
  ASSUME OneLoop, IInv, CInv, NEW l \in Loops, NEW b \in Blocks, Height[b] = NextHeight,
         b \in Lineage[best], NEW at \in Pieces,
         work # NoWork => staged = b,
         work.state = "Index" => work.record = {b} \X (0 .. at - 1),
         DetectReorg(l, NextHeight, Tip, b, at), best' = best
  PROVE  CInv'
<1>1. CASE Tip \in {NoBlock, Prev[b]} /\ IndexBlock(l, NextHeight, b, at)
  <2>1. Prev[b] = Tip
    BY <1>1, Extends DEF IInv, Chained, Tip, NextHeight
  <2>. QED BY <1>1, <2>1, IndexBlockContent DEF Ready
<1>2. CASE /\ Tip \notin {NoBlock, Prev[b]}
           /\ CheckAncestor(l, NextHeight, 1)
           /\ staged' = b /\ cursor' = at /\ UNCHANGED <<index, work>>
  <2>1. work = NoWork
    BY <1>2 DEF CInv, Anchored
  <2>2. UNCHANGED <<headers, records, db, utxo, work>> /\ staged' = b /\ cursor' = at
    BY <1>2 DEF index
  <2>3. Tip' = Tip /\ NextHeight' = NextHeight /\ Indexed' = Indexed
    BY <2>2 DEF Tip, NextHeight, Indexed
  <2>4. Accounted' /\ Anchored' /\ RecordsUndo'
    BY <2>1, <2>2, <2>3, NoWorkFacts
       DEF CInv, Accounted, Done, Anchored, RecordsUndo, Effects, Pieces
  <2>5. StageReached'
    <3>1. b # NoBlock /\ work.state = "Index"
      BY <2>1, NoBlockAssumption, NoWorkFacts
    <3>. QED BY <2>1, <2>2, <3>1, NoWorkFacts DEF StageReached, CursorAgrees
  <2>6. NothingInProgress'
    BY <1>2, <2>1, <2>2, CheckAncestorContent
  <2>. QED BY <2>4, <2>5, <2>6 DEF CInv
<1>. QED BY <1>1, <1>2 DEF DetectReorg

\* The blocks of a chain above one of its blocks are those at greater heights.
LEMMA LineageSplit ==
  ASSUME NEW t \in Blocks, NEW a \in Lineage[t]
  PROVE  Lineage[a] = {c \in Lineage[t] : Height[c] <= Height[a]}
<1>1. a \in Blocks /\ Lineage[a] \subseteq Lineage[t] /\ Lineage[t] \subseteq Blocks
  BY LineageAssumption
<1>2. \A c \in Lineage[a] : Height[c] <= Height[a]
  BY <1>1, LineageAssumption
<1>3. ASSUME NEW c \in Lineage[t], Height[c] <= Height[a]
      PROVE  c \in Lineage[a]
  <2>1. Height[c] \in 0..Height[a]
    BY <1>1, <1>3, TreeAssumption
  <2>2. PICK e \in Lineage[a] : Height[e] = Height[c]
    BY <1>1, <2>1, LineageAssumption
  <2>. QED BY <1>1, <2>2, LineageAssumption
<1>. QED BY <1>1, <1>2, <1>3

\* Undoing the blocks above the common ancestor takes exactly their effects out
\* of both tables.
LEMMA HandleReorgContent ==
  ASSUME OneLoop, IInv, CInv, NEW l \in Loops, NEW d \in 1..MaxDepth,
         NextHeight - d \in DOMAIN headers, work = NoWork,
         HandleReorg(NextHeight, d), Reschedule(l, "End"), best' = best
  PROVE  CInv'
<1>. DEFINE m == NextHeight - d
            dropped == m + 1 .. NextHeight - 1
            undone == UNION {records[k] : k \in dropped \cap DOMAIN records}
            Removed == {c \in Lineage[Tip] : Height[c] > m}
<1>1. /\ db' = db \ undone /\ utxo' = utxo \ undone
      /\ headers' = Drop(headers, dropped) /\ records' = Drop(records, dropped)
      /\ UNCHANGED <<staged, cursor, work>>
  BY DEF HandleReorg
<1>2. PICK lo, hi \in Nat :
        /\ lo <= hi /\ DOMAIN headers = lo..hi /\ Tip = headers[hi] /\ Tip \in Blocks
        /\ Height[Tip] = hi /\ NextHeight = hi + 1
  BY Shape DEF IInv, Chained, Tip, NextHeight
<1>3. m \in lo..hi /\ dropped = m + 1 .. hi /\ \A k \in dropped : k \in lo..hi
  BY <1>2
<1>4. Tip' = headers[m]
  BY <1>1, DropTop DEF IInv, Tip, NextHeight
<1>5. headers[m] \in Lineage[Tip] /\ Height[headers[m]] = m /\ headers[m] \in Blocks
  <2>1. headers[m] \in Lineage[Tip]
    BY <1>2, <1>3 DEF IInv, Chained
  <2>. QED BY <2>1, <1>2, <1>3 DEF IInv, Chained, Linked, Maps
<1>6. \A k \in dropped : /\ k \in DOMAIN records /\ records[k] = Effects(headers[k])
                         /\ headers[k] \in Removed
  <2>. SUFFICES ASSUME NEW k \in dropped
                PROVE  /\ k \in DOMAIN records /\ records[k] = Effects(headers[k])
                       /\ headers[k] \in Removed
    OBVIOUS
  <2>1. k \in DOMAIN headers /\ k \in Nat /\ k > m /\ k <= hi
    BY <1>2, <1>3
  <2>2. Height[headers[k]] = k /\ headers[k] \in Lineage[Tip]
    BY <1>2, <2>1 DEF IInv, Chained, Linked
  <2>. QED BY <2>1, <2>2 DEF CInv, RecordsUndo
<1>7. \A c \in Removed : \E k \in dropped : c = headers[k]
  <2>. SUFFICES ASSUME NEW c \in Removed PROVE \E k \in dropped : c = headers[k]
    OBVIOUS
  <2>1. c \in Lineage[Tip] /\ Height[c] > m /\ Height[c] <= hi /\ Height[c] \in Nat
    <3>1. c \in Lineage[Tip] /\ Height[c] > m
      OBVIOUS
    <3>2. Height[c] <= hi
      BY <1>2, <3>1, LineageAssumption
    <3>3. c \in Blocks
      BY <1>2, <3>1, LineageAssumption
    <3>. QED BY <3>1, <3>2, <3>3, TreeAssumption
  <2>2. Height[c] \in dropped
    <3>1. m \in Int /\ dropped = m + 1 .. hi
      BY <1>2, <1>3
    <3>. HIDE DEF m, dropped
    <3>. QED BY <1>2, <2>1, <3>1
  <2>3. headers[Height[c]] \in Lineage[Tip] /\ Height[headers[Height[c]]] = Height[c]
    BY <1>3, <1>6, <2>2, <1>2 DEF IInv, Chained, Linked
  <2>4. headers[Height[c]] = c
    BY <1>2, <2>1, <2>3, LineageAssumption
  <2>. QED BY <2>2, <2>4
<1>8. undone = Removed \X Pieces
  <2>. HIDE DEF dropped, Removed
  <2>1. undone \subseteq Removed \X Pieces
    BY <1>6 DEF Effects
  <2>2. Removed \X Pieces \subseteq undone
    <3>. SUFFICES ASSUME NEW c \in Removed, NEW u \in Pieces PROVE <<c, u>> \in undone
      OBVIOUS
    <3>1. PICK k \in dropped : c = headers[k]
      BY <1>7
    <3>2. <<c, u>> \in records[k]
      BY <1>6, <3>1 DEF Effects
    <3>. QED BY <1>6, <3>2
  <2>. QED BY <2>1, <2>2
<1>9. Indexed' = Indexed \ undone
  <2>1. Lineage[headers[m]] = {c \in Lineage[Tip] : Height[c] <= Height[headers[m]]}
    BY <1>2, <1>5, LineageSplit
  <2>2. \A c \in Lineage[Tip] : Height[c] \in Nat
    BY <1>2, LineageAssumption, TreeAssumption
  <2>3. Lineage[headers[m]] = Lineage[Tip] \ Removed
    BY <1>2, <1>3, <1>5, <2>1, <2>2
  <2>4. Indexed' = Lineage[headers[m]] \X Pieces
    BY <1>4, <1>5, NoBlockAssumption DEF Indexed, Pieces
  <2>5. Indexed = Lineage[Tip] \X Pieces
    BY <1>2, NoBlockAssumption DEF Indexed
  <2>6. \A A, B : (A \X Pieces) \ (B \X Pieces) = (A \ B) \X Pieces
    OBVIOUS
  <2>. HIDE DEF undone, Removed
  <2>. QED BY <1>8, <2>3, <2>4, <2>5, <2>6
<1>10. Accounted'
  <2>. HIDE DEF undone
  <2>1. db = Indexed /\ utxo = Indexed
    BY NoWorkFacts DEF CInv, Accounted, Done
  <2>2. work'.state = "Index" /\ work'.record = {} /\ work'.cache = {}
    BY <1>1, NoWorkFacts
  <2>. QED BY <1>1, <1>9, <2>1, <2>2 DEF Accounted, Done
<1>11. Anchored' /\ StageReached'
  BY <1>1, NoWorkFacts DEF CInv, Anchored, StageReached, CursorAgrees
<1>12. NothingInProgress'
  BY RescheduleIdle DEF IInv
<1>13. RecordsUndo'
  <2>. HIDE DEF dropped
  <2>1. \A h \in DOMAIN headers' :
          /\ h \in DOMAIN headers /\ h \notin dropped /\ headers'[h] = headers[h]
    BY <1>1 DEF Drop
  <2>2. \A h \in DOMAIN headers' : h \in DOMAIN records' /\ records'[h] = records[h]
    BY <1>1, <2>1 DEF Drop, CInv, RecordsUndo
  <2>. QED BY <2>1, <2>2 DEF CInv, RecordsUndo, Effects, Pieces
<1>. QED BY <1>10, <1>11, <1>12, <1>13 DEF CInv

-----------------------------------------------------------------------------
(* The messages *)

LEMMA GiveUpContent ==
  ASSUME OneLoop, IInv, CInv, NEW l \in Loops, GiveUp(l), best' = best
  PROVE  CInv'
<1>1. UNCHANGED <<headers, records, db, utxo, staged, cursor, work>>
  BY DEF GiveUp, index
<1>2. NothingInProgress'
  BY RescheduleIdle DEF GiveUp, IInv
<1>. QED BY <1>1, <1>2, TablesUnchanged DEF CInv, Anchored

LEMMA FireContent ==
  ASSUME OneLoop, IInv, CInv, NEW l \in Loops, Fire(l)
  PROVE  CInv'
<1>1. best' = best
  BY DEF Fire
<1>2. CASE /\ loop' = [loop EXCEPT ![l] =
               [Dead EXCEPT !.pc = "hash", !.height = NextHeight, !.prev = Tip]]
           /\ UNCHANGED <<index, staged, cursor, work>>
  <2>1. UNCHANGED <<headers, records, db, utxo, staged, cursor, work>>
    BY <1>2 DEF index
  <2>2. \A m \in Loops : loop'[m].pc = "hash"
    BY <1>2 DEF OneLoop, IInv, TypeOK, Dead
  <2>3. NothingInProgress'
    BY <2>2 DEF NothingInProgress
  <2>. QED BY <1>1, <2>1, <2>3, TablesUnchanged DEF CInv, Anchored
<1>3. CASE GiveUp(l)
  BY <1>1, <1>3, GiveUpContent
<1>4. CASE /\ loop[l].next \notin {"End", "Index"}
           /\ IndexBlock(l, NextHeight, staged, cursor)
  <2>1. work.state = loop[l].next
    BY <1>4 DEF Fire, IInv, RoundsAgree, RoundAgrees
  <2>2. Ready(staged, cursor)
    BY <1>4, <2>1, InProgressFacts DEF Ready
  <2>3. cursor \in Pieces
    BY DEF IInv, TypeOK
  <2>. QED BY <1>1, <1>4, <2>2, <2>3, IndexBlockContent
<1>. QED BY <1>2, <1>3, <1>4 DEF Fire

\* The look-up in the middle of a block finds the staged block again.
LEMMA HashFoundContent ==
  ASSUME OneLoop, IInv, CInv, NEW l \in Loops, HashFound(l)
  PROVE  CInv'
<1>. DEFINE h == loop[l].height
            b == AtHeight(best, h)
<1>1. best' = best
  BY DEF HashFound
<1>2. loop[l].height = NextHeight /\ loop[l].prev = Tip
  BY DEF HashFound, IInv, RoundsAgree, RoundAgrees
<1>3. b \in Lineage[best] /\ b \in Blocks /\ Height[b] = NextHeight
  <2>1. h \in 0..Height[best] /\ best \in Blocks
    BY <1>2, HeadersInNat, TreeAssumption DEF HashFound, IInv, TypeOK
  <2>2. \E a \in Lineage[best] : Height[a] = h
    BY <2>1, LineageAssumption
  <2>3. b \in Lineage[best] /\ Height[b] = h
    BY <2>2 DEF AtHeight
  <2>. QED BY <1>2, <2>1, <2>3, LineageAssumption
<1>4. work # NoWork => staged = b
  <2>. SUFFICES ASSUME work # NoWork PROVE staged = b
    OBVIOUS
  <2>1. staged \in Blocks /\ Prev[staged] = Tip /\ staged \in Lineage[best]
    BY DEF CInv, Anchored
  <2>2. Height[staged] = NextHeight
    BY <2>1, ExtensionHeight DEF IInv, Chained, Tip, NextHeight
  <2>3. best \in Blocks
    BY DEF IInv, TypeOK
  <2>. HIDE DEF b
  <2>. QED BY <1>3, <2>1, <2>2, <2>3, LineageAssumption
<1>. HIDE DEF b
<1>5. CASE staged = b /\ DetectReorg(l, h, loop[l].prev, b, cursor)
  <2>1. cursor \in Pieces /\ DetectReorg(l, NextHeight, Tip, b, cursor)
    BY <1>2, <1>5 DEF IInv, TypeOK
  <2>2. work.state = "Index" => work.record = {b} \X (0 .. cursor - 1)
    BY <1>3, <1>5, NoBlockAssumption DEF CInv, StageReached, CursorAgrees
  <2>. QED BY <1>1, <1>3, <1>4, <2>1, <2>2, DetectReorgContent
<1>6. CASE /\ staged # b
           /\ loop' = [loop EXCEPT ![l].pc = "block", ![l].block = b]
           /\ UNCHANGED <<index, staged, cursor, work>>
  <2>1. UNCHANGED <<headers, records, db, utxo, staged, cursor, work>>
    BY <1>6 DEF index
  <2>2. \A m \in Loops : loop'[m].pc = "block" /\ loop'[m].block = b
    BY <1>6 DEF OneLoop, IInv, TypeOK, Rounds
  <2>3. NothingInProgress'
    BY <1>1, <1>3, <1>4, <1>6, <2>1, <2>2 DEF NothingInProgress
  <2>. QED BY <1>1, <2>1, <2>3, TablesUnchanged DEF CInv, Anchored
<1>. QED BY <1>5, <1>6 DEF HashFound, b

LEMMA BlockFetchedContent ==
  ASSUME OneLoop, IInv, CInv, NEW l \in Loops, BlockFetched(l)
  PROVE  CInv'
<1>1. best' = best
  BY DEF BlockFetched
<1>2. /\ loop[l].height = NextHeight /\ loop[l].prev = Tip
      /\ loop[l].block \in Blocks /\ Height[loop[l].block] = NextHeight
  BY DEF BlockFetched, IInv, RoundsAgree, RoundAgrees
<1>3. work = NoWork /\ loop[l].block \in Lineage[best]
  BY DEF BlockFetched, CInv, NothingInProgress
<1>4. 0 \in Pieces
  BY UnitsAssumption DEF Pieces
<1>5. DetectReorg(l, NextHeight, Tip, loop[l].block, 0)
  BY <1>2 DEF BlockFetched
<1>6. work.record = {loop[l].block} \X (0 .. 0 - 1)
  <2>1. 0 .. 0 - 1 = {}
    OBVIOUS
  <2>. QED BY <1>3, <2>1, NoWorkFacts
<1>. QED BY <1>1, <1>2, <1>3, <1>4, <1>5, <1>6, DetectReorgContent

LEMMA AncestorFoundContent ==
  ASSUME OneLoop, IInv, CInv, NEW l \in Loops, AncestorFound(l)
  PROVE  CInv'
<1>. DEFINE h == loop[l].height
            d == loop[l].depth
<1>1. best' = best
  BY DEF AncestorFound
<1>2. h = NextHeight /\ d \in 1..MaxDepth /\ h - d \in DOMAIN headers
  BY DEF AncestorFound, IInv, RoundsAgree, RoundAgrees
<1>3. work = NoWork
  BY DEF AncestorFound, CInv, NothingInProgress
<1>4. CASE HandleReorg(h, d) /\ Reschedule(l, "End")
  BY <1>1, <1>2, <1>3, <1>4, HandleReorgContent
<1>5. CASE CheckAncestor(l, h, d + 1) /\ UNCHANGED <<index, staged, cursor, work>>
  <2>1. UNCHANGED <<headers, records, db, utxo, staged, cursor, work>>
    BY <1>5 DEF index
  <2>2. NothingInProgress'
    BY <1>3, <1>5, <2>1, CheckAncestorContent
  <2>. QED BY <1>1, <2>1, <2>2, TablesUnchanged DEF CInv, Anchored
<1>. QED BY <1>4, <1>5 DEF AncestorFound

\* Only NewBest and Upgrade need reorgs and upgrades to come between blocks.
LEMMA NewBestContent ==
  ASSUME BetweenBlocks, IInv, CInv, NewBest
  PROVE  CInv'
<1>1. /\ UNCHANGED <<headers, records, db, utxo, staged, cursor, work, loop>>
      /\ InProgress \subseteq Lineage[best']
  BY DEF NewBest, index, BetweenBlocks
<1>2. NothingInProgress'
  <2>1. \A l \in Loops : loop[l].pc = "block" => loop[l].block \in Lineage[best']
    BY <1>1 DEF InProgress
  <2>. QED BY <1>1, <2>1 DEF CInv, NothingInProgress
<1>3. work # NoWork => staged \in Lineage[best']
  BY <1>1 DEF InProgress
<1>. QED BY <1>1, <1>2, <1>3, TablesUnchanged

LEMMA UpgradeContent ==
  ASSUME BetweenBlocks, IInv, CInv, Upgrade
  PROVE  CInv'
<1>1. /\ UNCHANGED <<best, headers, records, db, utxo, staged, cursor>>
      /\ work = NoWork /\ work' = NoWork /\ loop' = [l \in Loops |-> Dead]
  BY DEF Upgrade, index, BetweenBlocks
<1>2. NothingInProgress'
  BY <1>1 DEF NothingInProgress, Dead
<1>. QED BY <1>1, <1>2, TablesUnchanged

LEMMA StepCInv ==
  ASSUME OneLoop, BetweenBlocks, IInv, CInv, [Next]_vars
  PROVE  CInv'
<1>1. CASE UNCHANGED vars
  <2>1. UNCHANGED <<best, headers, records, db, utxo, staged, cursor, work, loop>>
    BY <1>1 DEF vars, index
  <2>2. NothingInProgress'
    BY <2>1 DEF CInv, NothingInProgress
  <2>. QED BY <2>1, <2>2, TablesUnchanged DEF CInv, Anchored
<1>2. ASSUME NEW l \in Loops, Round(l)
      PROVE  CInv'
  <2>1. CASE Fire(l)
    BY <2>1, FireContent
  <2>2. CASE HashFound(l)
    BY <2>2, HashFoundContent
  <2>3. CASE HashUnavailable(l)
    BY <2>3, GiveUpContent DEF HashUnavailable
  <2>4. CASE BlockFetched(l)
    BY <2>4, BlockFetchedContent
  <2>5. CASE BlockUnavailable(l)
    BY <2>5, GiveUpContent DEF BlockUnavailable
  <2>6. CASE AncestorFound(l)
    BY <2>6, AncestorFoundContent
  <2>7. CASE AncestorUnavailable(l)
    BY <2>7, GiveUpContent DEF AncestorUnavailable
  <2>. QED BY <1>2, <2>1, <2>2, <2>3, <2>4, <2>5, <2>6, <2>7 DEF Round
<1>3. ASSUME NEW l \in Loops, Trap(l)
      PROVE  CInv'
  <2>1. UNCHANGED <<best, headers, records, db, utxo, staged, cursor, work>>
    BY <1>3 DEF Trap, index
  <2>2. NothingInProgress'
    BY <1>3, DieIdle DEF Trap, IInv
  <2>. QED BY <2>1, <2>2, TablesUnchanged DEF CInv, Anchored
<1>4. ASSUME NEW l \in Loops, Start(l)
      PROVE  CInv'
  <2>1. UNCHANGED <<best, headers, records, db, utxo, staged, cursor, work>>
    BY <1>4 DEF Start, index
  <2>2. NothingInProgress'
    BY <1>4, SleepIdle DEF Start, IInv
  <2>. QED BY <2>1, <2>2, TablesUnchanged DEF CInv, Anchored
<1>5. CASE Stop
  <2>1. UNCHANGED <<best, headers, records, db, utxo, staged, cursor, work, loop>>
    BY <1>5 DEF Stop, index
  <2>2. NothingInProgress'
    BY <2>1 DEF CInv, NothingInProgress
  <2>. QED BY <2>1, <2>2, TablesUnchanged DEF CInv, Anchored
<1>6. CASE Upgrade
  BY <1>6, UpgradeContent
<1>7. CASE NewBest
  BY <1>7, NewBestContent
<1>. QED BY <1>1, <1>2, <1>3, <1>4, <1>5, <1>6, <1>7 DEF Next

-----------------------------------------------------------------------------
(* How an execution that runs a stage may end the loop *)

\* Only between two blocks does a loop end because it was asked to.
LEMMA RescheduleEnds ==
  ASSUME TypeOK, NEW l \in Loops, NEW s, Reschedule(l, s), loop'[l].pc = "dead"
  PROVE  s = "End"
<1>1. CASE Sleep(l, s)
  <2>1. loop'[l] = [Dead EXCEPT !.pc = "timer", !.next = s]
    BY <1>1 DEF Sleep, TypeOK
  <2>. QED BY <2>1 DEF Dead
<1>. QED BY <1>1 DEF Reschedule

\* A stage that ends the loop is the last one.
LEMMA IndexBlockEnds ==
  ASSUME TypeOK, NEW l \in Loops, NEW h, NEW b, NEW at, IndexBlock(l, h, b, at),
         loop'[l].pc = "dead"
  PROVE  work' = NoWork
<1>1. CASE IndexUtxoEntries(l, b, at)
  <2>1. \E s \in {"Index", "Commit"} : Reschedule(l, s)
    BY <1>1 DEF IndexUtxoEntries
  <2>. QED BY <2>1, RescheduleEnds
<1>2. CASE Commit(l, b, at)
  <2>1. \E s \in {"Commit", "Save"} : Reschedule(l, s)
    BY <1>2 DEF Commit
  <2>. QED BY <2>1, RescheduleEnds
<1>3. CASE Save(l, h, b, at)
  BY <1>3, RescheduleEnds DEF Save
<1>4. CASE Prune(l, h, b, at)
  BY <1>4, RescheduleEnds DEF Prune
<1>5. CASE Cleanup(l, h, b, at)
  BY <1>5 DEF Cleanup
<1>6. CASE InputsMissing(l, b)
  BY <1>6 DEF InputsMissing, InputsGone
<1>. QED BY <1>1, <1>2, <1>3, <1>4, <1>5, <1>6 DEF IndexBlock

\* An unrecoverable reorg ends the loop too, with no block in progress.
LEMMA DetectReorgEnds ==
  ASSUME TypeOK, CInv, NEW l \in Loops, NEW h, NEW b, NEW at,
         work # NoWork => staged = b,
         DetectReorg(l, h, Tip, b, at), loop'[l].pc = "dead"
  PROVE  work' = NoWork
<1>1. CASE IndexBlock(l, h, b, at)
  BY <1>1, IndexBlockEnds
<1>2. CASE Tip \notin {NoBlock, Prev[b]} /\ UNCHANGED work
  BY <1>2 DEF CInv, Anchored
<1>. QED BY <1>1, <1>2 DEF DetectReorg

LEMMA FireEnds ==
  ASSUME IInv, CInv, NEW l \in Loops, Fire(l), loop'[l].pc = "dead"
  PROVE  work' = NoWork
<1>1. CASE loop' = [loop EXCEPT ![l] =
             [Dead EXCEPT !.pc = "hash", !.height = NextHeight, !.prev = Tip]]
  <2>1. loop'[l] = [Dead EXCEPT !.pc = "hash", !.height = NextHeight, !.prev = Tip]
    BY <1>1 DEF IInv, TypeOK
  <2>. QED BY <2>1 DEF Dead
<1>2. CASE loop[l].next \notin {"End", "Index"} /\ staged = NoBlock
  BY <1>2, NoBlockAssumption DEF Fire, IInv, RoundsAgree, RoundAgrees
<1>3. CASE IndexBlock(l, NextHeight, staged, cursor)
  BY <1>3, IndexBlockEnds DEF IInv
<1>. QED BY <1>1, <1>2, <1>3 DEF Fire

LEMMA HashFoundEnds ==
  ASSUME IInv, CInv, NEW l \in Loops, HashFound(l), loop'[l].pc = "dead"
  PROVE  work' = NoWork
<1>. DEFINE h == loop[l].height
            b == AtHeight(best, h)
<1>1. loop[l].prev = Tip
  BY DEF HashFound, IInv, RoundsAgree, RoundAgrees
<1>2. CASE staged = b /\ DetectReorg(l, h, loop[l].prev, b, cursor)
  <2>. HIDE DEF h, b
  <2>. QED BY <1>1, <1>2, DetectReorgEnds DEF IInv
<1>3. CASE loop' = [loop EXCEPT ![l].pc = "block", ![l].block = b]
  BY <1>3 DEF IInv, TypeOK, Rounds
<1>. QED BY <1>2, <1>3 DEF HashFound

LEMMA BlockFetchedEnds ==
  ASSUME IInv, CInv, NEW l \in Loops, BlockFetched(l), loop'[l].pc = "dead"
  PROVE  work' = NoWork
<1>1. loop[l].prev = Tip
  BY DEF BlockFetched, IInv, RoundsAgree, RoundAgrees
<1>2. work = NoWork
  BY DEF BlockFetched, CInv, NothingInProgress
<1>. QED BY <1>1, <1>2, DetectReorgEnds DEF BlockFetched, IInv

LEMMA AncestorFoundEnds ==
  ASSUME CInv, NEW l \in Loops, AncestorFound(l)
  PROVE  work' = NoWork
  BY DEF AncestorFound, HandleReorg, CInv, NothingInProgress

LEMMA StageEnds ==
  ASSUME IInv, CInv, NEW l \in Loops,
         Fire(l) \/ HashFound(l) \/ BlockFetched(l) \/ AncestorFound(l),
         loop[l].pc # "dead", loop'[l].pc = "dead"
  PROVE  work' = NoWork
  BY FireEnds, HashFoundEnds, BlockFetchedEnds, AncestorFoundEnds

-----------------------------------------------------------------------------
(* A block in progress until its header is entered *)

\* What a stage may do to the block in progress.
Kept == \/ work' # NoWork /\ staged' = staged
        \/ work' = NoWork /\ Tip' = staged

LEMMA IndexBlockKeeps ==
  ASSUME IInv, NEW l \in Loops, NEW b \in Blocks, NEW at \in Pieces, Prev[b] = Tip,
         staged = b, work # NoWork, IndexBlock(l, NextHeight, b, at)
  PROVE  Kept
<1>1. CASE IndexUtxoEntries(l, b, at)
  <2>1. PICK n \in at + 1 .. Units : work'.record = work.record \cup ({b} \X (at .. n - 1))
    BY <1>1, EndsFacts DEF IndexUtxoEntries
  <2>2. at \in at .. n - 1
    BY DEF Pieces
  <2>3. <<b, at>> \in work'.record
    BY <2>1, <2>2
  <2>4. work' # NoWork
    BY <2>3 DEF NoWork
  <2>. QED BY <1>1, <2>4 DEF IndexUtxoEntries, Kept
<1>2. CASE Commit(l, b, at)
  <2>1. work'.state \in {"Commit", "Save"} /\ staged' = b
    BY <1>2 DEF Commit, IInv, TypeOK
  <2>. QED BY <2>1 DEF NoWork, Kept
<1>3. CASE Save(l, NextHeight, b, at)
  <2>1. work'.state = "Prune" /\ staged' = b
    BY <1>3 DEF Save, NoWork
  <2>. QED BY <2>1 DEF NoWork, Kept
<1>4. CASE Prune(l, NextHeight, b, at)
  <2>1. work'.state = "Cleanup" /\ staged' = b
    BY <1>4 DEF Prune, NoWork
  <2>. QED BY <2>1 DEF NoWork, Kept
<1>5. CASE Cleanup(l, NextHeight, b, at)
  <2>1. work' = NoWork /\ headers' = Put(headers, NextHeight, b)
    BY <1>5 DEF Cleanup
  <2>2. Tip' = b
    BY <2>1, PutExtends DEF IInv, Tip, NextHeight
  <2>. QED BY <2>1, <2>2 DEF Kept
<1>6. CASE InputsMissing(l, b)
  BY <1>6 DEF InputsMissing, InputsGone
<1>. QED BY <1>1, <1>2, <1>3, <1>4, <1>5, <1>6 DEF IndexBlock

LEMMA StepKeeps ==
  ASSUME OneLoop, BetweenBlocks, IInv, CInv, [Next]_vars, work # NoWork
  PROVE  Kept
<1>0. staged \in Blocks /\ Prev[staged] = Tip /\ cursor \in Pieces
  BY DEF CInv, Anchored, IInv, TypeOK
<1>a. ASSUME work' = work, staged' = staged PROVE Kept
  BY <1>a DEF Kept
<1>1. ASSUME NEW l \in Loops, Fire(l) PROVE Kept
  BY <1>0, <1>1, <1>a, IndexBlockKeeps DEF Fire, GiveUp
<1>2. ASSUME NEW l \in Loops, HashFound(l) PROVE Kept
  <2>. DEFINE b == AtHeight(best, loop[l].height)
  <2>1. loop[l].height = NextHeight /\ loop[l].prev = Tip
    BY <1>2 DEF HashFound, IInv, RoundsAgree, RoundAgrees
  <2>2. CASE staged = b /\ DetectReorg(l, NextHeight, Tip, b, cursor)
    <3>. HIDE DEF b
    <3>1. IndexBlock(l, NextHeight, staged, cursor)
      BY <2>2, <1>0 DEF DetectReorg
    <3>. QED BY <3>1, <1>0, IndexBlockKeeps
  <2>3. CASE UNCHANGED <<staged, work>>
    BY <2>3, <1>a
  <2>. QED BY <1>2, <2>1, <2>2, <2>3 DEF HashFound
<1>3. ASSUME NEW l \in Loops, loop[l].pc \in {"block", "ancestor"} PROVE FALSE
  BY <1>3 DEF CInv, NothingInProgress
<1>4. ASSUME NEW l \in Loops, Round(l) PROVE Kept
  BY <1>1, <1>2, <1>3, <1>4, <1>a
     DEF Round, HashUnavailable, GiveUp, BlockFetched, BlockUnavailable, AncestorFound,
         AncestorUnavailable
<1>5. CASE \E l \in Loops : Trap(l) \/ Start(l)
  BY <1>5, <1>a DEF Trap, Start
<1>6. CASE Stop \/ NewBest \/ UNCHANGED vars
  BY <1>6, <1>a DEF Stop, NewBest, vars
<1>7. CASE Upgrade
  BY <1>7 DEF Upgrade, BetweenBlocks
<1>. QED BY <1>4, <1>5, <1>6, <1>7 DEF Next

-----------------------------------------------------------------------------
(* The theorems *)

LEMMA ContentInvariance ==
  ASSUME OneLoop, BetweenBlocks PROVE Spec => [](IInv /\ CInv)
<1>1. Init => CInv
  BY InitCInv
<1>2. IInv /\ CInv /\ [Next]_vars => CInv'
  BY StepCInv
<1>. QED BY <1>1, <1>2, Invariance, PTL DEF Spec

\* Between blocks the tables hold the pieces of the indexed chain and no others:
\* breakpoints, commits in parts, traps, restarts, failed calls and rollbacks
\* (updater.rs, reorg.rs) neither lose a piece nor leave one behind.  That a
\* piece is undone as a whole is Updater's abstraction: Inscriptions looks
\* inside, and finds what a record does not restore.
THEOREM TablesMatchChain ==
  ASSUME OneLoop, BetweenBlocks PROVE Spec => []IndexMatchesChain
<1>1. CInv => IndexMatchesChain
  BY NoWorkFacts DEF CInv, Accounted, Done, IndexMatchesChain
<1>. QED BY <1>1, ContentInvariance, PTL

\* Every block a reorg may reach has a change record, which lists the pieces of
\* that block and of no other: handle_reorg never skips a height.
THEOREM EveryBlockUndoable ==
  ASSUME OneLoop, BetweenBlocks PROVE Spec => []RecordsUndo
<1>1. CInv => RecordsUndo
  BY DEF CInv
<1>. QED BY <1>1, ContentInvariance, PTL

\* CURSOR in stable memory and the staged variables on the heap agree on how far
\* a block got, whatever interrupted it.
THEOREM CursorStaysInAgreement ==
  ASSUME OneLoop, BetweenBlocks PROVE Spec => []CursorAgrees
<1>1. CInv => CursorAgrees
  BY DEF CInv, StageReached
<1>. QED BY <1>1, ContentInvariance, PTL

\* A block in progress stays the staged block until its header is entered, over
\* breakpoints, traps, failed calls, stop() and restarts; and an execution that
\* runs a stage, and does not trap, leaves no block half indexed when it ends
\* the loop, wherever stop() came and however deep the reorg it found.
THEOREM StagesFinishTheirBlock ==
  ASSUME OneLoop, BetweenBlocks PROVE Spec => StageFinishesBlock
<1>. DEFINE Whole ==
       /\ work # NoWork => \/ work' # NoWork /\ staged' = staged
                           \/ work' = NoWork /\ Tip' = staged
       /\ \A l \in Loops :
            /\ Fire(l) \/ HashFound(l) \/ BlockFetched(l) \/ AncestorFound(l)
            /\ loop[l].pc # "dead" /\ loop'[l].pc = "dead"
            => work' = NoWork
<1>1. IInv /\ CInv /\ [Next]_vars => Whole
  BY StageEnds, StepKeeps DEF Kept
<1>. QED BY <1>1, ContentInvariance, PTL DEF Spec, StageFinishesBlock

=============================================================================
