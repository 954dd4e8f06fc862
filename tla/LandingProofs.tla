----------------------------- MODULE LandingProofs -----------------------------
(* That every inscription keeps its one place when envelopes and old          *)
(* inscriptions come down on outputs, when blocks are staged, committed and   *)
(* rolled back, and what follows of the tables between two blocks.            *)
EXTENDS PlacesProofs, FiniteSetTheorems

-----------------------------------------------------------------------------
(* What comes down                                                           *)

\* Where: on an outpoint of its own in the cache, or on an output.
Comes(t, f, o, to, place) ==
  /\ place[1] = IF f.new = Absent THEN f.seq ELSE run.next
  /\ IF to \in Special
     THEN /\ staged'.cache = Put(staged.cache, to, Pushed(Cached(staged.cache, to), place))
          /\ tx'.outs = t.outs
     ELSE /\ to = o /\ staged'.cache = staged.cache
          /\ tx'.outs = [t.outs EXCEPT ![o[2]] = Pushed(t.outs[o[2]], place)]

LEMMA SettlePlaces ==
  ASSUME TabOK(tab), StagedOK(staged), RunOK(run),
         NEW t, TxShape(t), NEW f, FlotsamOK(f), NEW o, NEW offset \in Nat, NEW burn,
         Settle(t, f, o, offset, burn)
  PROVE  /\ run'.inscription = run.inscription
         /\ \E cache : IF f.new = Absent THEN Transfers(f, burn, cache) ELSE Inscribes(f, o, burn, cache)
         /\ \E to : \E place \in Nat \X Nat : Comes(t, f, o, to, place)
<1>. DEFINE unbound == IF f.new = Absent THEN FALSE ELSE f.new.unbound
            to == IF unbound THEN Unbound ELSE o
            place == <<IF f.new = Absent THEN f.seq ELSE run.next,
                       IF unbound THEN run.stats.unbound ELSE offset>>
            cache == IF to \in Special
                     THEN Put(staged.cache, to, Pushed(Cached(staged.cache, to), place))
                     ELSE staged.cache
            outs == [t.outs EXCEPT ![to[2]] = Pushed(t.outs[to[2]], place)]
<1>1. /\ IF f.new = Absent THEN Transfer(f, burn, cache) ELSE Inscribe(f, o, burn, cache)
      /\ tx' = IF to \in Special THEN t ELSE [t EXCEPT !.outs = outs]
  BY DEF Settle, Pushed
<1>2. place \in Nat \X Nat /\ place[1] = IF f.new = Absent THEN f.seq ELSE run.next
  <2>1. run.next \in Nat /\ run.stats.unbound \in Nat
    BY DEF RunOK, StatsOK
  <2>2. f.new = Absent => f.seq \in Nat
    BY DEF FlotsamOK
  <2>. QED BY <2>1, <2>2
<1>3. to \notin Special => to = o
  BY DEF Special
<1>. HIDE DEF place, to, unbound
<1>. HIDE DEF cache
<1>4. IF f.new = Absent THEN Transfers(f, burn, cache) ELSE Inscribes(f, o, burn, cache)
  BY <1>1, TransferFacts, InscribeFacts
<1>5. staged'.cache = cache
  BY <1>4 DEF Transfers, Inscribes
<1>. HIDE DEF outs
<1>6. tx'.outs = IF to \in Special THEN t.outs ELSE outs
  BY <1>1 DEF TxShape
<1>7. Comes(t, f, o, to, place)
  BY <1>2, <1>3, <1>5, <1>6 DEF Comes, cache, outs
<1>8. run'.inscription = run.inscription
  <2>1. CASE f.new = Absent
    BY <1>4, <2>1 DEF Transfers
  <2>2. CASE f.new # Absent
    <3>1. Inscribe(f, o, burn, cache)
      BY <1>1, <2>2
    <3>. QED BY <3>1 DEF Inscribe, RunOK, RunShape
  <2>. QED BY <2>1, <2>2
<1>. QED BY <1>2, <1>4, <1>7, <1>8

LEMMA EntryInsSeq == ASSUME NEW e, EntryOK(e) PROVE IsSeq(e.ins)
<1>. DEFINE S == Nat \X Nat
<1>1. e.ins \in Seq(S)
  BY DEF EntryOK
<1>. HIDE DEF S
<1>. QED BY <1>1, SeqOver

LEMMA PushOn ==
  ASSUME NEW e, EntryOK(e), NEW place \in Nat \X Nat, Single(e), Old(place[1]) \notin On(e)
  PROVE  On(Pushed(e, place)) = On(e) \cup {Old(place[1])} /\ Single(Pushed(e, place))
<1>1. IsSeq(e.ins)
  BY EntryInsSeq
<1>. DEFINE ins == Append(e.ins, place)
<1>2. IsAppend(ins, e.ins, place)
  BY <1>1, AppendSeq
<1>. HIDE DEF ins
<1>3. Pushed(e, place).ins = ins
  <2>1. Pushed(e, place) = [e EXCEPT !.ins = ins]
    BY DEF Pushed, ins
  <2>. QED BY <2>1 DEF EntryOK
<1>4. IsAppend(Pushed(e, place).ins, e.ins, place)
  BY <1>2, <1>3
<1>. QED BY <1>1, <1>4, OnAppend

\* The inscription is on one place more, and only there.
LEMMA ComesOn ==
  ASSUME NEW t, NEW f, NEW o, NEW to, NEW place \in Nat \X Nat, Comes(t, f, o, to, place),
         EntriesOK(staged.cache), EntriesOK(t.outs), Spread(staged.cache), Spread(t.outs),
         Old(place[1]) \notin AllOn(staged.cache), Old(place[1]) \notin AllOn(t.outs),
         o \in Special \/ o[2] \in DOMAIN t.outs
  PROVE  /\ Spread(staged'.cache) /\ Spread(tx'.outs) /\ DOMAIN tx'.outs = DOMAIN t.outs
         /\ DOMAIN staged'.cache \subseteq DOMAIN staged.cache \cup Special
         /\ \/ /\ AllOn(staged'.cache) = AllOn(staged.cache) \cup {Old(place[1])}
               /\ AllOn(tx'.outs) = AllOn(t.outs)
            \/ /\ AllOn(staged'.cache) = AllOn(staged.cache)
               /\ AllOn(tx'.outs) = AllOn(t.outs) \cup {Old(place[1])}
<1>. DEFINE k == Old(place[1])
<1>1. CASE to \in Special
  <2>. DEFINE c == Cached(staged.cache, to)
              e == Pushed(c, place)
              m == Put(staged.cache, to, e)
  <2>1. staged'.cache = m /\ tx'.outs = t.outs
    BY <1>1 DEF Comes
  <2>2. EntryOK(c) /\ Single(c) /\ (IF to \in DOMAIN staged.cache THEN c = staged.cache[to] ELSE On(c) = {})
    <3>1. CASE to \in DOMAIN staged.cache
      BY <3>1 DEF Cached, EntriesOK, Spread
    <3>2. CASE to \notin DOMAIN staged.cache
      <4>1. c = NoEntry
        BY <3>2 DEF Cached
      <4>2. NoEntry.ins = << >>
        BY DEF NoEntry
      <4>. QED BY <3>2, <4>1, <4>2, NoEntryOK, OnNothing
    <3>. QED BY <3>1, <3>2
  <2>. HIDE DEF c
  <2>3. k \notin On(c)
    BY <2>2, AllOnIs
  <2>4. On(e) = On(c) \cup {k} /\ Single(e)
    BY <2>2, <2>3, PushOn
  <2>. HIDE DEF e, k
  <2>5. AllOn(m) = AllOn(staged.cache) \cup {k} /\ Spread(m)
    <3>. DEFINE K == {k}
    <3>1. IF to \in DOMAIN staged.cache THEN On(e) = On(staged.cache[to]) \cup K ELSE On(e) = K
      BY <2>2, <2>4
    <3>2. \A x \in K : x \notin AllOn(staged.cache)
      BY DEF k
    <3>. HIDE DEF K
    <3>3. AllOn(m) = AllOn(staged.cache) \cup K /\ Spread(m)
      BY <2>4, <3>1, <3>2, AllOnPut
    <3>. QED BY <3>3 DEF K
  <2>6. DOMAIN m = DOMAIN staged.cache \cup {to}
    BY DEF Put
  <2>. QED BY <1>1, <2>1, <2>5, <2>6 DEF k
<1>2. CASE to \notin Special
  <2>. DEFINE c == t.outs[o[2]]
              e == Pushed(c, place)
              m == Put(t.outs, o[2], e)
  <2>1. staged'.cache = staged.cache /\ tx'.outs = [t.outs EXCEPT ![o[2]] = e] /\ o[2] \in DOMAIN t.outs
    BY <1>2 DEF Comes
  <2>2. EntryOK(c) /\ Single(c) /\ k \notin On(c)
    BY <2>1, AllOnIs DEF EntriesOK, Spread
  <2>3. On(e) = On(c) \cup {k} /\ Single(e)
    BY <2>2, PushOn
  <2>. HIDE DEF e, k
  <2>4. tx'.outs = m /\ DOMAIN m = DOMAIN t.outs
    BY <2>1 DEF Put, EntriesOK
  <2>5. AllOn(m) = AllOn(t.outs) \cup {k} /\ Spread(m)
    <3>. DEFINE K == {k}
                x == o[2]
    <3>1. IF x \in DOMAIN t.outs THEN On(e) = On(t.outs[x]) \cup K ELSE On(e) = K
      BY <2>1, <2>3
    <3>2. \A y \in K : y \notin AllOn(t.outs)
      BY DEF k
    <3>. HIDE DEF K, x
    <3>3. AllOn(Put(t.outs, x, e)) = AllOn(t.outs) \cup K /\ Spread(Put(t.outs, x, e))
      BY <2>3, <3>1, <3>2, AllOnPut
    <3>. QED BY <3>3 DEF K, x
  <2>. QED BY <2>1, <2>4, <2>5 DEF k
<1>. QED BY <1>1, <1>2

\* One leaves what floats or what has come down for the cache or the outputs.
Landings(C, O, Q, R, C1, O1, Q1, R1, k, l) ==
  /\ \/ C1 = C \cup {l} /\ O1 = O
     \/ C1 = C /\ O1 = O \cup {l}
  /\ \/ k \in Q /\ Q1 = Q \ {k} /\ R1 = R
     \/ k \in R /\ Q1 = Q /\ R1 = R \ {k}

LEMMA LandingApart ==
  ASSUME NEW U, NEW C, NEW O, NEW Q, NEW R, NEW W, NEW C1, NEW O1, NEW Q1, NEW R1, NEW k, NEW l,
         Separate(U, C, O, {}, Q, R, W), Landings(C, O, Q, R, C1, O1, Q1, R1, k, l),
         l = k \/ l \notin U \cup C \cup O \cup {} \cup Q \cup R \cup W
  PROVE  /\ Separate(U, C1, O1, {}, Q1, R1, W)
         /\ \A x : x \in U \cup C1 \cup O1 \cup {} \cup Q1 \cup R1 \cup W
                     <=> x = l \/ (x # k /\ x \in U \cup C \cup O \cup {} \cup Q \cup R \cup W)
<1>1. /\ \A x : x \in C1 \/ x \in O1 <=> x \in C \/ x \in O \/ x = l
      /\ \A x : x \in Q1 \/ x \in R1 <=> (x \in Q \/ x \in R) /\ x # k
  <2>1. k \in Q \/ k \in R
    BY DEF Landings
  <2>2. \A x : x \in C1 \/ x \in O1 <=> x \in C \/ x \in O \/ x = l
    BY DEF Landings
  <2>3. \A x : x \in Q1 \/ x \in R1 <=> (x \in Q \/ x \in R) /\ x # k
    BY DEF Landings, Separate
  <2>. QED BY <2>2, <2>3
<1>2. l \notin U /\ l \notin C /\ l \notin O /\ l \notin W /\ l \notin Q1 /\ l \notin R1
  <2>1. CASE l = k
    <3>1. l \notin Q1 /\ l \notin R1
      BY <1>1, <2>1
    <3>2. k \in Q \/ k \in R
      BY DEF Landings
    <3>3. l \notin U /\ l \notin C /\ l \notin O /\ l \notin W
      BY <2>1, <3>2 DEF Separate
    <3>. QED BY <3>1, <3>3
  <2>2. CASE l \notin U \cup C \cup O \cup {} \cup Q \cup R \cup W
    BY <1>1, <2>2
  <2>. QED BY <2>1, <2>2
<1>3. Separate(U, C1, O1, {}, Q1, R1, W)
  <2>1. C1 \subseteq C \cup {l} /\ O1 \subseteq O \cup {l} /\ (C1 = C \/ O1 = O)
        /\ Q1 \subseteq Q /\ R1 \subseteq R
    BY DEF Landings
  <2>2. \A x \in C1 : x \notin O1
    BY <1>2, <2>1 DEF Separate
  <2>. QED BY <1>2, <2>1, <2>2 DEF Separate
<1>4. ASSUME NEW x
      PROVE x \in U \cup C1 \cup O1 \cup {} \cup Q1 \cup R1 \cup W
              <=> x = l \/ (x # k /\ x \in U \cup C \cup O \cup {} \cup Q \cup R \cup W)
  <2>1. k \notin U /\ k \notin C /\ k \notin O /\ k \notin W
    <3>1. k \in Q \/ k \in R
      BY DEF Landings
    <3>. QED BY <3>1 DEF Separate
  <2>2. x \in C1 \/ x \in O1 <=> x \in C \/ x \in O \/ x = l
    BY <1>1
  <2>3. x \in Q1 \/ x \in R1 <=> (x \in Q \/ x \in R) /\ x # k
    BY <1>1
  <2>. QED BY <2>1, <2>2, <2>3
<1>. QED BY <1>3, <1>4

Lands(f) ==
  /\ UNCHANGED <<chain, past>> /\ Txs' = Txs /\ Indexing /\ Indexing' /\ At'.tx = At.tx
  /\ InTx /\ InTx' /\ ~Reading /\ ~Reading' /\ tab'.utxo = tab.utxo /\ Waiting' = Waiting
  /\ Untaken = << >> /\ Untaken' = << >>
  /\ Apart(Queue') /\ Apart(Rest') /\ Spread(staged'.cache) /\ Spread(Outs')
  /\ DOMAIN staged'.cache \subseteq DOMAIN staged.cache \cup Special
  /\ Landings(AllOn(staged.cache), AllOn(Outs), Keys(Queue), Keys(Rest),
              AllOn(staged'.cache), AllOn(Outs'), Keys(Queue'), Keys(Rest'),
              Key(f), IF f.new = Absent THEN Key(f) ELSE Old(run.next))

\* The ids of the inscriptions stay unique.
LEMMA InscribedIds ==
  ASSUME IdsMatch(tab), NEW f, NEW o, NEW burn, NEW cache, Inscribes(f, o, burn, cache),
         f.id \notin DOMAIN tab.ids, run.next \notin DOMAIN tab.entries
  PROVE  /\ IdsMatch(tab)' /\ DOMAIN tab'.entries = DOMAIN tab.entries \cup {run.next}
         /\ DOMAIN tab'.ids = DOMAIN tab.ids \cup {f.id}
<1>. DEFINE n == run.next
            e == NewEntry(f, o, burn)
            id == f.id
<1>1. e.id = id
  BY DEF NewEntry
<1>. HIDE DEF e, n, id
<1>2. tab'.entries = Put(tab.entries, n, e) /\ tab'.ids = Put(tab.ids, id, n)
  BY DEF Inscribes, e, n, id
<1>3. /\ DOMAIN tab'.entries = DOMAIN tab.entries \cup {n} /\ tab'.entries[n] = e
      /\ \A x \in DOMAIN tab.entries : x # n => tab'.entries[x] = tab.entries[x]
      /\ DOMAIN tab'.ids = DOMAIN tab.ids \cup {id} /\ tab'.ids[id] = n
      /\ \A x \in DOMAIN tab.ids : x # id => tab'.ids[x] = tab.ids[x]
  BY <1>2 DEF Put
<1>4. id \notin DOMAIN tab.ids /\ n \notin DOMAIN tab.entries
  BY DEF id, n
<1>5. ASSUME NEW x \in DOMAIN tab'.entries
      PROVE  tab'.entries[x].id \in DOMAIN tab'.ids /\ tab'.ids[tab'.entries[x].id] = x
  BY <1>1, <1>3, <1>4 DEF IdsMatch
<1>6. ASSUME NEW x \in DOMAIN tab'.ids
      PROVE  tab'.ids[x] \in DOMAIN tab'.entries /\ tab'.entries[tab'.ids[x]].id = x
  BY <1>1, <1>3, <1>4 DEF IdsMatch
<1>7. IdsMatch(tab')
  BY <1>5, <1>6 DEF IdsMatch
<1>. QED BY <1>3, <1>7 DEF IdsMatch, n, id

LEMMA TransferredIds ==
  ASSUME IdsMatch(tab), \A x \in DOMAIN tab.entries : NoteShape(tab.entries[x]),
         NEW f, NEW burn, NEW cache, Transfers(f, burn, cache)
  PROVE  /\ IdsMatch(tab)' /\ DOMAIN tab'.entries = DOMAIN tab.entries /\ tab'.ids = tab.ids
<1>1. tab'.ids = tab.ids /\ tab'.entries = IF burn THEN Burned(tab.entries, f.seq) ELSE tab.entries
  BY DEF Transfers
<1>2. /\ DOMAIN Burned(tab.entries, f.seq) = DOMAIN tab.entries
      /\ \A x \in DOMAIN tab.entries : Burned(tab.entries, f.seq)[x].id = tab.entries[x].id
  <2>1. DOMAIN Burned(tab.entries, f.seq) = DOMAIN tab.entries
    BY DEF Burned
  <2>2. ASSUME NEW x \in DOMAIN tab.entries
        PROVE  Burned(tab.entries, f.seq)[x] =
                 IF x = f.seq THEN [tab.entries[x] EXCEPT !.charms = @ \cup {"Burned"}]
                 ELSE tab.entries[x]
    BY DEF Burned
  <2>. QED BY <2>1, <2>2 DEF NoteShape
<1>3. /\ DOMAIN tab'.entries = DOMAIN tab.entries
      /\ \A x \in DOMAIN tab.entries : tab'.entries[x].id = tab.entries[x].id
  BY <1>1, <1>2
<1>4. IdsMatch(tab')
  BY <1>1, <1>3 DEF IdsMatch
<1>. QED BY <1>1, <1>3, <1>4 DEF IdsMatch

LEMMA LandsHeld ==
  ASSUME Frame, Listed, Held, past.clean, run # Absent, NEW f, Lands(f),
         NEW o, NEW burn, NEW cache,
         IF f.new = Absent THEN Transfers(f, burn, cache) ELSE Inscribes(f, o, burn, cache)
  PROVE  Held'
<1>. DEFINE U == AllOn(tab.utxo)
            C == AllOn(staged.cache)
            O == AllOn(Outs)
            Q == Keys(Queue)
            R == Keys(Rest)
            W == Keys(Waiting)
            C1 == AllOn(staged'.cache)
            O1 == AllOn(Outs')
            Q1 == Keys(Queue')
            R1 == Keys(Rest')
            k == Key(f)
            l == IF f.new = Absent THEN Key(f) ELSE Old(run.next)
            E == U \cup C \cup O \cup {} \cup Q \cup R \cup W
            E1 == U \cup C1 \cup O1 \cup {} \cup Q1 \cup R1 \cup W
<1>1. Landings(C, O, Q, R, C1, O1, Q1, R1, k, l)
  BY DEF Lands
<1>2. AllOn(Untaken) = {} /\ AllOn(Untaken') = {} /\ AllOn(tab'.utxo) = U /\ Keys(Waiting') = W
  BY AllOnNothing DEF Lands
<1>3. Everywhere = E /\ Everywhere' = E1
  BY <1>2 DEF Everywhere
<1>4. Separate(U, C, O, {}, Q, R, W) /\ (AllApart' <=> Separate(U, C1, O1, {}, Q1, R1, W))
  BY <1>2 DEF Held, Placed, AllApart
<1>5. k \in Q \/ k \in R
  BY <1>1 DEF Landings
<1>6. k \in Everywhere
  BY <1>3, <1>5
<1>7. run.next \notin DOMAIN tab.entries
  BY NextFree
<1>8. f.new = Absent => l = k /\ l = Old(f.seq)
  BY DEF Key
<1>9. f.new # Absent => /\ l = Old(run.next) /\ l \notin Everywhere
                        /\ k = New(f.id) /\ f.id \notin DOMAIN tab.ids
  <2>. SUFFICES ASSUME f.new # Absent
                PROVE l = Old(run.next) /\ l \notin Everywhere /\ k = New(f.id) /\ f.id \notin DOMAIN tab.ids
    OBVIOUS
  <2>1. l = Old(run.next) /\ k = New(f.id)
    BY DEF Key
  <2>. HIDE DEF l, k
  <2>. QED BY <1>6, <1>7, <2>1 DEF Held, Placed
<1>. HIDE DEF k, l
<1>10. l = k \/ l \notin E
  BY <1>3, <1>8, <1>9
<1>. HIDE DEF U, C, O, Q, R, W, C1, O1, Q1, R1
<1>11. Separate(U, C1, O1, {}, Q1, R1, W) /\ \A x : x \in E1 <=> x = l \/ (x # k /\ x \in E)
  BY <1>1, <1>4, <1>10, LandingApart
<1>12. \A x : x \in Everywhere' <=> x = l \/ (x # k /\ x \in Everywhere)
  BY <1>3, <1>11
<1>. HIDE DEF E, E1
<1>13. /\ IdsMatch(tab)'
       /\ DOMAIN tab'.entries = IF f.new = Absent THEN DOMAIN tab.entries
                                ELSE DOMAIN tab.entries \cup {run.next}
       /\ DOMAIN tab'.ids = IF f.new = Absent THEN DOMAIN tab.ids ELSE DOMAIN tab.ids \cup {f.id}
  <2>1. IdsMatch(tab)
    BY DEF Held
  <2>2. CASE f.new = Absent
    <3>1. \A x \in DOMAIN tab.entries : NoteShape(tab.entries[x])
      BY DEF Listed, Indexed, Numbered
    <3>2. Transfers(f, burn, cache)
      BY <2>2
    <3>. QED BY <2>1, <2>2, <3>1, <3>2, TransferredIds
  <2>3. CASE f.new # Absent
    BY <1>7, <1>9, <2>1, <2>3, InscribedIds
  <2>. QED BY <2>2, <2>3
<1>14. EachApart'
  <2>1. Spread(tab.utxo) /\ Apart(Waiting)
    BY DEF Held, Placed, EachApart
  <2>. QED BY <2>1, AllOnNothing DEF Lands, EachApart
<1>15. Placed'
  <2>1. \A seq : Old(seq) \in Everywhere <=> seq \in DOMAIN tab.entries
    BY DEF Held, Placed
  <2>2. \A x : New(x) \in Everywhere => x \notin DOMAIN tab.ids
    BY DEF Held, Placed
  <2>3. \A seq : Old(seq) \in Everywhere' <=> seq \in DOMAIN tab'.entries
    <3>1. CASE f.new = Absent
      BY <1>6, <1>8, <1>12, <1>13, <2>1, <3>1
    <3>2. CASE f.new # Absent
      BY <1>9, <1>12, <1>13, <2>1, <3>2, KeysDiffer
    <3>. QED BY <3>1, <3>2
  <2>4. \A x : New(x) \in Everywhere' => x \notin DOMAIN tab'.ids
    <3>1. CASE f.new = Absent
      BY <1>6, <1>8, <1>12, <1>13, <2>2, <3>1
    <3>2. CASE f.new # Absent
      BY <1>9, <1>12, <1>13, <2>2, <3>2, KeysDiffer
    <3>. QED BY <3>1, <3>2
  <2>. QED BY <1>4, <1>11, <1>14, <2>3, <2>4 DEF Placed
<1>16. FromDone'
  <2>1. /\ Indexing' /\ chain' = chain /\ Txs' = Txs /\ At'.tx = At.tx /\ ~Reading /\ ~Reading'
        /\ InTx /\ InTx' /\ Indexing
        /\ tab'.utxo = tab.utxo /\ DOMAIN staged'.cache \subseteq DOMAIN staged.cache \cup Special
    BY DEF Lands
  <2>2. Entering = At.tx + 1 /\ Entering' = At.tx + 1
    BY <2>1 DEF Entering
  <2>3. /\ IdsFrom(tab.ids, Known(Len(chain)) \cup Spent(At.tx + 1))
        /\ OutsFrom(tab.utxo, Known(Len(chain))) /\ OutsFrom(staged.cache, Spent(At.tx))
        /\ NewFrom(W, Spent(At.tx)) /\ NewFrom(R, Spent(At.tx + 1)) /\ NewFrom(Q, Spent(At.tx + 1))
    BY <2>1, <2>2 DEF Held, FromDone, W, R, Q
  <2>4. Q1 \subseteq Q /\ R1 \subseteq R
    BY <1>1 DEF Landings
  <2>5. NewFrom(W, Spent(At.tx)) /\ NewFrom(R1, Spent(At.tx + 1)) /\ NewFrom(Q1, Spent(At.tx + 1))
    BY <2>3, <2>4 DEF NewFrom
  <2>6. OutsFrom(staged'.cache, Spent(At.tx))
    BY <2>1, <2>3 DEF OutsFrom
  <2>7. IdsFrom(tab'.ids, Known(Len(chain)) \cup Spent(At.tx + 1))
    <3>1. f.new # Absent => f.id[1] \in Spent(At.tx + 1)
      BY <1>5, <1>9, <2>3 DEF NewFrom
    <3>. QED BY <1>13, <2>3, <3>1 DEF IdsFrom
  <2>8. Keys(Waiting') = W /\ Keys(Rest') = R1 /\ Keys(Queue') = Q1
    BY <1>2 DEF R1, Q1
  <2>. HIDE DEF Reading, Indexing, Entering, At
  <2>. QED BY <2>1, <2>2, <2>3, <2>5, <2>6, <2>7, <2>8, IndexingFromDone
<1>. QED BY <1>13, <1>15, <1>16, PastWhole DEF Held, Lands

LEMMA ComesFree ==
  ASSUME Frame, Listed, Held, past.clean, run # Absent, tx # Absent, ViewsLocals,
         NEW t, t.outs = tx.outs, NEW f, Key(f) \in Keys(Queue) \cup Keys(Rest),
         NEW o, NEW to, NEW place \in Nat \X Nat, Comes(t, f, o, to, place),
         o \in Special \/ o[2] \in DOMAIN tx.outs
  PROVE  LET l == IF f.new = Absent THEN Key(f) ELSE Old(run.next)
         IN /\ Spread(staged'.cache) /\ Spread(tx'.outs) /\ DOMAIN tx'.outs = DOMAIN tx.outs
            /\ DOMAIN staged'.cache \subseteq DOMAIN staged.cache \cup Special
            /\ \/ AllOn(staged'.cache) = AllOn(staged.cache) \cup {l} /\ AllOn(tx'.outs) = AllOn(Outs)
               \/ AllOn(staged'.cache) = AllOn(staged.cache) /\ AllOn(tx'.outs) = AllOn(Outs) \cup {l}
<1>. DEFINE l == IF f.new = Absent THEN Key(f) ELSE Old(run.next)
<1>1. l = Old(place[1])
  BY DEF Comes, Key
<1>2. l \notin AllOn(staged.cache) /\ l \notin AllOn(Outs)
  <2>1. CASE f.new = Absent
    <3>1. l = Key(f)
      BY <2>1
    <3>. HIDE DEF l
    <3>. DEFINE k == Key(f)
                Q == Keys(Queue)
                R == Keys(Rest)
    <3>2. (k \in Q \/ k \in R) /\ Separate({}, AllOn(staged.cache), AllOn(Outs), {}, Q, R, {})
      BY DEF Held, Placed, AllApart, Separate
    <3>. HIDE DEF k, Q, R
    <3>3. k \notin AllOn(staged.cache) /\ k \notin AllOn(Outs)
      BY <3>2 DEF Separate
    <3>. QED BY <3>1, <3>3 DEF k
  <2>2. CASE f.new # Absent
    <3>1. run.next \notin DOMAIN tab.entries /\ l = Old(run.next)
      BY <2>2, NextFree
    <3>. HIDE DEF l
    <3>2. l \notin Everywhere
      BY <3>1 DEF Held, Placed
    <3>. QED BY <3>2 DEF Everywhere
  <2>. QED BY <2>1, <2>2
<1>. HIDE DEF l
<1>3. /\ EntriesOK(staged.cache) /\ EntriesOK(t.outs) /\ Spread(staged.cache) /\ Spread(t.outs)
      /\ Outs = t.outs
  <2>1. EntriesOK(staged.cache) /\ EntriesOK(tx.outs)
    BY DEF Frame, Types, StagedOK, TxOK, WorkOK
  <2>2. Outs = tx.outs /\ Spread(staged.cache) /\ Spread(Outs)
    BY DEF Held, Placed, EachApart, ViewsLocals
  <2>. QED BY <2>1, <2>2
<1>4. Old(place[1]) \notin AllOn(staged.cache) /\ Old(place[1]) \notin AllOn(t.outs)
  BY <1>1, <1>2, <1>3
<1>5. o \in Special \/ o[2] \in DOMAIN t.outs
  OBVIOUS
<1>6. /\ Spread(staged'.cache) /\ Spread(tx'.outs) /\ DOMAIN tx'.outs = DOMAIN t.outs
      /\ DOMAIN staged'.cache \subseteq DOMAIN staged.cache \cup Special
      /\ \/ /\ AllOn(staged'.cache) = AllOn(staged.cache) \cup {Old(place[1])}
            /\ AllOn(tx'.outs) = AllOn(t.outs)
         \/ /\ AllOn(staged'.cache) = AllOn(staged.cache)
            /\ AllOn(tx'.outs) = AllOn(t.outs) \cup {Old(place[1])}
  BY <1>3, <1>4, <1>5, ComesOn
<1>. QED BY <1>1, <1>3, <1>6 DEF l

LEMMA LocateSited == ASSUME Frame, Frame', Listed, Sited, Locate PROVE Sited'
<1>. DEFINE l == tx.located[tx.loc]
            f == l.flotsam
            o == <<T.id, l.out>>
            burn == T.outs[l.out].burn
            t == [tx EXCEPT !.loc = tx.loc + 1]
<1>1. /\ run # Absent /\ tx # Absent /\ tx.phase = "locations" /\ tx.loc <= Len(tx.located)
      /\ Settle(t, f, o, l.offset, burn)
      /\ UNCHANGED <<chain, records, block, cursor, saved, past>>
  BY DEF Locate, AtLocations
<1>2. /\ Indexing /\ InTx /\ At = run /\ Work = tx /\ Accounts = run /\ TxOK(tx) /\ RunOK(run)
      /\ This = T /\ TabOK(tab) /\ StagedOK(staged)
  BY <1>1, InTxFacts DEF Frame, Types
<1>3. /\ IsSeq(tx.located) /\ tx.loc \in DOMAIN tx.located /\ FlotsamOK(f) /\ l.offset \in Nat
      /\ DOMAIN tx.located \subseteq Nat
  <2>1. IsSeq(tx.located) /\ tx.loc \in Nat \ {0}
    BY <1>2 DEF TxOK, Landed
  <2>2. Len(tx.located) \in Nat /\ DOMAIN tx.located = 1..Len(tx.located)
    BY <2>1, SeqFacts
  <2>3. tx.loc \in DOMAIN tx.located
    BY <1>1, <2>1, <2>2
  <2>4. LocationOK(l)
    BY <1>2, <2>3 DEF TxOK, Landed
  <2>. QED BY <2>1, <2>2, <2>3, <2>4 DEF LocationOK
<1>4. /\ TxShape(t) /\ EntriesOK(t.outs) /\ t.outs = tx.outs /\ t.phase = tx.phase
      /\ t.located = tx.located /\ t.queue = tx.queue /\ t.loc = tx.loc + 1
  BY <1>2 DEF TxOK, TxShape, WorkOK
<1>5. ViewsLocals
  BY <1>1, ViewLocals
<1>6. /\ l.out \in DOMAIN tx.outs /\ o[2] = l.out
  <2>1. l.out \in DOMAIN Outs
    BY <1>3, <1>5 DEF Sited, Positions, ViewsLocals
  <2>. QED BY <1>5, <2>1 DEF ViewsLocals
<1>7. f = tx.located[tx.loc].flotsam
  OBVIOUS
<1>. DEFINE offset == l.offset
<1>8. offset \in Nat /\ Settle(t, f, o, offset, burn)
  BY <1>1, <1>3
<1>. HIDE DEF t, f, o, burn, offset, l
<1>9. /\ staged'.state = staged.state /\ RunOK(run') /\ run' # Absent /\ run'.tx = run.tx
      /\ run'.flotsam = run.flotsam
      /\ TxShape(tx') /\ "phase" \in DOMAIN tx' /\ tx'.phase = t.phase
      /\ tx'.located = t.located /\ tx'.queue = t.queue /\ tx'.loc = t.loc
  BY <1>2, <1>3, <1>4, <1>8, SettleFacts
<1>10. tx' # Absent
  BY <1>9, HasFields
<1>11. /\ run'.inscription = run.inscription
       /\ \E cache : IF f.new = Absent THEN Transfers(f, burn, cache) ELSE Inscribes(f, o, burn, cache)
       /\ \E to : \E place \in Nat \X Nat : Comes(t, f, o, to, place)
  BY <1>2, <1>3, <1>4, <1>8, SettlePlaces
<1>12. PICK cache : IF f.new = Absent THEN Transfers(f, burn, cache) ELSE Inscribes(f, o, burn, cache)
  BY <1>11
<1>13. PICK to : \E place \in Nat \X Nat : Comes(t, f, o, to, place)
  BY <1>11
<1>14. PICK place \in Nat \X Nat : Comes(t, f, o, to, place)
  BY <1>13
<1>15. tab'.utxo = tab.utxo
  BY <1>12 DEF Transfers, Inscribes
<1>16. ViewsLocals'
  <2>1. (Frame /\ tx # Absent
           /\ ((tx.phase = "outputs" /\ saved.in3 = Absent) \/ tx.phase \in {"locations", "rest"})
           => ViewsLocals)'
    BY ViewLocals, PTL
  <2>. QED BY <1>1, <1>4, <1>9, <1>10, <2>1
<1>17. /\ InTx' /\ At' = run' /\ Txs' = Txs /\ Indexing'
       /\ Outs = tx.outs /\ Outs' = tx'.outs /\ Waiting' = Waiting
       /\ Untaken = << >> /\ Untaken' = << >> /\ ~Reading /\ ~Reading'
       /\ Queue = tx.queue /\ Queue' = tx.queue
       /\ Located = tx.located /\ Located' = tx.located
       /\ Rest = From(tx.located, tx.loc) /\ Rest' = From(tx.located, tx.loc + 1)
  BY <1>1, <1>4, <1>5, <1>9, <1>16 DEF ViewsLocals, Rest, Txs, InOrder
<1>18. DOMAIN tx'.outs = DOMAIN tx.outs
  BY <1>2, <1>4, <1>6, <1>14 DEF Comes
<1>19. Positions'
  <2>1. \A i \in DOMAIN Located' : Located'[i].out \in DOMAIN Outs'
    BY <1>17, <1>18 DEF Sited, Positions
  <2>2. tx'.phase # "rest"
    BY <1>1, <1>4, <1>9
  <2>. QED BY <1>1, <1>9, <1>10, <1>11, <1>17, <1>18, <2>1, <2>2, InTxPositions DEF Sited
<1>20. ASSUME past.clean PROVE Held'
  <2>1. Held
    BY <1>20 DEF Sited
  <2>. DEFINE k == Key(f)
  <2>2. /\ Keys(Rest') = Keys(Rest) \ {k} /\ Apart(Rest') /\ k \in Keys(Rest)
    <3>1. Apart(Rest)
      BY <2>1 DEF Held, Placed, EachApart
    <3>. QED BY <1>3, <1>7, <1>17, <3>1, FromNext DEF f, l
  <2>3. Apart(Queue')
    BY <1>17, <2>1 DEF Held, Placed, EachApart
  <2>. DEFINE m == IF f.new = Absent THEN Key(f) ELSE Old(run.next)
  <2>4. /\ Spread(staged'.cache) /\ Spread(tx'.outs)
        /\ DOMAIN staged'.cache \subseteq DOMAIN staged.cache \cup Special
        /\ \/ AllOn(staged'.cache) = AllOn(staged.cache) \cup {m} /\ AllOn(tx'.outs) = AllOn(Outs)
           \/ AllOn(staged'.cache) = AllOn(staged.cache) /\ AllOn(tx'.outs) = AllOn(Outs) \cup {m}
    BY <1>1, <1>4, <1>5, <1>6, <1>14, <1>20, <2>1, <2>2, ComesFree
  <2>. HIDE DEF m, k
  <2>5. Landings(AllOn(staged.cache), AllOn(Outs), Keys(Queue), Keys(Rest),
                 AllOn(staged'.cache), AllOn(Outs'), Keys(Queue'), Keys(Rest'), k, m)
    BY <1>17, <2>2, <2>4 DEF Landings
  <2>6. Lands(f)
    <3>. HIDE DEF At, InTx, Indexing, Reading
    <3>. QED BY <1>1, <1>2, <1>9, <1>15, <1>17, <2>2, <2>3, <2>4, <2>5 DEF Lands, k, m
  <2>. QED BY <1>1, <1>12, <1>20, <2>1, <2>6, LandsHeld
<1>. QED BY <1>1, <1>19, <1>20 DEF Sited

LEMMA LoseSited == ASSUME Frame, Frame', Listed, Sited, Lose PROVE Sited'
<1>. DEFINE f == Head(tx.queue)
            queue == Tail(tx.queue)
            t == [tx EXCEPT !.queue = queue]
            offset == run.stats.lost + f.offset - tx.outValue
<1>1. /\ run # Absent /\ tx # Absent /\ tx.phase = "rest" /\ Coinbase /\ tx.queue # << >>
      /\ Settle(t, f, Null, offset, FALSE)
      /\ UNCHANGED <<chain, records, block, cursor, saved, past>>
  BY DEF Lose
<1>2. /\ Indexing /\ InTx /\ At = run /\ Work = tx /\ Accounts = run /\ TxOK(tx) /\ RunOK(run)
      /\ This = T /\ TabOK(tab) /\ StagedOK(staged)
  BY <1>1, InTxFacts DEF Frame, Types
<1>3. /\ IsTail(queue, tx.queue) /\ f = tx.queue[1] /\ IsSeq(tx.queue)
      /\ FlotsamOK(f) /\ tx.outValue <= f.offset
  <2>1. Ready(tx.queue, tx.outValue)
    BY <1>1, <1>2 DEF Frame, Counts, PaidOut, Paid
  <2>2. FlotsamOK(f) /\ tx.outValue <= f.offset /\ IsTail(queue, tx.queue) /\ f = tx.queue[1]
    BY <1>1, <2>1, TailReady
  <2>. HIDE DEF f, queue
  <2>. QED BY <2>1, <2>2 DEF Ready, Flotsams
<1>. HIDE DEF f, queue
<1>4. offset \in Nat
  <2>1. run.stats.lost \in Nat /\ f.offset \in Nat /\ tx.outValue \in Nat
    BY <1>2, <1>3 DEF RunOK, StatsOK, FlotsamOK, TxOK
  <2>. QED BY <1>3, <2>1
<1>. HIDE DEF offset
<1>5. /\ TxShape(t) /\ EntriesOK(t.outs) /\ t.outs = tx.outs /\ t.phase = tx.phase
      /\ t.located = tx.located /\ t.queue = queue /\ t.loc = tx.loc
  BY <1>2 DEF TxOK, TxShape, WorkOK
<1>6. ViewsLocals
  BY <1>1, ViewLocals
<1>7. Null \in Special
  BY DEF Special
<1>. HIDE DEF t
<1>9. /\ staged'.state = staged.state /\ RunOK(run') /\ run' # Absent /\ run'.tx = run.tx
      /\ run'.flotsam = run.flotsam
      /\ TxShape(tx') /\ "phase" \in DOMAIN tx' /\ tx'.phase = t.phase
      /\ tx'.located = t.located /\ tx'.queue = t.queue /\ tx'.loc = t.loc
  BY <1>1, <1>2, <1>3, <1>4, <1>5, SettleFacts
<1>10. tx' # Absent
  BY <1>9, HasFields
<1>11. /\ run'.inscription = run.inscription
       /\ \E cache : IF f.new = Absent THEN Transfers(f, FALSE, cache)
                     ELSE Inscribes(f, Null, FALSE, cache)
       /\ \E to : \E place \in Nat \X Nat : Comes(t, f, Null, to, place)
  BY <1>1, <1>2, <1>3, <1>4, <1>5, SettlePlaces
<1>12. PICK cache : IF f.new = Absent THEN Transfers(f, FALSE, cache)
                    ELSE Inscribes(f, Null, FALSE, cache)
  BY <1>11
<1>13. PICK to : \E place \in Nat \X Nat : Comes(t, f, Null, to, place)
  BY <1>11
<1>14. PICK place \in Nat \X Nat : Comes(t, f, Null, to, place)
  BY <1>13
<1>15. tab'.utxo = tab.utxo
  BY <1>12 DEF Transfers, Inscribes
<1>16. ViewsLocals'
  <2>1. (Frame /\ tx # Absent
           /\ ((tx.phase = "outputs" /\ saved.in3 = Absent) \/ tx.phase \in {"locations", "rest"})
           => ViewsLocals)'
    BY ViewLocals, PTL
  <2>. QED BY <1>1, <1>5, <1>9, <1>10, <2>1
<1>17. /\ InTx' /\ At' = run' /\ Txs' = Txs /\ Indexing'
       /\ Outs = tx.outs /\ Outs' = tx'.outs /\ Waiting' = Waiting
       /\ Untaken = << >> /\ Untaken' = << >> /\ ~Reading /\ ~Reading'
       /\ Queue = tx.queue /\ Queue' = queue
       /\ Located = tx.located /\ Located' = tx.located /\ Rest' = Rest
  BY <1>1, <1>5, <1>6, <1>9, <1>16 DEF ViewsLocals, Rest, Txs, InOrder
<1>18. DOMAIN tx'.outs = DOMAIN tx.outs
  BY <1>2, <1>5, <1>7, <1>14 DEF Comes
<1>19. Positions'
  <2>1. \A i \in DOMAIN Located' : Located'[i].out \in DOMAIN Outs'
    BY <1>17, <1>18 DEF Sited, Positions
  <2>2. tx'.loc > Len(tx'.located)
    BY <1>1, <1>5, <1>9 DEF Sited, Positions
  <2>. QED BY <1>1, <1>9, <1>10, <1>11, <1>17, <1>18, <2>1, <2>2, InTxPositions DEF Sited
<1>20. ASSUME past.clean PROVE Held'
  <2>1. Held
    BY <1>20 DEF Sited
  <2>. DEFINE k == Key(f)
  <2>2. /\ Keys(Queue') = Keys(Queue) \ {k} /\ Apart(Queue') /\ k \in Keys(Queue)
    <3>1. Apart(Queue)
      BY <2>1 DEF Held, Placed, EachApart
    <3>. QED BY <1>3, <1>17, <3>1, KeysTail
  <2>3. Apart(Rest')
    BY <1>17, <2>1 DEF Held, Placed, EachApart
  <2>. DEFINE m == IF f.new = Absent THEN Key(f) ELSE Old(run.next)
  <2>4. /\ Spread(staged'.cache) /\ Spread(tx'.outs)
        /\ DOMAIN staged'.cache \subseteq DOMAIN staged.cache \cup Special
        /\ \/ AllOn(staged'.cache) = AllOn(staged.cache) \cup {m} /\ AllOn(tx'.outs) = AllOn(Outs)
           \/ AllOn(staged'.cache) = AllOn(staged.cache) /\ AllOn(tx'.outs) = AllOn(Outs) \cup {m}
    BY <1>1, <1>5, <1>6, <1>7, <1>14, <1>20, <2>1, <2>2, ComesFree
  <2>. HIDE DEF m, k
  <2>5. Landings(AllOn(staged.cache), AllOn(Outs), Keys(Queue), Keys(Rest),
                 AllOn(staged'.cache), AllOn(Outs'), Keys(Queue'), Keys(Rest'), k, m)
    BY <1>17, <2>2, <2>4 DEF Landings
  <2>6. Lands(f)
    <3>. HIDE DEF At, InTx, Indexing, Reading
    <3>. QED BY <1>1, <1>2, <1>9, <1>15, <1>17, <2>2, <2>3, <2>4, <2>5 DEF Lands, k, m
  <2>. QED BY <1>1, <1>12, <1>20, <2>1, <2>6, LandsHeld
<1>. QED BY <1>1, <1>19, <1>20 DEF Sited

-----------------------------------------------------------------------------
(* Inscriptions between the tables, the cache and a transaction              *)

\* The outputs in S are taken from the cache, or from the table.
LEMMA SplitPlaces ==
  ASSUME NEW m, NEW c, Spread(m), Spread(c), \A k \in AllOn(m) : k \notin AllOn(c),
         NEW S, \A o \in S : o \in DOMAIN c \/ o \in DOMAIN m,
         NEW g, DOMAIN g = S, \A o \in S : g[o] = IF o \in DOMAIN c THEN c[o] ELSE m[o]
  PROVE  LET m1 == Drop(m, S \ DOMAIN c)
             c1 == Drop(c, S)
         IN /\ Spread(g) /\ Spread(m1) /\ Spread(c1)
            /\ \A k \in AllOn(m1) : k \notin AllOn(c1) /\ k \notin AllOn(g)
            /\ \A k \in AllOn(c1) : k \notin AllOn(g)
            /\ \A k : k \in AllOn(m1) \/ k \in AllOn(c1) \/ k \in AllOn(g)
                      <=> k \in AllOn(m) \/ k \in AllOn(c)
<1>. DEFINE m1 == Drop(m, S \ DOMAIN c)
            c1 == Drop(c, S)
<1>1. /\ AllOn(m1) \subseteq AllOn(m) /\ Spread(m1)
      /\ \A o \in DOMAIN m : \A k \in On(m[o]) : k \in AllOn(m1) <=> o \notin S \ DOMAIN c
  BY AllOnDrop
<1>2. /\ AllOn(c1) \subseteq AllOn(c) /\ Spread(c1)
      /\ \A o \in DOMAIN c : \A k \in On(c[o]) : k \in AllOn(c1) <=> o \notin S
  BY AllOnDrop
<1>. HIDE DEF m1, c1
<1>3. ASSUME NEW k \in AllOn(g)
      PROVE  /\ k \notin AllOn(m1) /\ k \notin AllOn(c1)
             /\ k \in AllOn(m) \/ k \in AllOn(c)
  <2>1. PICK o \in DOMAIN g : k \in On(g[o])
    BY <1>3, AllOnIs
  <2>2. CASE o \in DOMAIN c
    <3>1. k \in On(c[o]) /\ k \in AllOn(c)
      BY <2>1, <2>2, AllOnIs
    <3>. QED BY <1>1, <1>2, <2>1, <2>2, <3>1
  <2>3. CASE o \notin DOMAIN c
    <3>1. o \in DOMAIN m /\ k \in On(m[o]) /\ k \in AllOn(m)
      BY <2>1, <2>3, AllOnIs
    <3>. QED BY <1>1, <1>2, <2>1, <2>3, <3>1
  <2>. QED BY <2>2, <2>3
<1>4. ASSUME NEW k \in AllOn(m) PROVE k \in AllOn(m1) \/ k \in AllOn(g)
  <2>1. PICK o \in DOMAIN m : k \in On(m[o])
    BY <1>4, AllOnIs
  <2>2. CASE o \in S \ DOMAIN c
    <3>1. k \in On(g[o]) /\ o \in DOMAIN g
      BY <2>1, <2>2
    <3>. QED BY <3>1, AllOnIs
  <2>. QED BY <1>1, <2>1, <2>2
<1>5. ASSUME NEW k \in AllOn(c) PROVE k \in AllOn(c1) \/ k \in AllOn(g)
  <2>1. PICK o \in DOMAIN c : k \in On(c[o])
    BY <1>5, AllOnIs
  <2>2. CASE o \in S
    <3>1. k \in On(g[o]) /\ o \in DOMAIN g
      BY <2>1, <2>2
    <3>. QED BY <3>1, AllOnIs
  <2>. QED BY <1>2, <2>1, <2>2
<1>6. Spread(g)
  <2>1. \A o \in DOMAIN g : Single(g[o])
    BY DEF Spread
  <2>2. ASSUME NEW o \in DOMAIN g, NEW p \in DOMAIN g, NEW k \in On(g[o]), k \in On(g[p])
        PROVE  o = p
    <3>1. CASE o \in DOMAIN c /\ p \in DOMAIN c
      <4>1. k \in On(c[o]) /\ k \in On(c[p])
        BY <2>2, <3>1
      <4>. QED BY <3>1, <4>1 DEF Spread
    <3>2. CASE o \notin DOMAIN c /\ p \notin DOMAIN c
      <4>1. k \in On(m[o]) /\ k \in On(m[p]) /\ o \in DOMAIN m /\ p \in DOMAIN m
        BY <2>2, <3>2
      <4>. QED BY <4>1 DEF Spread
    <3>3. CASE o \in DOMAIN c /\ p \notin DOMAIN c
      <4>1. k \in On(c[o]) /\ k \in On(m[p]) /\ p \in DOMAIN m
        BY <2>2, <3>3
      <4>. QED BY <3>3, <4>1, AllOnIs
    <3>4. CASE o \notin DOMAIN c /\ p \in DOMAIN c
      <4>1. k \in On(m[o]) /\ k \in On(c[p]) /\ o \in DOMAIN m
        BY <2>2, <3>4
      <4>. QED BY <3>4, <4>1, AllOnIs
    <3>. QED BY <3>1, <3>2, <3>3, <3>4
  <2>. QED BY <2>1, <2>2 DEF Spread
<1>. QED BY <1>1, <1>2, <1>3, <1>4, <1>5, <1>6 DEF m1, c1

\* Inscriptions change their places, but none comes or goes.
LEMMA KeptPlaced ==
  ASSUME Placed, tab'.entries = tab.entries, tab'.ids = tab.ids,
         EachApart', AllApart', Everywhere' = Everywhere
  PROVE  Placed'
  BY DEF Placed

\* The inputs of a transaction, before the first is taken, are its outpoints.
LEMMA InputsUntaken ==
  ASSUME NEW s, IsSeq(s), \A i, j \in DOMAIN s : s[i] = s[j] => i = j,
         NEW g, DOMAIN g = {s[i] : i \in DOMAIN s}, \A o \in DOMAIN g : EntryOK(g[o]),
         NEW r, DOMAIN r = DOMAIN s,
         \A i \in DOMAIN s : r[i] = IF i = 1 THEN InOrderFrom(g[s[i]].ins, 1) ELSE g[s[i]],
         Spread(g)
  PROVE  AllOn(r) = AllOn(g) /\ Spread(r)
<1>1. ASSUME NEW i \in DOMAIN r
      PROVE  s[i] \in DOMAIN g /\ On(r[i]) = On(g[s[i]]) /\ (Single(g[s[i]]) => Single(r[i]))
  <2>. DEFINE e == g[s[i]]
  <2>1. s[i] \in DOMAIN g /\ e.ins \in Seq(Nat \X Nat) /\ r[i] = IF i = 1 THEN InOrderFrom(e.ins, 1) ELSE e
    BY DEF EntryOK
  <2>. HIDE DEF e
  <2>2. On(InOrderFrom(e.ins, 1)) = On(e) /\ (Single(e) => Single(InOrderFrom(e.ins, 1)))
    BY <2>1, InOrderEnds
  <2>3. On(r[i]) = On(e) /\ (Single(e) => Single(r[i]))
    BY <2>1, <2>2
  <2>. QED BY <2>1, <2>3 DEF e
<1>. QED BY <1>1, AllOnRenamed

\* The outputs that the transaction at hand spends.
SpentHere == IF Coinbase THEN {} ELSE ToSet(T.ins)
Taken == [o \in SpentHere |-> IF o \in DOMAIN staged.cache THEN staged.cache[o] ELSE tab.utxo[o]]

LEMMA SpendFields ==
  ASSUME Frame, Frame', Spend
  PROVE  /\ run # Absent /\ tx = Absent /\ saved.tx = Absent /\ run.tx <= Len(Txs)
         /\ UNCHANGED <<chain, records, block, cursor, saved, past>>
         /\ \A o \in SpentHere : o \in DOMAIN staged.cache \/ o \in DOMAIN tab.utxo
         /\ tab'.utxo = Drop(tab.utxo, SpentHere \ DOMAIN staged.cache)
         /\ tab'.entries = tab.entries /\ tab'.ids = tab.ids
         /\ staged'.cache = Drop(staged.cache, SpentHere) /\ staged'.state = staged.state
         /\ run' # Absent /\ run'.tx = run.tx /\ run'.input = run.input
         /\ run'.inscription = run.inscription /\ run'.flotsam = run.flotsam
         /\ tx' # Absent /\ tx'.phase = "inputs" /\ tx'.floating = << >> /\ tx'.id = 0
         /\ ~Coinbase => tx'.ins = [i \in DOMAIN T.ins |-> Taken[T.ins[i]]]
         /\ DOMAIN tx'.outs = DOMAIN T.outs /\ \A v \in DOMAIN T.outs : tx'.outs[v].ins = << >>
<1>. DEFINE cache == staged.cache
            spent == IF Coinbase THEN {} ELSE ToSet(T.ins)
            stored == spent \ DOMAIN cache
            entry(o) == IF o \in DOMAIN cache THEN cache[o] ELSE tab.utxo[o]
            ins == IF Coinbase THEN << >> ELSE [i \in DOMAIN T.ins |-> entry(T.ins[i])]
            inSats == IF Coinbase THEN run.fees ELSE SatsOf(ins, Len(ins))
            outs == Outputs(inSats)
            rare == RareOnOutputs(outs)
            V == ValueOf(T.outs, Len(T.outs))
            left == SubSeq(inSats, V + 1, Len(inSats))
            f == run.fees \o left
            l == run.lost \o left
            utxo == Drop(tab.utxo, stored)
            satPoints == PutAll(tab.satPoints, rare)
            cache1 == Drop(cache, spent)
            removed == staged.record.removed \cup {<<o, tab.utxo[o]>> : o \in stored}
            listed == staged.record.satPoints \cup DOMAIN rare
<1>1. /\ run # Absent /\ tx = Absent /\ run.tx <= Len(Txs) /\ saved.tx = Absent
      /\ stored \subseteq DOMAIN tab.utxo
      /\ V <= Len(inSats)
      /\ tab' = [tab EXCEPT !.utxo = utxo, !.satPoints = satPoints]
      /\ staged' = [staged EXCEPT !.cache = cache1, !.record.removed = removed,
                                  !.record.satPoints = listed]
      /\ run' = IF Coinbase THEN [run EXCEPT !.lost = l] ELSE [run EXCEPT !.fees = f]
      /\ tx' = Fresh(ins, outs, inSats)
      /\ UNCHANGED <<chain, records, block, cursor, saved, past>>
  BY DEF Spend
<1>2. /\ RunOK(run) /\ TabOK(tab) /\ StagedOK(staged) /\ ContentOK(T)
  BY <1>1, BeforeTxFacts
<1>3. spent = SpentHere /\ \A o \in spent : entry(o) = Taken[o]
  BY DEF SpentHere, Taken
<1>4. ~Coinbase => ins = [i \in DOMAIN T.ins |-> Taken[T.ins[i]]]
  <2>1. ASSUME ~Coinbase, NEW i \in DOMAIN T.ins PROVE T.ins[i] \in spent
    BY <2>1 DEF ToSet
  <2>. HIDE DEF spent, entry
  <2>. QED BY <1>3, <2>1
<1>5. \A o \in spent : o \in DOMAIN staged.cache \/ o \in DOMAIN tab.utxo
  BY <1>1
<1>. HIDE DEF ins, entry, inSats, left, f, l
<1>6. /\ tx'.phase = "inputs" /\ tx'.floating = << >> /\ tx'.id = 0 /\ tx'.ins = ins
      /\ tx'.outs = outs /\ tx'.inSats = inSats /\ "phase" \in DOMAIN tx'
  <2>. HIDE DEF outs
  <2>. QED BY <1>1 DEF Fresh
<1>7. tx' # Absent
  BY <1>6, HasFields
<1>8. IsSeq(inSats)
  BY <1>6, <1>7 DEF Frame, Types, TxOK, WorkOK
<1>9. DOMAIN outs = DOMAIN T.outs /\ \A v \in DOMAIN T.outs : outs[v].ins = << >>
  BY <1>1, <1>2, <1>8, OutputsOK
<1>. HIDE DEF outs, utxo, cache1, satPoints, removed, listed
<1>10. /\ tab'.utxo = utxo /\ tab'.entries = tab.entries /\ tab'.ids = tab.ids
  BY <1>1, <1>2 DEF TabOK, TabShape
<1>11. staged'.cache = cache1 /\ staged'.state = staged.state
  BY <1>1, <1>2 DEF StagedOK, StagedShape
<1>12. /\ "tx" \in DOMAIN run' /\ run'.tx = run.tx /\ run'.input = run.input
       /\ run'.inscription = run.inscription /\ run'.flotsam = run.flotsam
  BY <1>1, <1>2 DEF RunOK, RunShape
<1>13. run' # Absent
  BY <1>12, HasFields
<1>. HIDE DEF spent
<1>. QED BY <1>1, <1>3, <1>4, <1>5, <1>6, <1>7, <1>9, <1>10, <1>11, <1>12, <1>13 DEF utxo, cache1

LEMMA InputsHere ==
  ASSUME Frame, block # None, run.tx \in 1..Len(Txs)
  PROVE  /\ \A i, j \in DOMAIN T.ins : T.ins[i] = T.ins[j] => i = j
         /\ \A i \in DOMAIN T.ins : T.ins[i] \notin Special
<1>1. block \in Blocks
  BY TxsFacts DEF Frame
<1>2. \E k \in DOMAIN Content[block] : T = Content[block][k]
  <2>. DEFINE n == Len(Content[block])
              c == Content[block]
              r == InOrder(block)
              i == run.tx
  <2>1. /\ n \in Nat /\ n >= 1 /\ DOMAIN c = 1..n /\ Len(r) = n
        /\ \A k \in 1..n - 1 : r[k] = c[k + 1]
        /\ r[n] = c[1]
    BY <1>1, OrderFacts
  <2>2. i \in 1..n /\ T = r[i]
    BY <2>1 DEF Txs, T
  <2>. HIDE DEF n, c, r, i
  <2>3. CASE i = n
    <3>1. 1 \in 1..n
      BY <2>1
    <3>. QED BY <2>1, <2>2, <2>3, <3>1 DEF c
  <2>4. CASE i # n
    <3>1. i \in 1..n - 1 /\ i + 1 \in 1..n
      BY <2>1, <2>2, <2>4
    <3>. QED BY <2>1, <2>2, <3>1 DEF c
  <2>. QED BY <2>3, <2>4
<1>3. T \in ToSet(Content[block])
  BY <1>2 DEF ToSet
<1>. QED BY <1>1, <1>3, InputsAssumption

\* What the inputs have is what was taken.
LEMMA SpendUntaken ==
  ASSUME Frame, Frame', Spend, ViewsReading', run.inscription = 1,
         IsLast' <=> Coinbase, Coinbase' <=> Coinbase, Spread(Taken)
  PROVE  AllOn(Untaken') = AllOn(Taken) /\ Spread(Untaken')
<1>1. /\ run # Absent /\ tx = Absent /\ saved.tx = Absent /\ run.tx <= Len(Txs)
      /\ \A o \in SpentHere : o \in DOMAIN staged.cache \/ o \in DOMAIN tab.utxo
      /\ run' # Absent /\ run'.input = run.input /\ run'.inscription = run.inscription
      /\ tx' # Absent
      /\ ~Coinbase => tx'.ins = [i \in DOMAIN T.ins |-> Taken[T.ins[i]]]
  BY SpendFields
<1>2. /\ run.tx \in 1..Len(Txs) /\ ContentOK(T) /\ run.input = 1 /\ block # None
      /\ TabOK(tab) /\ StagedOK(staged)
  BY <1>1, BeforeTxFacts
<1>3. CASE Coinbase
  <2>1. DOMAIN Taken = {}
    BY <1>3 DEF Taken, SpentHere
  <2>2. Untaken' = << >>
    BY <1>3 DEF Untaken
  <2>3. AllOn(Taken) = {}
    BY <2>1 DEF AllOn
  <2>. QED BY <2>2, <2>3, AllOnNothing
<1>4. CASE ~Coinbase
  <2>. DEFINE s == T.ins
              g == Taken
              r == Untaken'
  <2>1. IsSeq(s) /\ Len(s) \in Nat /\ DOMAIN s = 1..Len(s)
    BY <1>2, SeqFacts DEF ContentOK
  <2>2. \A i, j \in DOMAIN s : s[i] = s[j] => i = j
    BY <1>2, InputsHere
  <2>3. DOMAIN g = {s[i] : i \in DOMAIN s}
    BY <1>4 DEF Taken, SpentHere, ToSet
  <2>4. \A o \in DOMAIN g : EntryOK(g[o])
    <3>1. ASSUME NEW o \in SpentHere PROVE EntryOK(Taken[o])
      BY <1>1, <1>2 DEF Taken, TabOK, StagedOK, EntriesOK
    <3>2. DOMAIN Taken = SpentHere
      BY DEF Taken
    <3>. QED BY <3>1, <3>2
  <2>5. Untaken' = [i \in 1..Len(tx'.ins) |->
                      IF i = 1 THEN InOrderFrom(tx'.ins[i].ins, 1) ELSE tx'.ins[i]]
    <3>1. (Frame /\ tx # Absent /\ ViewsReading /\ ~Coinbase =>
             Untaken = [i \in run.input..Len(tx.ins) |->
                          IF i = run.input THEN InOrderFrom(tx.ins[i].ins, run.inscription)
                          ELSE tx.ins[i]])'
      BY UntakenReading, PTL
    <3>. QED BY <1>1, <1>2, <1>4, <3>1
  <2>6. /\ DOMAIN tx'.ins = DOMAIN s /\ \A i \in DOMAIN s : tx'.ins[i] = g[s[i]]
        /\ Len(tx'.ins) = Len(s)
    <3>1. tx'.ins = [i \in 1..Len(s) |-> Taken[s[i]]]
      BY <1>1, <1>4, <2>1
    <3>. HIDE DEF s
    <3>2. Len(tx'.ins) = Len(s)
      <4>. DEFINE q == tx'.ins
      <4>1. q = [i \in 1..Len(s) |-> q[i]]
        BY <3>1
      <4>. HIDE DEF q
      <4>2. IsSeq(q) /\ Len(q) = Len(s)
        BY <2>1, <4>1, FcnSeq
      <4>. QED BY <4>2 DEF q
    <3>. QED BY <2>1, <3>1, <3>2
  <2>7. /\ DOMAIN r = DOMAIN s
        /\ \A i \in DOMAIN s : r[i] = IF i = 1 THEN InOrderFrom(g[s[i]].ins, 1) ELSE g[s[i]]
    BY <2>1, <2>5, <2>6
  <2>8. Spread(g)
    OBVIOUS
  <2>. HIDE DEF s, g, r
  <2>9. AllOn(r) = AllOn(g) /\ Spread(r)
    BY <2>1, <2>2, <2>3, <2>4, <2>7, <2>8, InputsUntaken
  <2>. QED BY <2>9 DEF g, r
<1>. QED BY <1>3, <1>4

LEMMA SpendSited == ASSUME Frame, Frame', Sited, Spend PROVE Sited'
<1>1. /\ run # Absent /\ tx = Absent /\ saved.tx = Absent /\ run.tx <= Len(Txs)
      /\ UNCHANGED <<chain, records, block, cursor, saved, past>>
      /\ \A o \in SpentHere : o \in DOMAIN staged.cache \/ o \in DOMAIN tab.utxo
      /\ tab'.utxo = Drop(tab.utxo, SpentHere \ DOMAIN staged.cache)
      /\ tab'.entries = tab.entries /\ tab'.ids = tab.ids
      /\ staged'.cache = Drop(staged.cache, SpentHere) /\ staged'.state = staged.state
      /\ run' # Absent /\ run'.tx = run.tx /\ run'.input = run.input
      /\ run'.inscription = run.inscription /\ run'.flotsam = run.flotsam
      /\ tx' # Absent /\ tx'.phase = "inputs" /\ tx'.floating = << >> /\ tx'.id = 0
      /\ DOMAIN tx'.outs = DOMAIN T.outs /\ \A v \in DOMAIN T.outs : tx'.outs[v].ins = << >>
  BY SpendFields
<1>2. /\ Indexing /\ At = run /\ Accounts = run /\ block # None /\ ~InTx
      /\ saved.in1 = Absent /\ saved.in2 = Absent /\ saved.in3 = Absent
      /\ run.tx \in 1..Len(Txs) /\ Len(Txs) \in Nat /\ ContentOK(T)
  BY <1>1, BeforeTxFacts
<1>3. ViewsNone /\ Waiting = run.flotsam /\ Rest = << >>
  BY <1>2, ViewNone, NoneRest DEF ViewsNone, Rest
<1>4. ViewsReading'
  <2>1. (Frame /\ tx # Absent /\ tx.phase = "inputs" /\ ~Resumes => ViewsReading)'
    BY ViewReading, PTL
  <2>. QED BY <1>1, <1>2, <2>1 DEF Resumes
<1>5. /\ Txs' = Txs /\ Indexing' /\ At' = run' /\ Work' = tx' /\ This' = T /\ Accounts' = run'
      /\ (IsLast' <=> Coinbase) /\ (Coinbase' <=> Coinbase)
  BY <1>1, <1>2 DEF Txs, InOrder, Indexing, At, Work, This, T, IsLast, Coinbase, Accounts
<1>6. /\ Reading' /\ Queue' = << >> /\ Located' = << >> /\ Outs' = tx'.outs /\ Waiting' = Waiting
      /\ Envelope' = 0 /\ Rest' = << >>
  BY <1>1, <1>3, <1>4, NoneRest DEF ViewsReading, Rest
<1>7. Entering = run.tx /\ Entering' = run.tx
  BY <1>1, <1>2, <1>5, <1>6 DEF Entering
<1>8. run.inscription = 1
  BY <1>2, <1>3 DEF Sited, Positions, ViewsNone
<1>9. Positions'
  <2>1. DOMAIN T.outs = 1..Len(T.outs)
    BY <1>2, PaidFacts
  <2>2. run'.inscription = 1 /\ ~(run'.tx > Len(Txs)) /\ tx'.phase # "rest"
    BY <1>1, <1>2, <1>8
  <2>. HIDE DEF At, Work, This, Accounts, Indexing, Reading, Located, Outs, InTx
  <2>. QED BY <1>1, <1>5, <1>6, <2>1, <2>2 DEF Positions
<1>10. ASSUME Held PROVE Held'
  <2>. DEFINE U == AllOn(tab.utxo)
              C == AllOn(staged.cache)
              W == Keys(Waiting)
              U1 == AllOn(tab'.utxo)
              C1 == AllOn(staged'.cache)
              I1 == AllOn(Untaken')
  <2>1. /\ Spread(tab.utxo) /\ Spread(staged.cache) /\ Apart(Waiting)
        /\ \A k \in U : k \notin C /\ k \notin W
        /\ \A k \in C : k \notin W
    BY <1>10 DEF Held, Placed, EachApart, AllApart, Separate
  <2>2. /\ Spread(Taken) /\ Spread(tab'.utxo) /\ Spread(staged'.cache)
        /\ \A k \in U1 : k \notin C1 /\ k \notin AllOn(Taken)
        /\ \A k \in C1 : k \notin AllOn(Taken)
        /\ \A k : k \in U1 \/ k \in C1 \/ k \in AllOn(Taken) <=> k \in U \/ k \in C
    <3>. DEFINE m == tab.utxo
                c == staged.cache
                S == SpentHere
                g == Taken
    <3>1. /\ Spread(m) /\ Spread(c) /\ \A k \in AllOn(m) : k \notin AllOn(c)
      BY <2>1
    <3>2. \A o \in S : o \in DOMAIN c \/ o \in DOMAIN m
      BY <1>1
    <3>3. DOMAIN g = S /\ \A o \in S : g[o] = IF o \in DOMAIN c THEN c[o] ELSE m[o]
      BY DEF Taken
    <3>4. tab'.utxo = Drop(m, S \ DOMAIN c) /\ staged'.cache = Drop(c, S)
      BY <1>1
    <3>. HIDE DEF m, c, S, g
    <3>5. /\ Spread(g) /\ Spread(tab'.utxo) /\ Spread(staged'.cache)
          /\ \A k \in AllOn(tab'.utxo) : k \notin AllOn(staged'.cache) /\ k \notin AllOn(g)
          /\ \A k \in AllOn(staged'.cache) : k \notin AllOn(g)
          /\ \A k : k \in AllOn(tab'.utxo) \/ k \in AllOn(staged'.cache) \/ k \in AllOn(g)
                    <=> k \in AllOn(m) \/ k \in AllOn(c)
      BY <3>1, <3>2, <3>3, <3>4, SplitPlaces
    <3>. QED BY <3>5 DEF m, c, g
  <2>3. I1 = AllOn(Taken) /\ Spread(Untaken')
    BY <1>4, <1>5, <1>8, <2>2, SpendUntaken
  <2>4. AllOn(Outs') = {} /\ Spread(Outs')
    <3>. DEFINE r == tx'.outs
    <3>1. \A v \in DOMAIN r : r[v].ins = << >>
      BY <1>1
    <3>. HIDE DEF r
    <3>2. \A v \in DOMAIN r : On(r[v]) = {} /\ Single(r[v])
      BY <3>1, OnNothing
    <3>3. AllOn(r) = {} /\ Spread(r)
      BY <3>2 DEF AllOn, Spread
    <3>. QED BY <1>6, <3>3 DEF r
  <2>5. /\ Keys(Queue') = {} /\ Apart(Queue') /\ Keys(Rest') = {} /\ Apart(Rest')
        /\ Keys(Waiting') = W /\ Apart(Waiting')
        /\ Keys(Queue) = {} /\ Keys(Rest) = {} /\ AllOn(Outs) = {} /\ AllOn(Untaken) = {}
    BY <1>3, <1>6, <2>1, NoKeys, AllOnNothing DEF ViewsNone
  <2>6. EachApart'
    BY <2>2, <2>3, <2>4, <2>5 DEF EachApart
  <2>. HIDE DEF U, C, W, U1, C1, I1
  <2>7. Separate(U1, C1, {}, I1, {}, {}, W)
    BY <2>1, <2>2, <2>3 DEF Separate
  <2>8. U1 \cup C1 \cup {} \cup I1 \cup {} \cup {} \cup W = U \cup C \cup {} \cup {} \cup {} \cup {} \cup W
    BY <2>2, <2>3
  <2>9. AllApart' /\ Everywhere' = Everywhere
    BY <2>4, <2>5, <2>7, <2>8 DEF AllApart, Everywhere, U, C, W, U1, C1, I1
  <2>10. Placed'
    BY <1>1, <1>10, <2>6, <2>9, KeptPlaced DEF Held
  <2>11. FromDone'
    <3>1. /\ IdsFrom(tab.ids, Known(Len(chain)) \cup Spent(run.tx))
          /\ OutsFrom(tab.utxo, Known(Len(chain))) /\ OutsFrom(staged.cache, Spent(run.tx))
          /\ NewFrom(W, Spent(run.tx))
      BY <1>2, <1>7, <1>10 DEF Held, FromDone, W
    <3>2. OutsFrom(tab'.utxo, Known(Len(chain))) /\ OutsFrom(staged'.cache, Spent(run.tx))
      BY <1>1, <3>1 DEF OutsFrom, Drop
    <3>3. \A X : NewFrom({}, X)
      BY DEF NewFrom
    <3>. QED BY <1>1, <1>5, <1>7, <2>5, <3>1, <3>2, <3>3, IndexingFromDone
  <2>12. IdsMatch(tab)'
    BY <1>1, <1>10 DEF Held, IdsMatch
  <2>. QED BY <1>1, <1>10, <2>10, <2>11, <2>12, PastWhole DEF Held
<1>. QED BY <1>1, <1>9, <1>10 DEF Sited

\* The outputs of the transaction at hand, by outpoint.
OutsHere == [o \in {<<T.id, v>> : v \in DOMAIN tx.outs} |-> tx.outs[o[2]]]

LEMMA FinishTransactionFields ==
  ASSUME Frame, Frame', FinishTransaction
  PROVE  /\ run # Absent /\ tx # Absent /\ tx.phase = "rest" /\ (Coinbase => tx.queue = << >>)
         /\ UNCHANGED <<chain, tab, records, block, cursor, past>>
         /\ staged'.cache = PutAll(staged.cache, OutsHere) /\ staged'.state = staged.state
         /\ saved'.tx = Absent /\ tx' = Absent
         /\ run' # Absent /\ run'.tx = run.tx + 1 /\ run'.inscription = run.inscription
         /\ Coinbase => run'.flotsam = run.flotsam
         /\ ~Coinbase => \E rest : /\ IsConcat(run'.flotsam, run.flotsam, rest)
                                   /\ IsSeq(rest) /\ IsSeq(tx.queue) /\ DOMAIN rest = DOMAIN tx.queue
                                   /\ \A i \in DOMAIN rest : Key(rest[i]) = Key(tx.queue[i])
<1>. DEFINE rest == [i \in DOMAIN tx.queue |->
                       [tx.queue[i] EXCEPT !.offset = run.reward + tx.queue[i].offset - tx.outValue]]
            cache == PutAll(staged.cache, OutsHere)
            fl == run.flotsam \o rest
            lost == run.stats.lost + run.reward - tx.outValue
            reward == run.reward + tx.inValue - tx.outValue
<1>1. /\ run # Absent /\ tx # Absent /\ tx.phase = "rest" /\ (Coinbase => tx.queue = << >>)
      /\ run' = IF Coinbase
                THEN [[run EXCEPT !.tx = @ + 1] EXCEPT !.stats.lost = @ + run.reward - tx.outValue]
                ELSE [[run EXCEPT !.tx = @ + 1] EXCEPT !.flotsam = @ \o rest,
                                  !.reward = @ + tx.inValue - tx.outValue]
      /\ staged' = [staged EXCEPT !.cache = cache]
      /\ saved' = [saved EXCEPT !.tx = Absent]
      /\ tx' = Absent
      /\ UNCHANGED <<chain, tab, records, block, cursor, past>>
  BY DEF FinishTransaction, OutsHere
<1>2. /\ TxOK(tx) /\ RunOK(run) /\ StagedOK(staged) /\ SavedOK(saved)
  BY <1>1, InTxFacts DEF Frame, Types
<1>3. Ready(tx.queue, tx.outValue) /\ tx.outValue \in Nat /\ run.reward \in Nat
  BY <1>1, <1>2, InTxFacts DEF Frame, Counts, TxOK, RunOK, AccountsOK
<1>4. IsSeq(rest) /\ IsSeq(tx.queue)
  BY <1>3, RestFlotsams DEF Flotsams, Ready
<1>5. DOMAIN rest = DOMAIN tx.queue /\ \A i \in DOMAIN rest : Key(rest[i]) = Key(tx.queue[i])
  <2>1. ASSUME NEW i \in DOMAIN tx.queue PROVE Key(rest[i]) = Key(tx.queue[i])
    <3>. DEFINE f == tx.queue[i]
                d == run.reward + tx.queue[i].offset - tx.outValue
    <3>1. FlotsamOK(f)
      BY <1>3 DEF Ready, Flotsams
    <3>2. rest[i] = [f EXCEPT !.offset = d]
      OBVIOUS
    <3>. HIDE DEF f, d, rest
    <3>3. rest[i].new = f.new /\ rest[i].seq = f.seq /\ rest[i].id = f.id
      BY <3>1, <3>2 DEF FlotsamOK
    <3>4. Key(rest[i]) = Key(f)
      BY <3>3 DEF Key
    <3>. QED BY <3>4 DEF f
  <2>. QED BY <2>1
<1>. HIDE DEF rest, cache
<1>6. /\ "tx" \in DOMAIN run' /\ run'.tx = run.tx + 1 /\ run'.inscription = run.inscription
      /\ (Coinbase => run'.flotsam = run.flotsam) /\ (~Coinbase => run'.flotsam = fl)
  <2>1. RunShape(run)
    BY <1>2 DEF RunOK
  <2>. DEFINE r == [run EXCEPT !.tx = @ + 1]
  <2>2. /\ RunShape(r) /\ r.tx = run.tx + 1 /\ r.inscription = run.inscription /\ r.flotsam = run.flotsam
        /\ r.stats = run.stats /\ r.reward = run.reward
    BY <2>1 DEF RunShape
  <2>3. run' = IF Coinbase THEN [r EXCEPT !.stats = [run.stats EXCEPT !.lost = @ + run.reward - tx.outValue]]
               ELSE [r EXCEPT !.flotsam = fl, !.reward = reward]
    <3>. HIDE DEF r
    <3>1. CASE Coinbase
      <4>1. run' = [r EXCEPT !.stats.lost = @ + run.reward - tx.outValue]
        BY <1>1, <3>1 DEF r
      <4>. QED BY <2>2, <3>1, <4>1 DEF RunShape
    <3>2. CASE ~Coinbase
      <4>1. run' = [r EXCEPT !.flotsam = @ \o rest, !.reward = @ + tx.inValue - tx.outValue]
        BY <1>1, <3>2 DEF r
      <4>. QED BY <2>2, <3>2, <4>1
    <3>. QED BY <3>1, <3>2
  <2>. HIDE DEF r, fl, reward
  <2>. QED BY <2>2, <2>3 DEF RunShape
<1>7. run' # Absent
  BY <1>6, HasFields
<1>8. staged'.cache = cache /\ staged'.state = staged.state
  BY <1>1, <1>2 DEF StagedOK, StagedShape
<1>9. saved'.tx = Absent
  BY <1>1, <1>2 DEF SavedOK, SavedShape
<1>10. IsConcat(fl, run.flotsam, rest)
  <2>1. IsSeq(run.flotsam)
    BY <1>2 DEF RunOK, AccountsOK, Flotsams
  <2>. QED BY <1>4, <2>1, ConcatSeq
<1>. HIDE DEF fl
<1>11. ~Coinbase => \E r : /\ IsConcat(run'.flotsam, run.flotsam, r)
                           /\ IsSeq(r) /\ IsSeq(tx.queue) /\ DOMAIN r = DOMAIN tx.queue
                           /\ \A i \in DOMAIN r : Key(r[i]) = Key(tx.queue[i])
  BY <1>4, <1>5, <1>6, <1>10
<1>. QED BY <1>1, <1>6, <1>7, <1>8, <1>9, <1>11 DEF cache

LEMMA OutsCached ==
  ASSUME Frame, tx # Absent, DOMAIN tx.outs = 1..Len(T.outs), Spread(tx.outs)
  PROVE  /\ AllOn(OutsHere) = AllOn(tx.outs) /\ Spread(OutsHere)
         /\ \A o \in DOMAIN OutsHere : o[1] = T.id /\ o \notin Special
<1>1. Len(T.outs) \in Nat
  BY InTxFacts, PaidFacts
<1>. DEFINE m == tx.outs
            r == OutsHere
            id == T.id
            g == [o \in DOMAIN r |-> o[2]]
<1>2. /\ DOMAIN r = {<<id, v>> : v \in DOMAIN m} /\ \A o \in DOMAIN r : r[o] = m[o[2]]
      /\ DOMAIN m = 1..Len(T.outs) /\ Spread(m)
  BY DEF OutsHere
<1>. HIDE DEF m, r, id
<1>3. \A o \in DOMAIN r : \E v \in DOMAIN m : o = <<id, v>> /\ g[o] = v
  BY <1>2
<1>4. \A o \in DOMAIN r : o[1] = id /\ o \notin Special
  <2>1. ASSUME NEW v \in DOMAIN m PROVE <<id, v>>[1] = id /\ <<id, v>> \notin Special
    <3>1. v \in Nat /\ v # 0
      BY <1>1, <1>2
    <3>. QED BY <3>1 DEF Special, Null, Unbound
  <2>. QED BY <1>3, <2>1
<1>5. /\ \A o \in DOMAIN r : g[o] \in DOMAIN m /\ On(r[o]) = On(m[g[o]])
                             /\ (Single(m[g[o]]) => Single(r[o]))
      /\ \A o, p \in DOMAIN r : g[o] = g[p] => o = p
      /\ \A x \in DOMAIN m : \E o \in DOMAIN r : g[o] = x
  <2>1. \A o \in DOMAIN r : g[o] \in DOMAIN m /\ r[o] = m[g[o]]
    BY <1>2, <1>3
  <2>2. \A o, p \in DOMAIN r : g[o] = g[p] => o = p
    BY <1>3
  <2>3. ASSUME NEW x \in DOMAIN m PROVE \E o \in DOMAIN r : g[o] = x
    <3>1. <<id, x>> \in DOMAIN r /\ <<id, x>>[2] = x
      BY <1>2
    <3>. QED BY <3>1
  <2>. QED BY <2>1, <2>2, <2>3
<1>. HIDE DEF g
<1>6. AllOn(r) = AllOn(m) /\ (Spread(m) => Spread(r))
  BY <1>5, AllOnRenamed
<1>. QED BY <1>2, <1>4, <1>6 DEF m, r, id

\* What the outputs leave floating waits behind the rest.
LEMMA RestWaits ==
  ASSUME Frame, Frame', FinishTransaction, Apart(run.flotsam), Apart(tx.queue),
         \A k \in Keys(tx.queue) : k \notin Keys(run.flotsam)
  PROVE  Keys(run'.flotsam) = Keys(run.flotsam) \cup Keys(tx.queue) /\ Apart(run'.flotsam)
<1>1. /\ Coinbase => tx.queue = << >> /\ run'.flotsam = run.flotsam
      /\ ~Coinbase => \E rest : /\ IsConcat(run'.flotsam, run.flotsam, rest)
                                /\ IsSeq(rest) /\ DOMAIN rest = DOMAIN tx.queue
                                /\ \A i \in DOMAIN rest : Key(rest[i]) = Key(tx.queue[i])
      /\ run # Absent
  BY FinishTransactionFields
<1>2. CASE Coinbase
  BY <1>1, <1>2, NoKeys
<1>3. CASE ~Coinbase
  <2>1. PICK rest : /\ IsConcat(run'.flotsam, run.flotsam, rest)
                    /\ IsSeq(rest) /\ DOMAIN rest = DOMAIN tx.queue
                    /\ \A i \in DOMAIN tx.queue : Key(rest[i]) = Key(tx.queue[i])
    BY <1>1, <1>3
  <2>2. Keys(rest) = Keys(tx.queue) /\ Apart(rest)
    BY <2>1, KeysSame
  <2>3. IsSeq(run.flotsam)
    BY <1>1 DEF Frame, Types, RunOK, AccountsOK, Flotsams
  <2>. DEFINE s == run.flotsam
              r == run'.flotsam
  <2>4. /\ IsConcat(r, s, rest) /\ IsSeq(s) /\ Apart(s)
        /\ \A k \in Keys(s) : k \notin Keys(rest)
    BY <2>1, <2>2, <2>3
  <2>. HIDE DEF s, r
  <2>5. Keys(r) = Keys(s) \cup Keys(rest) /\ Apart(r)
    BY <2>1, <2>2, <2>4, KeysConcat
  <2>. QED BY <2>2, <2>5 DEF s, r
<1>. QED BY <1>2, <1>3

LEMMA FinishTransactionSited == ASSUME Frame, Frame', Sited, FinishTransaction PROVE Sited'
<1>1. /\ run # Absent /\ tx # Absent /\ tx.phase = "rest" /\ (Coinbase => tx.queue = << >>)
      /\ UNCHANGED <<chain, tab, records, block, cursor, past>>
      /\ staged'.cache = PutAll(staged.cache, OutsHere) /\ staged'.state = staged.state
      /\ saved'.tx = Absent /\ tx' = Absent
      /\ run' # Absent /\ run'.tx = run.tx + 1 /\ run'.inscription = run.inscription
      /\ Coinbase => run'.flotsam = run.flotsam
  BY FinishTransactionFields
<1>2. /\ Indexing /\ At = run /\ Work = tx /\ Accounts = run /\ block # None /\ InTx
      /\ run.tx \in 1..Len(Txs) /\ Len(Txs) \in Nat /\ This = T /\ TxOK(tx) /\ (IsLast <=> Coinbase)
  BY <1>1, InTxFacts
<1>3. ViewsLocals
  BY <1>1, ViewLocals
<1>4. ~InTx' /\ Indexing' /\ At' = run' /\ Accounts' = run' /\ Txs' = Txs
  BY <1>1, <1>2 DEF InTx, Indexing, At, Accounts, Txs, InOrder
<1>5. ViewsNone' /\ Waiting' = run'.flotsam /\ Rest' = << >>
  <2>1. (~InTx => ViewsNone)'
    BY ViewNone, PTL
  <2>. QED BY <1>4, <2>1, NoneRest DEF ViewsNone, Rest
<1>6. /\ ~Reading /\ Untaken = << >> /\ Outs = tx.outs /\ Waiting = run.flotsam /\ Queue = tx.queue
      /\ ~Reading' /\ Untaken' = << >> /\ Outs' = << >> /\ Queue' = << >>
  BY <1>3, <1>5 DEF ViewsLocals, ViewsNone
<1>7. Keys(Rest) = {} /\ Apart(Rest)
  <2>1. tx.loc > Len(tx.located) /\ tx.loc \in Nat /\ IsSeq(tx.located)
    BY <1>1, <1>2 DEF Sited, Positions, TxOK, Landed
  <2>2. Len(tx.located) \in Nat /\ DOMAIN tx.located = 1..Len(tx.located)
    BY <2>1, SeqFacts
  <2>3. ~\E j \in DOMAIN tx.located : j >= tx.loc
    BY <2>1, <2>2
  <2>4. Rest = From(tx.located, tx.loc)
    BY <1>3 DEF Rest, ViewsLocals
  <2>5. DOMAIN Rest = {}
    BY <2>3, <2>4 DEF From
  <2>. QED BY <2>5 DEF Keys, Apart
<1>8. Entering = run.tx + 1 /\ Entering' = run.tx + 1
  BY <1>1, <1>2, <1>4, <1>6 DEF Entering
<1>9. Positions'
  <2>1. run'.inscription = 1
    BY <1>1, <1>2, <1>6 DEF Sited, Positions
  <2>2. run'.tx > Len(Txs) => Coinbase
    BY <1>1, <1>2 DEF Coinbase
  <2>3. Coinbase => run.flotsam = << >>
    BY <1>1, <1>2 DEF Frame, Pending
  <2>. QED BY <1>1, <1>4, <2>1, <2>2, <2>3, OutsidePositions
<1>10. ASSUME Held PROVE Held'
  <2>. DEFINE U == AllOn(tab.utxo)
              C == AllOn(staged.cache)
              O == AllOn(tx.outs)
              Q == Keys(tx.queue)
              W == Keys(run.flotsam)
              C1 == AllOn(staged'.cache)
              W1 == Keys(run'.flotsam)
  <2>1. /\ Spread(tab.utxo) /\ Spread(staged.cache) /\ Spread(tx.outs)
        /\ Apart(tx.queue) /\ Apart(run.flotsam)
        /\ Separate(U, C, O, {}, Q, {}, W)
    BY <1>6, <1>7, <1>10, AllOnNothing DEF Held, Placed, EachApart, AllApart
  <2>2. /\ IdsFrom(tab.ids, Known(Len(chain)) \cup Spent(run.tx + 1))
        /\ OutsFrom(tab.utxo, Known(Len(chain))) /\ OutsFrom(staged.cache, Spent(run.tx))
        /\ NewFrom(W, Spent(run.tx)) /\ NewFrom(Q, Spent(run.tx + 1))
    BY <1>2, <1>6, <1>8, <1>10 DEF Held, FromDone
  <2>3. T.id \notin Spent(run.tx) /\ T.id \in Spent(run.tx + 1)
    BY <1>1, ThisIdNew
  <2>4. /\ AllOn(OutsHere) = O /\ Spread(OutsHere)
        /\ \A o \in DOMAIN OutsHere : o[1] = T.id /\ o \notin Special
    <3>1. DOMAIN tx.outs = 1..Len(T.outs)
      BY <1>2 DEF Sited, Positions
    <3>. QED BY <1>1, <2>1, <3>1, OutsCached
  <2>5. C1 = C \cup O /\ Spread(staged'.cache)
    <3>. DEFINE m == staged.cache
                g == OutsHere
    <3>1. Spread(m) /\ Spread(g) /\ \A k \in AllOn(m) : k \notin AllOn(g)
      BY <2>1, <2>4 DEF Separate
    <3>2. \A o \in DOMAIN m : o \notin DOMAIN g
      BY <2>2, <2>3, <2>4 DEF OutsFrom
    <3>. HIDE DEF m, g
    <3>3. AllOn(PutAll(m, g)) = AllOn(m) \cup AllOn(g) /\ Spread(PutAll(m, g))
      BY <3>1, <3>2, AllOnPutAll
    <3>. QED BY <1>1, <2>4, <3>3 DEF m, g
  <2>6. W1 = W \cup Q /\ Apart(run'.flotsam)
    BY <2>1, RestWaits DEF Separate
  <2>7. /\ Keys(Queue') = {} /\ Apart(Queue') /\ Keys(Rest') = {} /\ Apart(Rest')
        /\ AllOn(Outs') = {} /\ Spread(Outs') /\ AllOn(Untaken') = {} /\ Spread(Untaken')
        /\ AllOn(Untaken) = {}
    BY <1>5, <1>6, NoKeys, AllOnNothing
  <2>8. EachApart'
    BY <1>1, <1>5, <2>1, <2>5, <2>6, <2>7 DEF EachApart
  <2>. HIDE DEF U, C, O, Q, W, C1, W1
  <2>9. Separate(U, C1, {}, {}, {}, {}, W1)
    BY <2>1, <2>5, <2>6 DEF Separate
  <2>10. U \cup C1 \cup {} \cup {} \cup {} \cup {} \cup W1 = U \cup C \cup O \cup {} \cup Q \cup {} \cup W
    BY <2>5, <2>6
  <2>11. AllApart' /\ Everywhere' = Everywhere
    BY <1>1, <1>5, <1>6, <1>7, <2>7, <2>9, <2>10 DEF AllApart, Everywhere, U, C, O, Q, W, C1, W1
  <2>12. Placed'
    BY <1>1, <1>10, <2>8, <2>11, KeptPlaced DEF Held
  <2>13. FromDone'
    <3>1. Spent(run.tx) \subseteq Spent(run.tx + 1)
      BY <1>2 DEF Spent
    <3>2. OutsFrom(staged'.cache, Spent(run.tx + 1))
      BY <1>1, <2>2, <2>3, <2>4, <3>1 DEF OutsFrom, PutAll
    <3>3. NewFrom(W1, Spent(run.tx + 1))
      BY <2>2, <2>6, <3>1 DEF NewFrom
    <3>4. \A X : NewFrom({}, X)
      BY DEF NewFrom
    <3>. QED BY <1>1, <1>4, <1>5, <1>6, <1>8, <2>2, <2>7, <3>2, <3>3, <3>4, IndexingFromDone DEF W1
  <2>14. IdsMatch(tab)'
    BY <1>1, <1>10 DEF Held, IdsMatch
  <2>. QED BY <1>1, <1>10, <2>12, <2>13, <2>14, PastWhole DEF Held
<1>. QED BY <1>1, <1>9, <1>10 DEF Sited

\* The lost sats carry no inscription.
LEMMA NullEntry ==
  ASSUME NEW m, EntriesOK(m), Spread(m), NEW sats
  PROVE  LET r == Put(m, Null, Merged(Cached(m, Null), [sats |-> sats, ins |-> << >>]))
         IN AllOn(r) = AllOn(m) /\ Spread(r)
<1>. DEFINE a == Cached(m, Null)
            b == [sats |-> sats, ins |-> << >>]
            e == Merged(a, b)
            K == {}
<1>1. b.ins = << >> /\ e.ins = a.ins \o b.ins
  BY DEF Merged
<1>2. EntryOK(a)
  BY CachedOK
<1>3. Null \in DOMAIN m => a = m[Null] /\ Single(a)
  BY DEF Cached, Spread
<1>4. Null \notin DOMAIN m => On(a) = {} /\ Single(a)
  <2>1. Null \notin DOMAIN m => a.ins = << >>
    BY DEF Cached, NoEntry
  <2>. HIDE DEF a
  <2>. QED BY <2>1, OnNothing
<1>. HIDE DEF a, b, e
<1>5. IsSeq(a.ins) /\ IsSeq(b.ins)
  BY <1>1, <1>2, EntryInsSeq, NothingSeq
<1>6. IsConcat(e.ins, a.ins, b.ins)
  BY <1>1, <1>5, ConcatSeq
<1>7. On(b) = {} /\ Single(b)
  BY <1>1, OnNothing
<1>8. On(e) = On(a) \cup On(b) /\ Single(e)
  BY <1>3, <1>4, <1>5, <1>6, <1>7, OnMerged
<1>9. On(e) = On(a)
  BY <1>7, <1>8
<1>10. IF Null \in DOMAIN m THEN On(e) = On(m[Null]) \cup K ELSE On(e) = K
  BY <1>3, <1>4, <1>9
<1>11. \A k \in K : k \notin AllOn(m)
  OBVIOUS
<1>. DEFINE o == Null
<1>12. IF o \in DOMAIN m THEN On(e) = On(m[o]) \cup K ELSE On(e) = K
  BY <1>10
<1>13. K = {}
  OBVIOUS
<1>. HIDE DEF K, o
<1>14. AllOn(Put(m, o, e)) = AllOn(m) \cup K /\ Spread(Put(m, o, e))
  BY <1>8, <1>11, <1>12, AllOnPut
<1>. QED BY <1>13, <1>14 DEF o, a, b, e

\* Outside of the transactions everything is in the table or in the cache.
LEMMA OutsidePlaced ==
  ASSUME Placed, ViewsNone, ViewsNone', Waiting = << >>, Waiting' = << >>,
         tab'.entries = tab.entries, tab'.ids = tab.ids,
         Spread(tab'.utxo), Spread(staged'.cache),
         \A k \in AllOn(tab'.utxo) : k \notin AllOn(staged'.cache),
         \A k : k \in AllOn(tab'.utxo) \/ k \in AllOn(staged'.cache)
                <=> k \in AllOn(tab.utxo) \/ k \in AllOn(staged.cache)
  PROVE  Placed'
<1>. DEFINE U == AllOn(tab.utxo)
            C == AllOn(staged.cache)
            U1 == AllOn(tab'.utxo)
            C1 == AllOn(staged'.cache)
<1>1. /\ Keys(Queue) = {} /\ Keys(Rest) = {} /\ Keys(Waiting) = {}
      /\ AllOn(Outs) = {} /\ AllOn(Untaken) = {}
  BY NoKeys, NoneRest, AllOnNothing DEF ViewsNone, Rest
<1>2. /\ Queue' = << >> /\ Rest' = << >> /\ Waiting' = << >> /\ Outs' = << >> /\ Untaken' = << >>
  BY NoneRest DEF ViewsNone, Rest
<1>3. /\ Keys(Queue') = {} /\ Keys(Rest') = {} /\ Keys(Waiting') = {}
      /\ AllOn(Outs') = {} /\ AllOn(Untaken') = {}
      /\ Apart(Queue') /\ Apart(Rest') /\ Apart(Waiting') /\ Spread(Outs') /\ Spread(Untaken')
  BY <1>2, NoKeys, AllOnNothing
<1>4. EachApart'
  BY <1>3 DEF EachApart
<1>5. \A k \in U1 : k \notin C1
  OBVIOUS
<1>6. U1 \cup C1 = U \cup C
  OBVIOUS
<1>. HIDE DEF U, C, U1, C1
<1>7. Separate(U1, C1, {}, {}, {}, {}, {})
  BY <1>5 DEF Separate
<1>8. U1 \cup C1 \cup {} \cup {} \cup {} \cup {} \cup {} = U \cup C \cup {} \cup {} \cup {} \cup {} \cup {}
  BY <1>6
<1>9. AllApart' /\ Everywhere' = Everywhere
  BY <1>1, <1>3, <1>7, <1>8 DEF AllApart, Everywhere, U, C, U1, C1
<1>. QED BY <1>4, <1>9, KeptPlaced

\* No block is indexed.
ViewsIdle == ViewsNone /\ Waiting = << >> /\ tx = Absent /\ ~Indexing

LEMMA ViewIdle == Frame /\ ~Indexing => ViewsIdle
<1>. SUFFICES ASSUME Frame, ~Indexing PROVE ViewsIdle
  OBVIOUS
<1>1. tx = Absent /\ saved = NoSaved
  BY DEF Frame, Control
<1>2. ~InTx
  BY <1>1 DEF InTx, NoSaved
<1>. QED BY <1>1, <1>2, ViewNone DEF ViewsIdle, Waiting

LEMMA IdlePositions == ASSUME ViewsIdle' PROVE Positions'
<1>1. ~InTx' /\ tx' = Absent /\ ~Indexing'
  BY DEF ViewsIdle, ViewsNone
<1>. QED BY <1>1, OutsidePositions

LEMMA FinishBlockFields ==
  ASSUME Frame, FinishBlock
  PROVE  /\ run # Absent /\ tx = Absent /\ run.tx > Len(Txs) /\ RunOK(run)
         /\ UNCHANGED <<chain, block, past, records>> /\ TabOK(tab) /\ StagedOK(staged)
         /\ tab'.utxo = tab.utxo /\ tab'.entries = tab.entries /\ tab'.ids = tab.ids
         /\ staged'.state = "Commit"
         /\ staged'.cache =
              IF run.lost = << >> THEN staged.cache
              ELSE Put(staged.cache, Null, Merged(Cached(staged.cache, Null),
                                                  [sats |-> run.lost, ins |-> << >>]))
<1>. DEFINE rare == RareOn(Null, run.lost, tab.stats.lost)
            null == Merged(Cached(staged.cache, Null), [sats |-> run.lost, ins |-> << >>])
            last == Put(tab.last, H, run.next)
            satPoints == PutAll(tab.satPoints, rare)
            stats == [run.stats EXCEPT !.lost = tab.stats.lost + Len(run.lost)]
            cache == IF run.lost = << >> THEN staged.cache ELSE Put(staged.cache, Null, null)
            noted == staged.record.satPoints \cup DOMAIN rare
            before == tab.stats
            commit == "Commit"
<1>1. /\ run # Absent /\ tx = Absent /\ run.tx > Len(Txs)
      /\ UNCHANGED <<chain, block, past, records>> /\ TabOK(tab) /\ StagedOK(staged) /\ RunOK(run)
      /\ tab' = [tab EXCEPT !.last = last, !.satPoints = satPoints, !.stats = stats]
      /\ staged' = [staged EXCEPT !.state = commit, !.cache = cache,
                                  !.record.satPoints = noted, !.record.stats = before]
  BY DEF FinishBlock, Frame, Types
<1>. HIDE DEF last, satPoints, stats, cache, noted, before, commit
<1>2. tab'.utxo = tab.utxo /\ tab'.entries = tab.entries /\ tab'.ids = tab.ids
  BY <1>1 DEF TabOK, TabShape
<1>3. staged'.cache = cache /\ staged'.state = "Commit"
  BY <1>1 DEF StagedOK, StagedShape, commit
<1>. QED BY <1>1, <1>2, <1>3 DEF cache, null

LEMMA FinishBlockSited == ASSUME Frame, Frame', Sited, FinishBlock PROVE Sited'
<1>. DEFINE null == Merged(Cached(staged.cache, Null), [sats |-> run.lost, ins |-> << >>])
            cache == IF run.lost = << >> THEN staged.cache ELSE Put(staged.cache, Null, null)
<1>1. /\ run # Absent /\ tx = Absent /\ run.tx > Len(Txs) /\ RunOK(run)
      /\ UNCHANGED <<chain, block, past, records>> /\ TabOK(tab) /\ StagedOK(staged)
  BY FinishBlockFields
<1>7. tab'.utxo = tab.utxo /\ tab'.entries = tab.entries /\ tab'.ids = tab.ids
  BY FinishBlockFields
<1>8. staged'.cache = cache /\ staged'.state = "Commit"
  BY FinishBlockFields
<1>2. block # None /\ Indexing /\ At = run
  BY <1>1 DEF Frame, Control, Indexing, At
<1>3. /\ Len(Txs) \in Nat /\ run.tx = Len(Txs) + 1 /\ ~InTx
      /\ TxIds(block) = {Txs[i].id : i \in 1..Len(Txs)}
      /\ Known(Len(chain)) \cap TxIds(block) = {}
  <2>1. /\ Len(Txs) \in Nat /\ TxIds(block) = {Txs[i].id : i \in 1..Len(Txs)}
        /\ Known(Len(chain)) \cap TxIds(block) = {}
    BY <1>2, TxsFacts DEF Frame
  <2>2. run.tx \in 1..Len(Txs) + 1 /\ (InTx => run.tx <= Len(Txs)) /\ run.tx \in Nat
    BY <1>1, <1>2 DEF Frame, Control, RunOK
  <2>3. run.tx = Len(Txs) + 1 /\ ~InTx
    BY <1>1, <2>1, <2>2
  <2>. QED BY <2>1, <2>3
<1>4. Spent(run.tx) = TxIds(block) /\ Entering = run.tx
  <2>1. run.tx - 1 = Len(Txs)
    BY <1>3
  <2>. QED BY <1>2, <1>3, <2>1 DEF Spent, Entering
<1>5. \A o \in DOMAIN cache : o \in DOMAIN staged.cache \/ o \in Special
  BY DEF Put, Special
<1>6. Spread(staged.cache) => AllOn(cache) = AllOn(staged.cache) /\ Spread(cache)
  <2>. DEFINE m == staged.cache
              sats == run.lost
  <2>1. EntriesOK(m)
    BY <1>1 DEF StagedOK
  <2>2. cache = IF sats = << >> THEN m
                ELSE Put(m, Null, Merged(Cached(m, Null), [sats |-> sats, ins |-> << >>]))
    OBVIOUS
  <2>. HIDE DEF m, sats, cache
  <2>3. Spread(m) => AllOn(cache) = AllOn(m) /\ Spread(cache)
    BY <2>1, <2>2, NullEntry
  <2>. QED BY <2>3 DEF m
<1>. HIDE DEF cache
<1>9. ~Indexing' /\ Committing' /\ block' # None
  BY <1>1, <1>2, <1>8 DEF Indexing, Committing
<1>10. ViewsIdle'
  <2>1. (Frame /\ ~Indexing => ViewsIdle)'
    BY ViewIdle, PTL
  <2>. QED BY <1>9, <2>1
<1>11. ViewsNone /\ Waiting = << >>
  <2>1. Waiting = run.flotsam
    BY <1>1, <1>2 DEF Waiting, Accounts
  <2>2. run.flotsam = << >>
    BY <1>1, <1>2 DEF Sited, Positions, Accounts
  <2>. QED BY <1>3, <2>1, <2>2, ViewNone
<1>12. ASSUME Held PROVE Held'
  <2>1. /\ Spread(tab.utxo) /\ Spread(staged.cache)
        /\ \A k \in AllOn(tab.utxo) : k \notin AllOn(staged.cache)
    BY <1>12 DEF Held, Placed, EachApart, AllApart, Separate
  <2>2. Placed'
    <3>1. AllOn(staged'.cache) = AllOn(staged.cache) /\ Spread(staged'.cache)
      BY <1>6, <1>8, <2>1
    <3>. QED BY <1>7, <1>10, <1>11, <1>12, <2>1, <3>1, OutsidePlaced DEF ViewsIdle, Held
  <2>3. /\ IdsFrom(tab.ids, Known(Len(chain)) \cup TxIds(block))
        /\ OutsFrom(tab.utxo, Known(Len(chain))) /\ OutsFrom(staged.cache, TxIds(block))
    BY <1>2, <1>4, <1>12 DEF Held, FromDone
  <2>4. OutsFrom(cache, TxIds(block))
    BY <1>5, <2>3 DEF OutsFrom
  <2>5. OutsFrom(tab.utxo, Known(Len(chain)) \cup TxIds(block))
    BY <2>3 DEF OutsFrom
  <2>6. \A o \in DOMAIN cache : o \in Special \/ o \notin DOMAIN tab.utxo
    BY <1>3, <2>3, <2>4 DEF OutsFrom
  <2>7. Known(Len(chain))' = Known(Len(chain)) /\ TxIds(block)' = TxIds(block)
    BY <1>1 DEF Known
  <2>8. FromDone'
    BY <1>7, <1>8, <1>9, <2>3, <2>4, <2>5, <2>6, <2>7 DEF FromDone
  <2>9. IdsMatch(tab)'
    BY <1>7, <1>12 DEF Held, IdsMatch
  <2>. QED BY <1>1, <1>12, <2>2, <2>8, <2>9, PastWhole DEF Held
<1>. QED BY <1>1, <1>10, <1>12, IdlePositions DEF Sited

\* An output goes from the cache to the table.
LEMMA OneOver ==
  ASSUME NEW U, NEW C, NEW o, o \in DOMAIN C, Spread(U), Spread(C), EntriesOK(U), EntriesOK(C),
         \A k \in AllOn(U) : k \notin AllOn(C), o \in Special \/ o \notin DOMAIN U
  PROVE  LET e == IF o \in Special /\ o \in DOMAIN U THEN Merged(U[o], C[o]) ELSE C[o]
             U1 == Put(U, o, e)
             C1 == Drop(C, {o})
         IN /\ Spread(U1) /\ Spread(C1) /\ \A k \in AllOn(U1) : k \notin AllOn(C1)
            /\ \A k : k \in AllOn(U1) \/ k \in AllOn(C1) <=> k \in AllOn(U) \/ k \in AllOn(C)
<1>. DEFINE e == IF o \in Special /\ o \in DOMAIN U THEN Merged(U[o], C[o]) ELSE C[o]
            K == On(C[o])
<1>1. Single(C[o]) /\ \A k \in K : k \in AllOn(C) /\ k \notin AllOn(U)
  BY AllOnIs DEF Spread
<1>2. /\ Single(e)
      /\ IF o \in DOMAIN U THEN On(e) = On(U[o]) \cup K ELSE On(e) = K
  <2>1. CASE o \notin DOMAIN U
    BY <1>1, <2>1
  <2>2. CASE o \in DOMAIN U
    <3>. DEFINE a == U[o]
                b == C[o]
                f == Merged(a, b)
    <3>1. e = f
      BY <2>2
    <3>2. EntryOK(a) /\ EntryOK(b) /\ Single(a) /\ Single(b) /\ \A k \in On(a) : k \notin On(b)
      BY <1>1, <2>2, AllOnIs DEF Spread, EntriesOK
    <3>3. f.ins = a.ins \o b.ins
      BY DEF Merged
    <3>. HIDE DEF a, b, f, e
    <3>4. IsSeq(a.ins) /\ IsSeq(b.ins)
      BY <3>2, EntryInsSeq
    <3>5. IsConcat(f.ins, a.ins, b.ins)
      BY <3>3, <3>4, ConcatSeq
    <3>6. On(f) = On(a) \cup On(b) /\ Single(f)
      BY <3>2, <3>4, <3>5, OnMerged
    <3>. QED BY <2>2, <3>1, <3>6 DEF a, b
  <2>. QED BY <2>1, <2>2
<1>. HIDE DEF e, K
<1>3. AllOn(Put(U, o, e)) = AllOn(U) \cup K /\ Spread(Put(U, o, e))
  BY <1>1, <1>2, AllOnPut
<1>4. /\ AllOn(Drop(C, {o})) \subseteq AllOn(C) /\ Spread(Drop(C, {o}))
      /\ \A p \in DOMAIN C : \A k \in On(C[p]) : k \in AllOn(Drop(C, {o})) <=> p # o
  <2>1. \A p : p \notin {o} <=> p # o
    OBVIOUS
  <2>. DEFINE S == {o}
  <2>. HIDE DEF S
  <2>2. /\ AllOn(Drop(C, S)) \subseteq AllOn(C) /\ Spread(Drop(C, S))
        /\ \A p \in DOMAIN C : \A k \in On(C[p]) : k \in AllOn(Drop(C, S)) <=> p \notin S
    BY AllOnDrop
  <2>. QED BY <2>1, <2>2 DEF S
<1>. DEFINE D == AllOn(Drop(C, {o}))
<1>5. \A k : k \in AllOn(C) <=> k \in D \/ k \in K
  <2>1. ASSUME NEW k \in AllOn(C) PROVE k \in D \/ k \in K
    <3>1. PICK p \in DOMAIN C : k \in On(C[p])
      BY AllOnIs
    <3>. QED BY <1>4, <3>1 DEF K
  <2>. QED BY <1>1, <1>4, <2>1
<1>6. \A k \in K : k \notin D
  BY <1>4 DEF K
<1>. HIDE DEF D
<1>7. /\ \A k \in AllOn(Put(U, o, e)) : k \notin D
      /\ \A k : k \in AllOn(Put(U, o, e)) \/ k \in D <=> k \in AllOn(U) \/ k \in AllOn(C)
  BY <1>3, <1>5, <1>6
<1>. QED BY <1>3, <1>4, <1>7 DEF D, e

LEMMA CommitOutputFields ==
  ASSUME Frame, CommitOutput
  PROVE  /\ Committing /\ UNCHANGED <<chain, block, past, run, tx, saved>>
         /\ EntriesOK(staged.cache) /\ EntriesOK(tab.utxo)
         /\ tab'.entries = tab.entries /\ tab'.ids = tab.ids /\ staged'.state = staged.state
         /\ \E o \in DOMAIN staged.cache :
              /\ tab'.utxo = Put(tab.utxo, o, IF o \in Special /\ o \in DOMAIN tab.utxo
                                              THEN Merged(tab.utxo[o], staged.cache[o])
                                              ELSE staged.cache[o])
              /\ staged'.cache = Drop(staged.cache, {o})
<1>. DEFINE o == CHOOSE o \in DOMAIN staged.cache : TRUE
            entry == IF o \in Special /\ o \in DOMAIN tab.utxo
                     THEN Merged(tab.utxo[o], staged.cache[o]) ELSE staged.cache[o]
            utxo == Put(tab.utxo, o, entry)
            cache == Drop(staged.cache, {o})
            outpoints == staged.record.outpoints \cup {o}
            pending == entry.ins
<1>1. /\ Committing /\ UNCHANGED <<chain, block, past, run, tx, saved>>
      /\ TabShape(tab) /\ StagedShape(staged) /\ EntriesOK(staged.cache) /\ EntriesOK(tab.utxo)
      /\ DOMAIN staged.cache # {}
      /\ tab' = [tab EXCEPT !.utxo = utxo]
      /\ staged' = [staged EXCEPT !.cache = cache, !.outpoint = o, !.pending = pending,
                                  !.record.outpoints = outpoints]
  <2>1. /\ Committing /\ UNCHANGED <<chain, block, past, run, tx, saved>>
        /\ TabShape(tab) /\ StagedShape(staged) /\ EntriesOK(staged.cache) /\ EntriesOK(tab.utxo)
        /\ staged.cache # << >>
        /\ tab' = [tab EXCEPT !.utxo = utxo]
        /\ staged' = [staged EXCEPT !.cache = cache, !.outpoint = o, !.pending = pending,
                                    !.record.outpoints = outpoints]
    BY DEF CommitOutput, Frame, Types, TabOK, StagedOK
  <2>. HIDE DEF o, utxo, cache, pending, outpoints
  <2>2. DOMAIN staged.cache # {}
    <3>1. ASSUME NEW f, f = [x \in DOMAIN f |-> f[x]], DOMAIN f = {} PROVE f = << >>
      BY <3>1
    <3>. QED BY <2>1, <3>1 DEF EntriesOK
  <2>. QED BY <2>1, <2>2
<1>2. o \in DOMAIN staged.cache
  BY <1>1
<1>. HIDE DEF o
<1>. HIDE DEF utxo, cache, pending, outpoints, entry
<1>3. tab'.utxo = utxo /\ tab'.entries = tab.entries /\ tab'.ids = tab.ids
  BY <1>1 DEF TabShape
<1>4. staged'.cache = cache /\ staged'.state = staged.state
  BY <1>1 DEF StagedShape
<1>5. /\ tab'.utxo = Put(tab.utxo, o, IF o \in Special /\ o \in DOMAIN tab.utxo
                                      THEN Merged(tab.utxo[o], staged.cache[o])
                                      ELSE staged.cache[o])
      /\ staged'.cache = Drop(staged.cache, {o})
  BY <1>3, <1>4 DEF utxo, cache, entry
<1>. QED BY <1>1, <1>2, <1>3, <1>4, <1>5

LEMMA CommitOutputSited == ASSUME Frame, Frame', Sited, CommitOutput PROVE Sited'
<1>1. /\ Committing /\ UNCHANGED <<chain, block, past, run, tx, saved>>
      /\ EntriesOK(staged.cache) /\ EntriesOK(tab.utxo)
  BY CommitOutputFields
<1>2. PICK o \in DOMAIN staged.cache :
        /\ tab'.utxo = Put(tab.utxo, o, IF o \in Special /\ o \in DOMAIN tab.utxo
                                        THEN Merged(tab.utxo[o], staged.cache[o])
                                        ELSE staged.cache[o])
        /\ staged'.cache = Drop(staged.cache, {o})
  BY CommitOutputFields
<1>. DEFINE entry == IF o \in Special /\ o \in DOMAIN tab.utxo
                     THEN Merged(tab.utxo[o], staged.cache[o]) ELSE staged.cache[o]
            utxo == Put(tab.utxo, o, entry)
            cache == Drop(staged.cache, {o})
<1>5. tab'.utxo = utxo /\ tab'.entries = tab.entries /\ tab'.ids = tab.ids
  BY <1>2, CommitOutputFields
<1>6. staged'.cache = cache /\ staged'.state = staged.state
  BY <1>2, CommitOutputFields
<1>3. ASSUME Spread(tab.utxo), Spread(staged.cache), o \in Special \/ o \notin DOMAIN tab.utxo,
             \A k \in AllOn(tab.utxo) : k \notin AllOn(staged.cache)
      PROVE  /\ Spread(utxo) /\ Spread(cache) /\ \A k \in AllOn(utxo) : k \notin AllOn(cache)
             /\ \A k : k \in AllOn(utxo) \/ k \in AllOn(cache)
                       <=> k \in AllOn(tab.utxo) \/ k \in AllOn(staged.cache)
  <2>. DEFINE U == tab.utxo
              C == staged.cache
  <2>1. EntriesOK(U) /\ EntriesOK(C) /\ Spread(U) /\ Spread(C) /\ o \in DOMAIN C
        /\ (o \in Special \/ o \notin DOMAIN U) /\ \A k \in AllOn(U) : k \notin AllOn(C)
    BY <1>1, <1>2, <1>3
  <2>2. utxo = Put(U, o, IF o \in Special /\ o \in DOMAIN U THEN Merged(U[o], C[o]) ELSE C[o])
        /\ cache = Drop(C, {o})
    OBVIOUS
  <2>. HIDE DEF U, C, utxo, cache
  <2>3. /\ Spread(utxo) /\ Spread(cache) /\ \A k \in AllOn(utxo) : k \notin AllOn(cache)
        /\ \A k : k \in AllOn(utxo) \/ k \in AllOn(cache) <=> k \in AllOn(U) \/ k \in AllOn(C)
    BY <2>1, <2>2, OneOver
  <2>. QED BY <2>3 DEF U, C
<1>4. DOMAIN utxo = DOMAIN tab.utxo \cup {o}
      /\ \A p : p \in DOMAIN cache <=> p \in DOMAIN staged.cache /\ p # o
  BY DEF Put, Drop
<1>. HIDE DEF utxo, cache, entry
<1>7. /\ ~Indexing /\ ~Indexing' /\ Committing' /\ block' # None
  BY <1>1, <1>6 DEF Indexing, Committing
<1>8. ViewsIdle /\ ViewsIdle'
  <2>1. (Frame /\ ~Indexing => ViewsIdle)'
    BY ViewIdle, PTL
  <2>. QED BY <1>7, <2>1, ViewIdle
<1>9. ASSUME Held PROVE Held'
  <2>1. /\ Spread(tab.utxo) /\ Spread(staged.cache)
        /\ \A k \in AllOn(tab.utxo) : k \notin AllOn(staged.cache)
    BY <1>9 DEF Held, Placed, EachApart, AllApart, Separate
  <2>2. /\ IdsFrom(tab.ids, Known(Len(chain)) \cup TxIds(block))
        /\ OutsFrom(tab.utxo, Known(Len(chain)) \cup TxIds(block))
        /\ OutsFrom(staged.cache, TxIds(block))
        /\ \A p \in DOMAIN staged.cache : p \in Special \/ p \notin DOMAIN tab.utxo
    BY <1>1, <1>9 DEF Held, FromDone
  <2>3. /\ Spread(utxo) /\ Spread(cache) /\ \A k \in AllOn(utxo) : k \notin AllOn(cache)
        /\ \A k : k \in AllOn(utxo) \/ k \in AllOn(cache)
                  <=> k \in AllOn(tab.utxo) \/ k \in AllOn(staged.cache)
    BY <1>2, <1>3, <2>1, <2>2
  <2>4. Placed'
    BY <1>5, <1>6, <1>8, <1>9, <2>3, OutsidePlaced DEF ViewsIdle, Held
  <2>5. /\ OutsFrom(utxo, Known(Len(chain)) \cup TxIds(block)) /\ OutsFrom(cache, TxIds(block))
        /\ \A p \in DOMAIN cache : p \in Special \/ p \notin DOMAIN utxo
    BY <1>2, <1>4, <2>2 DEF OutsFrom
  <2>6. Known(Len(chain))' = Known(Len(chain)) /\ TxIds(block)' = TxIds(block)
    BY <1>1 DEF Known
  <2>7. FromDone'
    BY <1>5, <1>6, <1>7, <2>2, <2>5, <2>6 DEF FromDone
  <2>8. IdsMatch(tab)'
    BY <1>5, <1>9 DEF Held, IdsMatch
  <2>. QED BY <1>1, <1>9, <2>4, <2>7, <2>8, PastWhole DEF Held
<1>. QED BY <1>1, <1>8, <1>9, IdlePositions DEF Sited

LEMMA CommitInscriptionSited == ASSUME Frame, Sited, CommitInscription PROVE Sited'
  BY CommitInscriptionPlaces, InertSited

LEMMA SaveSited == ASSUME Frame, Frame', Sited, Save PROVE Sited'
<1>. DEFINE n == Len(chain)
<1>1. /\ Committing /\ block # None /\ block' = None /\ chain' = Append(chain, block)
      /\ UNCHANGED <<tab, past>> /\ staged' = NoStaged /\ staged.cache = << >>
  BY DEF Save, Committing
<1>2. /\ chain \in Seq(Blocks) /\ block \in Blocks /\ n \in Nat /\ DOMAIN past.tab = 0..n
  BY <1>1, TxsFacts DEF Frame, Linked
<1>3. /\ \A h \in 0..n : Known(h)' = Known(h)
      /\ Known(Len(chain))' = Known(n) \cup TxIds(block)
  BY <1>1, <1>2, KnownMore
<1>. HIDE DEF n
<1>4. staged'.cache = << >> /\ ~Indexing' /\ ~Committing' /\ ~Indexing
  BY <1>1 DEF NoStaged, Indexing, Committing
<1>5. ViewsIdle /\ ViewsIdle'
  <2>1. (Frame /\ ~Indexing => ViewsIdle)'
    BY ViewIdle, PTL
  <2>. QED BY <1>4, <2>1, ViewIdle
<1>6. ASSUME Held PROVE Held'
  <2>1. /\ Spread(tab.utxo) /\ Spread(staged.cache)
        /\ \A k \in AllOn(tab.utxo) : k \notin AllOn(staged.cache)
    BY <1>6 DEF Held, Placed, EachApart, AllApart, Separate
  <2>2. Placed'
    <3>1. staged'.cache = staged.cache /\ tab'.utxo = tab.utxo /\ tab'.entries = tab.entries
          /\ tab'.ids = tab.ids
      BY <1>1, <1>4
    <3>. QED BY <1>5, <1>6, <2>1, <3>1, OutsidePlaced DEF ViewsIdle, Held
  <2>3. /\ IdsFrom(tab.ids, Known(n) \cup TxIds(block))
        /\ OutsFrom(tab.utxo, Known(n) \cup TxIds(block))
    BY <1>1, <1>6 DEF Held, FromDone, n
  <2>4. FromDone'
    BY <1>1, <1>3, <1>4, <2>3 DEF FromDone
  <2>5. IdsMatch(tab)'
    BY <1>1, <1>6 DEF Held, IdsMatch
  <2>6. (\A h \in DOMAIN past.tab : Whole(past.tab[h], h))'
    <3>1. \A h \in DOMAIN past.tab : Whole(past.tab[h], h)
      BY <1>6 DEF Held
    <3>. QED BY <1>1, <1>2, <1>3, <3>1 DEF Whole
  <2>. QED BY <2>2, <2>4, <2>5, <2>6 DEF Held
<1>. QED BY <1>1, <1>5, <1>6, IdlePositions DEF Sited

\* Between two blocks the tables are whole, and only then.
LEMMA BetweenWhole == Frame /\ block = None =>
  (Held <=> (\A h \in DOMAIN past.tab : Whole(past.tab[h], h)) /\ Whole(tab, Len(chain)))
<1>. SUFFICES ASSUME Frame, block = None
              PROVE  Held <=> /\ \A h \in DOMAIN past.tab : Whole(past.tab[h], h)
                              /\ Whole(tab, Len(chain))
  OBVIOUS
<1>1. staged = NoStaged /\ ~Indexing /\ ~Committing /\ staged.cache = << >>
  BY DEF Frame, Control, Indexing, Committing, NoStaged
<1>2. ViewsIdle
  BY <1>1, ViewIdle
<1>3. /\ Keys(Queue) = {} /\ Keys(Rest) = {} /\ Keys(Waiting) = {}
      /\ AllOn(Outs) = {} /\ AllOn(Untaken) = {} /\ AllOn(staged.cache) = {}
      /\ Apart(Queue) /\ Apart(Rest) /\ Apart(Waiting)
      /\ Spread(Outs) /\ Spread(Untaken) /\ Spread(staged.cache)
  <2>1. Queue = << >> /\ Rest = << >> /\ Waiting = << >> /\ Outs = << >> /\ Untaken = << >>
    BY <1>2, NoneRest DEF ViewsIdle, ViewsNone, Rest
  <2>. QED BY <1>1, <2>1, NoKeys, AllOnNothing
<1>4. Everywhere = AllOn(tab.utxo)
  BY <1>3 DEF Everywhere
<1>5. AllApart
  BY <1>3 DEF AllApart, Separate
<1>6. EachApart <=> Spread(tab.utxo)
  BY <1>3 DEF EachApart
<1>7. FromDone <=> IdsFrom(tab.ids, Known(Len(chain))) /\ OutsFrom(tab.utxo, Known(Len(chain)))
  BY <1>1 DEF FromDone
<1>8. \A x : New(x) \notin AllOn(tab.utxo)
  BY OnlyOld
<1>9. Placed <=> /\ Spread(tab.utxo)
                 /\ \A seq : Old(seq) \in AllOn(tab.utxo) <=> seq \in DOMAIN tab.entries
  BY <1>4, <1>5, <1>6, <1>8 DEF Placed
<1>. QED BY <1>7, <1>9 DEF Held, Whole

LEMMA InitSited == ASSUME Init PROVE Sited
<1>1. /\ tab = NoTables /\ block = None /\ past.tab = << >> /\ Frame
  BY InitFrame DEF Init
<1>2. NoTables.entries = << >> /\ NoTables.ids = << >> /\ NoTables.utxo = << >>
  BY DEF NoTables
<1>3. AllOn(tab.utxo) = {} /\ Spread(tab.utxo)
  BY <1>1, <1>2, AllOnNothing
<1>4. Whole(tab, Len(chain))
  BY <1>1, <1>2, <1>3 DEF Whole, IdsMatch, IdsFrom, OutsFrom
<1>. QED BY <1>1, <1>4, InitPositions, BetweenWhole DEF Sited

LEMMA StageSited == ASSUME Frame, Frame', Sited, Stage PROVE Sited'
<1>. DEFINE n == Len(chain)
<1>1. /\ block = None /\ staged = NoStaged /\ staged' = staged /\ saved' = saved /\ saved = NoSaved
      /\ run' = run /\ run = Absent /\ tx' = tx /\ tx = Absent /\ cursor' = NoCursor
      /\ UNCHANGED <<chain, tab>>
  BY DEF Stage, Frame, Control, Indexing
<1>2. PICK b \in Blocks : /\ block' = b /\ past' = [past EXCEPT !.tab = Put(past.tab, Height[b], tab)]
  BY DEF Stage
<1>3. b # None /\ block' # None /\ Height[b] = n
  <2>1. block' # None
    BY <1>2, NoneAssumption
  <2>. QED BY <1>1, <1>2, <2>1 DEF Frame, Linked
<1>4. past'.tab = Put(past.tab, n, tab) /\ past'.clean = past.clean
  BY <1>2, <1>3 DEF Frame, Types, PastOK
<1>5. n \in Nat /\ DOMAIN past.tab = 0..n - 1
  BY <1>1 DEF Frame, Linked
<1>6. /\ past'.tab[n] = tab
      /\ \A h \in DOMAIN past'.tab : h = n \/ (h \in DOMAIN past.tab /\ past'.tab[h] = past.tab[h])
  BY <1>4, <1>5 DEF Put
<1>7. \A h : Known(h)' = Known(h)
  BY <1>1 DEF Known
<1>8. /\ ~Indexing /\ Indexing' /\ ~Committing' /\ ~InTx' /\ tx' = Absent
      /\ staged.cache = << >> /\ staged'.cache = << >> /\ At' = NoCursor /\ Accounts' = NewBlock'
  BY <1>1, <1>3 DEF Indexing, Committing, NoStaged, InTx, NoSaved, At, Accounts, Kept
<1>9. ViewsIdle /\ ViewsNone'
  <2>1. (~InTx => ViewsNone)'
    BY ViewNone, PTL
  <2>. QED BY <1>8, <2>1, ViewIdle
<1>10. Waiting' = << >>
  BY <1>8 DEF Waiting, NewBlock
<1>11. At'.tx = 1 /\ Entering' = 1 /\ Spent(1)' = {} /\ Spent(At.tx)' = {}
  <2>1. NoCursor.tx = 1 /\ 1..1 - 1 = {}
    BY DEF NoCursor
  <2>2. Spent(1)' = {}
    BY <2>1 DEF Spent
  <2>. QED BY <1>8, <2>1, <2>2 DEF Entering, Spent
<1>. HIDE DEF n
<1>12. ASSUME Held PROVE Held'
  <2>1. Whole(tab, n) /\ \A h \in DOMAIN past.tab : Whole(past.tab[h], h)
    BY <1>1, <1>12, BetweenWhole DEF n
  <2>2. (\A h \in DOMAIN past.tab : Whole(past.tab[h], h))'
    BY <1>6, <1>7, <2>1 DEF Whole
  <2>3. Placed'
    <3>1. /\ Spread(tab.utxo) /\ Spread(staged.cache)
          /\ \A k \in AllOn(tab.utxo) : k \notin AllOn(staged.cache)
      BY <1>12 DEF Held, Placed, EachApart, AllApart, Separate
    <3>. QED BY <1>1, <1>9, <1>10, <1>12, <3>1, OutsidePlaced DEF ViewsIdle, Held
  <2>4. FromDone'
    <3>1. /\ IdsFrom(tab'.ids, Known(Len(chain))') /\ OutsFrom(tab'.utxo, Known(Len(chain))')
      BY <1>1, <1>7, <2>1 DEF Whole, n
    <3>2. IdsFrom(tab'.ids, Known(Len(chain))' \cup Spent(Entering)')
      BY <3>1 DEF IdsFrom
    <3>3. OutsFrom(staged'.cache, Spent(At.tx)')
      BY <1>8 DEF OutsFrom
    <3>4. \A X : NewFrom({}, X)
      BY DEF NewFrom
    <3>5. Keys(Waiting') = {} /\ Keys(Rest') = {} /\ Keys(Queue') = {}
      BY <1>9, <1>10, NoneRest, NoKeys DEF ViewsNone, Rest
    <3>6. ~Reading'
      BY <1>8 DEF Reading
    <3>. HIDE DEF Reading, Indexing, Committing
    <3>7. block' # None
      BY <1>3
    <3>. QED BY <1>8, <3>1, <3>2, <3>3, <3>4, <3>5, <3>6, <3>7 DEF FromDone
  <2>5. IdsMatch(tab)'
    BY <1>1, <2>1 DEF Whole, IdsMatch
  <2>. QED BY <2>2, <2>3, <2>4, <2>5 DEF Held
<1>. QED BY <1>4, <1>12, StagePositions DEF Sited

LEMMA HandleReorgSited == ASSUME Frame, Frame', Listed, Sited, HandleReorg PROVE Sited'
<1>1. PICK n \in 1..MaxUndo :
        /\ n <= Len(chain) - 1
        /\ chain' = SubSeq(chain, 1, Len(chain) - 1 - n + 1)
        /\ past' = [tab |-> Drop(past.tab, Len(chain) - 1 - n + 1 .. Len(chain) - 1),
                    reorgs |-> past.reorgs + 1,
                    clean |-> past.clean /\ Plain(tab') = Plain(past.tab[Len(chain) - 1 - n + 1])]
  BY DEF HandleReorg
<1>2. block = None /\ block' = None
  BY DEF HandleReorg
<1>3. /\ n \in Nat /\ Len(chain) \in Nat /\ chain \in Seq(Blocks) /\ DOMAIN past.tab = 0..Len(chain) - 1
  BY <1>2, UndoAssumption DEF Frame, Linked
<1>. DEFINE m == Len(chain) - n
<1>5. /\ m \in 1..Len(chain) - 1 /\ m \in DOMAIN past.tab /\ m \in Nat
      /\ Len(chain) - 1 - n + 1 = m
  BY <1>1, <1>3
<1>6. Len(chain') = m /\ \A i \in 1..m : chain'[i] = chain[i]
  BY <1>1, <1>3, <1>5
<1>7. /\ past'.tab = Drop(past.tab, m..Len(chain) - 1)
      /\ past'.clean => past.clean /\ Plain(tab') = Plain(past.tab[m])
  BY <1>1, <1>5
<1>. HIDE DEF m
<1>8. /\ DOMAIN past'.tab = 0..m - 1
      /\ \A h \in 0..m - 1 : past'.tab[h] = past.tab[h]
  <2>1. (0..Len(chain) - 1) \ (m..Len(chain) - 1) = 0..m - 1
    BY <1>3, <1>5
  <2>. QED BY <1>3, <1>7, <2>1 DEF Drop
<1>9. \A h \in 0..m : Known(h)' = Known(h)
  <2>1. ASSUME NEW h \in 0..m PROVE Known(h)' = Known(h)
    <3>1. \A i \in 1..h : chain'[i] = chain[i]
      BY <1>5, <1>6
    <3>2. IdsOf(chain', h) = IdsOf(chain, h)
      BY <3>1 DEF IdsOf
    <3>. QED BY <3>2 DEF Known, IdsOf
  <2>. QED BY <2>1
<1>10. ASSUME past'.clean PROVE past.clean /\ Alike(past.tab[m], tab')
  <2>1. TabShape(tab') /\ TabShape(past.tab[m]) /\ past.clean /\ Plain(past.tab[m]) = Plain(tab')
    BY <1>5, <1>7, <1>10 DEF Frame, Types, TabOK, Listed
  <2>. QED BY <2>1, AlikePlain
<1>11. ASSUME past'.clean PROVE Held'
  <2>1. \A h \in DOMAIN past.tab : Whole(past.tab[h], h)
    BY <1>10, <1>11 DEF Sited, Held
  <2>2. (\A h \in DOMAIN past.tab : Whole(past.tab[h], h))'
    <3>1. \A h \in 0..m - 1 : h \in DOMAIN past.tab /\ h \in 0..m
      BY <1>3, <1>5
    <3>. QED BY <1>8, <1>9, <2>1, <3>1 DEF Whole
  <2>3. Whole(tab, Len(chain))'
    <3>1. Whole(past.tab[m], m) /\ m \in 0..m
      BY <1>5, <2>1
    <3>2. Whole(tab', m)
      <4>1. /\ tab'.entries = past.tab[m].entries /\ tab'.ids = past.tab[m].ids
            /\ tab'.utxo = past.tab[m].utxo
        BY <1>10, <1>11 DEF Alike
      <4>2. IdsMatch(tab')
        BY <3>1, <4>1 DEF Whole, IdsMatch
      <4>. QED BY <3>1, <4>1, <4>2 DEF Whole
    <3>3. Known(Len(chain))' = Known(m)
      <4>1. \A i \in 1..m : chain'[i] = chain[i]
        BY <1>6
      <4>2. IdsOf(chain', m) = IdsOf(chain, m)
        BY <4>1 DEF IdsOf
      <4>. QED BY <1>6, <4>2 DEF Known, IdsOf
    <3>. QED BY <3>2, <3>3 DEF Whole, IdsMatch
  <2>4. (Frame /\ block = None =>
           (Held <=> (\A h \in DOMAIN past.tab : Whole(past.tab[h], h)) /\ Whole(tab, Len(chain))))'
    BY BetweenWhole, PTL
  <2>. QED BY <1>2, <2>2, <2>3, <2>4
<1>12. Positions'
  <2>1. ~Indexing'
    BY <1>2 DEF Indexing
  <2>2. (Frame /\ ~Indexing => ViewsIdle)'
    BY ViewIdle, PTL
  <2>. QED BY <2>1, <2>2, IdlePositions
<1>. QED BY <1>11, <1>12 DEF Sited

LEMMA FinishInputsSited == ASSUME Frame, Frame', Sited, FinishInputs PROVE Sited'
<1>1. CASE Resumes
  BY <1>1, FinishInputsAgain, InertSited DEF Sited
<1>2. CASE ~Resumes
  BY <1>2, FinishInputsFirst
<1>. QED BY <1>1, <1>2

LEMMA InertActions ==
  ASSUME Frame, Frame', Sited,
         Break \/ Continue \/ NextOutput \/ FinishOutputs \/ FinishLocations \/ CommitInscription
  PROVE  Sited'
<1>1. SameView /\ SameSpot
  BY ContinuePlaces, NextOutputPlaces, FinishOutputsPlaces, FinishLocationsPlaces, BreakInputsPlaces,
     BreakOutputsPlaces, BreakLocationsPlaces, CommitInscriptionPlaces DEF Break, Sited
<1>. QED BY <1>1, InertSited

LEMMA NextSited == ASSUME Frame, Frame', Listed, Sited, [Next]_vars PROVE Sited'
<1>1. CASE UNCHANGED vars
  BY <1>1, StutterSited
<1>2. CASE Transaction
  BY <1>2, SpendSited, TakeSited, FinishInputSited, FinishInputsSited, PlaceSited, LocateSited,
     LoseSited, FinishTransactionSited, InertActions DEF Transaction
<1>. QED BY <1>1, <1>2, StageSited, BeginSited, FinishBlockSited, CommitOutputSited, SaveSited,
            HandleReorgSited, InertActions DEF Next

\* Between the calls of the loop and within them every inscription is in one
\* place, once: on an output of the tables, in the cache, afloat in the locals
\* or in what an interrupted message saved (index_transaction_inscriptions and
\* the static variables it resumes from), and each envelope still to come down
\* has an id that no table has.
THEOREM SitedHolds == Spec => []Sited
<1>1. Init => Sited
  BY InitSited
<1>2. Undoable /\ Undoable' /\ Sited /\ [Next]_vars => Sited'
  BY NextSited DEF Undoable
<1>. QED BY <1>1, <1>2, UndoableHolds, PTL DEF Spec

-----------------------------------------------------------------------------
(* The unbound outpoint                                                      *)

\* The inscriptions that m has on the unbound outpoint, and those of the
\* tables t that are on no sat.
Aground(m) == On(Cached(m, Unbound))
Satless(t) == {Old(seq) : seq \in {n \in DOMAIN t.entries : t.entries[n].sat = {}}}

\* They are the same, in the tables and in those of before each block.
Stranded ==
  past.clean =>
    /\ \A h \in DOMAIN past.tab : Aground(past.tab[h].utxo) = Satless(past.tab[h])
    /\ Aground(tab.utxo) \cup Aground(staged.cache) = Satless(tab)

LEMMA AgroundSame ==
  ASSUME NEW m, NEW r, Unbound \in DOMAIN r <=> Unbound \in DOMAIN m,
         Unbound \in DOMAIN m => r[Unbound] = m[Unbound]
  PROVE  Aground(r) = Aground(m)
  BY DEF Aground, Cached

LEMMA AgroundNot ==
  ASSUME NEW m, Unbound \notin DOMAIN m
  PROVE  Aground(m) = {}
<1>1. Cached(m, Unbound) = NoEntry /\ NoEntry.ins = << >>
  BY DEF Cached, NoEntry
<1>. QED BY <1>1, OnNothing DEF Aground

LEMMA AgroundPut ==
  ASSUME NEW m, NEW o, NEW e
  PROVE  /\ o # Unbound => Aground(Put(m, o, e)) = Aground(m)
         /\ o = Unbound => Aground(Put(m, o, e)) = On(e)
<1>1. ASSUME o # Unbound PROVE Aground(Put(m, o, e)) = Aground(m)
  BY <1>1, AgroundSame DEF Put
<1>2. ASSUME o = Unbound PROVE Aground(Put(m, o, e)) = On(e)
  BY <1>2 DEF Aground, Cached, Put
<1>. QED BY <1>1, <1>2

LEMMA AgroundDrop ==
  ASSUME NEW m, NEW S
  PROVE  /\ Unbound \notin S => Aground(Drop(m, S)) = Aground(m)
         /\ Unbound \in S => Aground(Drop(m, S)) = {}
<1>1. ASSUME Unbound \notin S PROVE Aground(Drop(m, S)) = Aground(m)
  BY <1>1, AgroundSame DEF Drop
<1>2. ASSUME Unbound \in S PROVE Aground(Drop(m, S)) = {}
  BY <1>2, AgroundNot DEF Drop
<1>. QED BY <1>1, <1>2

\* The same entries but for their charms.
LEMMA SatlessSame ==
  ASSUME NEW t, NEW u, DOMAIN u.entries = DOMAIN t.entries,
         \A n \in DOMAIN t.entries : u.entries[n].sat = t.entries[n].sat
  PROVE  Satless(u) = Satless(t)
  BY DEF Satless

LEMMA SatlessMore ==
  ASSUME NEW t, NEW u, NEW n, NEW e, u.entries = Put(t.entries, n, e), n \notin DOMAIN t.entries
  PROVE  Satless(u) = IF e.sat = {} THEN Satless(t) \cup {Old(n)} ELSE Satless(t)
<1>1. /\ DOMAIN u.entries = DOMAIN t.entries \cup {n} /\ u.entries[n] = e
      /\ \A k \in DOMAIN t.entries : u.entries[k] = t.entries[k]
  BY DEF Put
<1>2. CASE e.sat = {}
  BY <1>1, <1>2 DEF Satless
<1>3. CASE e.sat # {}
  BY <1>1, <1>3 DEF Satless
<1>. QED BY <1>2, <1>3

LEMMA PushedOn ==
  ASSUME NEW e, EntryOK(e), NEW place \in Nat \X Nat
  PROVE  On(Pushed(e, place)) = On(e) \cup {Old(place[1])}
<1>. DEFINE ins == Append(e.ins, place)
            n == Len(e.ins) + 1
<1>1. IsSeq(e.ins)
  BY EntryInsSeq
<1>2. IsAppend(ins, e.ins, place)
  BY <1>1, AppendSeq
<1>. HIDE DEF ins
<1>3. Pushed(e, place).ins = ins
  <2>1. Pushed(e, place) = [e EXCEPT !.ins = ins]
    BY DEF Pushed, ins
  <2>. QED BY <2>1 DEF EntryOK
<1>4. Len(e.ins) \in Nat /\ DOMAIN e.ins = 1..Len(e.ins) /\ DOMAIN ins = 1..Len(e.ins) + 1
  BY <1>1, <1>2, SeqFacts DEF IsAppend
<1>5. DOMAIN ins = DOMAIN e.ins \cup {n}
  BY <1>4
<1>6. ins[n] = place /\ \A i \in DOMAIN e.ins : ins[i] = e.ins[i]
  BY <1>2, <1>4 DEF IsAppend
<1>. HIDE DEF n
<1>. QED BY <1>3, <1>5, <1>6 DEF On

LEMMA OnConcat ==
  ASSUME NEW a, NEW b, NEW f, IsSeq(a.ins), IsSeq(b.ins), IsConcat(f.ins, a.ins, b.ins)
  PROVE  On(f) = On(a) \cup On(b)
<1>. DEFINE n == Len(a.ins)
            k == Len(b.ins)
<1>1. /\ n \in Nat /\ k \in Nat /\ DOMAIN a.ins = 1..n /\ DOMAIN b.ins = 1..k
      /\ DOMAIN f.ins = 1..n + k
  BY SeqFacts DEF IsConcat
<1>2. /\ \A i \in 1..n : f.ins[i] = a.ins[i]
      /\ \A i \in 1..k : f.ins[n + i] = b.ins[i]
  BY DEF IsConcat
<1>. HIDE DEF n, k
<1>3. /\ \A i \in DOMAIN a.ins : i \in DOMAIN f.ins /\ f.ins[i] = a.ins[i]
      /\ \A i \in DOMAIN b.ins : n + i \in DOMAIN f.ins /\ f.ins[n + i] = b.ins[i]
      /\ \A j \in DOMAIN f.ins : j \in DOMAIN a.ins \/ \E i \in DOMAIN b.ins : j = n + i
  <2>1. ASSUME NEW x \in Nat, NEW y \in Nat
        PROVE  /\ \A i \in 1..x : i \in 1..x + y
               /\ \A i \in 1..y : x + i \in 1..x + y
               /\ \A j \in 1..x + y : j \in 1..x \/ (j - x \in 1..y /\ j = x + (j - x))
    BY SMT
  <2>2. /\ \A i \in 1..n : i \in 1..n + k
        /\ \A i \in 1..k : n + i \in 1..n + k
        /\ \A j \in 1..n + k : j \in 1..n \/ (j - n \in 1..k /\ j = n + (j - n))
    BY <1>1, <2>1
  <2>3. \A j \in 1..n + k : j \in 1..n \/ \E i \in 1..k : j = n + i
    BY <2>2, Zenon
  <2>. QED BY <1>1, <1>2, <2>2, <2>3, Zenon
<1>4. ASSUME NEW x \in On(f) PROVE x \in On(a) \cup On(b)
  <2>1. PICK j \in DOMAIN f.ins : x = Old(f.ins[j][1])
    BY DEF On
  <2>. QED BY <1>3, <2>1 DEF On
<1>5. On(a) \subseteq On(f)
  BY <1>3 DEF On
<1>6. ASSUME NEW x \in On(b) PROVE x \in On(f)
  <2>1. PICK i \in DOMAIN b.ins : x = Old(b.ins[i][1])
    BY DEF On
  <2>. QED BY <1>3, <2>1 DEF On
<1>. QED BY <1>4, <1>5, <1>6

\* Nothing comes down on the unbound outpoint but what has no sat.
LEMMA SettleStranded ==
  ASSUME TabOK(tab), StagedOK(staged), RunOK(run), past' = past,
         NEW t, NEW f, FlotsamOK(f), NEW o, o # Unbound, NEW offset \in Nat, NEW burn,
         Settle(t, f, o, offset, burn), past.clean => run.next \notin DOMAIN tab.entries, Stranded
  PROVE  Stranded'
<1>. DEFINE unbound == IF f.new = Absent THEN FALSE ELSE f.new.unbound
            to == IF unbound THEN Unbound ELSE o
            place == <<IF f.new = Absent THEN f.seq ELSE run.next,
                       IF unbound THEN run.stats.unbound ELSE offset>>
            cache == IF to \in Special
                     THEN Put(staged.cache, to, Pushed(Cached(staged.cache, to), place))
                     ELSE staged.cache
<1>1. IF f.new = Absent THEN Transfer(f, burn, cache) ELSE Inscribe(f, o, burn, cache)
  BY DEF Settle, Pushed
<1>2. place \in Nat \X Nat /\ place[1] = IF f.new = Absent THEN f.seq ELSE run.next
  <2>1. run.next \in Nat /\ run.stats.unbound \in Nat
    BY DEF RunOK, StatsOK
  <2>2. f.new = Absent => f.seq \in Nat
    BY DEF FlotsamOK
  <2>. QED BY <2>1, <2>2
<1>3. Unbound \in Special
  BY DEF Special
<1>. HIDE DEF place
<1>4. EntryOK(Cached(staged.cache, Unbound))
  BY CachedOK DEF StagedOK
<1>5. /\ unbound => Aground(cache) = Aground(staged.cache) \cup {Old(place[1])}
      /\ ~unbound => Aground(cache) = Aground(staged.cache)
  <2>1. ASSUME unbound PROVE Aground(cache) = Aground(staged.cache) \cup {Old(place[1])}
    <3>1. cache = Put(staged.cache, Unbound, Pushed(Cached(staged.cache, Unbound), place))
      BY <1>3, <2>1
    <3>2. Aground(cache) = On(Pushed(Cached(staged.cache, Unbound), place))
      <4>. HIDE DEF cache
      <4>. QED BY <3>1, AgroundPut
    <3>. QED BY <1>2, <1>4, <3>2, PushedOn DEF Aground
  <2>2. ASSUME ~unbound PROVE Aground(cache) = Aground(staged.cache)
    <3>1. to = o
      BY <2>2
    <3>. HIDE DEF to
    <3>. QED BY <3>1, AgroundPut
  <2>. QED BY <2>1, <2>2
<1>. HIDE DEF cache, to
<1>6. IF f.new = Absent THEN Transfers(f, burn, cache) ELSE Inscribes(f, o, burn, cache)
  BY <1>1, TransferFacts, InscribeFacts
<1>7. staged'.cache = cache /\ tab'.utxo = tab.utxo
  BY <1>6 DEF Transfers, Inscribes
<1>8. ASSUME past.clean
      PROVE  Satless(tab') = IF unbound THEN Satless(tab) \cup {Old(place[1])} ELSE Satless(tab)
  <2>1. CASE f.new = Absent
    <3>1. Transfers(f, burn, cache)
      BY <1>6, <2>1
    <3>2. CASE burn
      <4>1. f.seq \in DOMAIN tab.entries /\ tab'.entries = Burned(tab.entries, f.seq)
        BY <3>1, <3>2 DEF Transfers
      <4>2. /\ DOMAIN tab'.entries = DOMAIN tab.entries
            /\ \A n \in DOMAIN tab.entries : tab'.entries[n].sat = tab.entries[n].sat
        BY <4>1 DEF Burned
      <4>. QED BY <2>1, <4>2, SatlessSame
    <3>3. CASE ~burn
      <4>1. tab'.entries = tab.entries
        BY <3>1, <3>3 DEF Transfers
      <4>. QED BY <2>1, <4>1 DEF Satless
    <3>. QED BY <3>2, <3>3
  <2>2. CASE f.new # Absent
    <3>1. tab'.entries = Put(tab.entries, run.next, NewEntry(f, o, burn))
      BY <1>6, <2>2 DEF Inscribes
    <3>2. NewEntry(f, o, burn).sat = NewSats(f) /\ (NewSats(f) = {} <=> f.new.unbound)
      BY DEF NewEntry, NewSats
    <3>3. run.next \notin DOMAIN tab.entries
      BY <1>8
    <3>. DEFINE e == NewEntry(f, o, burn)
    <3>. HIDE DEF e
    <3>4. Satless(tab') = IF e.sat = {} THEN Satless(tab) \cup {Old(run.next)} ELSE Satless(tab)
      BY <3>1, <3>3, SatlessMore DEF e
    <3>. QED BY <1>2, <2>2, <3>2, <3>4 DEF e
  <2>. QED BY <2>1, <2>2
<1>. HIDE DEF unbound
<1>. QED BY <1>5, <1>7, <1>8 DEF Stranded

LEMMA SameStranded ==
  ASSUME Stranded, past' = past, tab'.utxo = tab.utxo, tab'.entries = tab.entries,
         staged'.cache = staged.cache
  PROVE  Stranded'
  BY DEF Stranded, Satless

LEMMA SettlesStranded == ASSUME Frame, Listed, Sited, Stranded, Locate \/ Lose PROVE Stranded'
<1>1. /\ run # Absent /\ tx # Absent /\ past' = past
  BY DEF Locate, Lose, AtLocations
<1>2. /\ TxOK(tx) /\ RunOK(run) /\ TabOK(tab) /\ StagedOK(staged)
  BY <1>1 DEF Frame, Types
<1>3. \E t, f, o, offset, burn :
        Settle(t, f, o, offset, burn) /\ FlotsamOK(f) /\ offset \in Nat /\ o # Unbound
  <2>1. CASE Locate
    <3>. DEFINE l == tx.located[tx.loc]
    <3>1. /\ tx.phase = "locations"
          /\ Settle([tx EXCEPT !.loc = tx.loc + 1], l.flotsam, <<T.id, l.out>>, l.offset,
                    T.outs[l.out].burn)
      BY <2>1 DEF Locate, AtLocations
    <3>2. tx.loc \in DOMAIN tx.located /\ LocationOK(l)
      <4>1. tx.loc \in Nat \ {0} /\ tx.loc <= Len(tx.located)
        BY <1>2, <2>1 DEF Locate, AtLocations, TxOK
      <4>2. DOMAIN tx.located = 1..Len(tx.located) /\ Len(tx.located) \in Nat
        BY <1>2, SeqFacts DEF TxOK, Landed
      <4>3. tx.loc \in DOMAIN tx.located
        BY <4>1, <4>2
      <4>. QED BY <1>2, <4>3 DEF TxOK, Landed
    <3>3. l.out \in DOMAIN Outs /\ InTx /\ Work = tx /\ Outs = tx.outs
      <4>1. ViewsLocals
        BY <1>1, <3>1, ViewLocals
      <4>. QED BY <1>1, <3>2, <4>1 DEF Sited, Positions, ViewsLocals, InTx, Work
    <3>4. l.out \in 1..Len(This.outs)
      BY <3>3 DEF Sited, Positions
    <3>5. <<T.id, l.out>> # Unbound
      <4>1. l.out # 0
        BY <3>4
      <4>. HIDE DEF l
      <4>. QED BY <4>1 DEF Unbound
    <3>. QED BY <3>1, <3>2, <3>5 DEF LocationOK
  <2>2. CASE Lose
    <3>. DEFINE f == Head(tx.queue)
                offset == run.stats.lost + f.offset - tx.outValue
    <3>1. /\ tx.phase = "rest" /\ Coinbase /\ tx.queue # << >>
          /\ Settle([tx EXCEPT !.queue = Tail(tx.queue)], f, Null, offset, FALSE)
      BY <2>2 DEF Lose
    <3>2. FlotsamOK(f) /\ tx.outValue <= f.offset
      <4>1. Ready(tx.queue, tx.outValue)
        BY <1>1, <3>1 DEF Frame, Counts, PaidOut, Paid
      <4>. QED BY <3>1, <4>1, TailReady
    <3>3. offset \in Nat
      <4>1. run.stats.lost \in Nat /\ f.offset \in Nat /\ tx.outValue \in Nat
        BY <1>2, <3>2 DEF RunOK, StatsOK, FlotsamOK, TxOK
      <4>. QED BY <3>2, <4>1
    <3>4. Null # Unbound
      BY DEF Null, Unbound
    <3>. QED BY <3>1, <3>2, <3>3, <3>4
  <2>. QED BY <2>1, <2>2
<1>4. past.clean => run.next \notin DOMAIN tab.entries
  BY <1>1, NextFree
<1>. QED BY <1>1, <1>2, <1>3, <1>4, SettleStranded

\* No special outpoint is spent.
LEMMA SpentOnes ==
  ASSUME Frame, block # None, run.tx \in 1..Len(Txs)
  PROVE  Unbound \notin SpentHere
<1>1. \A i \in DOMAIN T.ins : T.ins[i] # Unbound
  BY InputsHere DEF Special
<1>. QED BY <1>1 DEF SpentHere, ToSet

LEMMA SpendStranded == ASSUME Frame, Frame', Stranded, Spend PROVE Stranded'
<1>1. /\ run # Absent /\ run.tx <= Len(Txs) /\ past' = past /\ tx = Absent /\ saved.tx = Absent
      /\ tab'.utxo = Drop(tab.utxo, SpentHere \ DOMAIN staged.cache)
      /\ tab'.entries = tab.entries /\ staged'.cache = Drop(staged.cache, SpentHere)
  BY SpendFields
<1>2. Unbound \notin SpentHere
  <2>1. block # None /\ run.tx \in 1..Len(Txs)
    BY <1>1, BeforeTxFacts
  <2>. QED BY <2>1, SpentOnes
<1>. DEFINE S == SpentHere \ DOMAIN staged.cache
<1>3. Unbound \notin S /\ tab'.utxo = Drop(tab.utxo, S)
  BY <1>1, <1>2
<1>. HIDE DEF S
<1>4. Aground(tab'.utxo) = Aground(tab.utxo) /\ Aground(staged'.cache) = Aground(staged.cache)
  BY <1>1, <1>2, <1>3, AgroundDrop
<1>5. Satless(tab') = Satless(tab)
  BY <1>1 DEF Satless
<1>. QED BY <1>1, <1>4, <1>5 DEF Stranded

LEMMA FinishTransactionStranded ==
  ASSUME Frame, Frame', Sited, Stranded, FinishTransaction PROVE Stranded'
<1>1. /\ tx # Absent /\ UNCHANGED <<past, tab>>
      /\ staged'.cache = PutAll(staged.cache, OutsHere)
  BY FinishTransactionFields
<1>2. Unbound \notin DOMAIN OutsHere
  <2>1. DOMAIN tx.outs = 1..Len(This.outs)
    BY <1>1 DEF Sited, Positions, InTx, Work
  <2>2. \A v \in DOMAIN tx.outs : v # 0
    BY <2>1
  <2>. QED BY <2>2 DEF OutsHere, Unbound
<1>3. Aground(staged'.cache) = Aground(staged.cache)
  <2>. DEFINE m == OutsHere
  <2>. HIDE DEF m
  <2>. QED BY <1>1, <1>2, AgroundSame DEF PutAll, m
<1>. QED BY <1>1, <1>3 DEF Stranded

LEMMA FinishBlockStranded == ASSUME Frame, Stranded, FinishBlock PROVE Stranded'
<1>1. /\ past' = past /\ tab'.utxo = tab.utxo /\ tab'.entries = tab.entries
      /\ \E e : staged'.cache = IF run.lost = << >> THEN staged.cache ELSE Put(staged.cache, Null, e)
  BY FinishBlockFields
<1>2. Null # Unbound
  BY DEF Null, Unbound
<1>3. Aground(staged'.cache) = Aground(staged.cache)
  BY <1>1, <1>2, AgroundPut
<1>. QED BY <1>1, <1>3 DEF Stranded, Satless

LEMMA CommitOutputStranded == ASSUME Frame, Sited, Stranded, CommitOutput PROVE Stranded'
<1>1. past' = past /\ tab'.entries = tab.entries /\ Committing
  BY CommitOutputFields
<1>2. PICK o \in DOMAIN staged.cache :
        /\ tab'.utxo = Put(tab.utxo, o, IF o \in Special /\ o \in DOMAIN tab.utxo
                                        THEN Merged(tab.utxo[o], staged.cache[o])
                                        ELSE staged.cache[o])
        /\ staged'.cache = Drop(staged.cache, {o})
  BY CommitOutputFields
<1>. DEFINE e == IF o \in Special /\ o \in DOMAIN tab.utxo
                 THEN Merged(tab.utxo[o], staged.cache[o]) ELSE staged.cache[o]
            S == {o}
<1>3. CASE o # Unbound
  <2>1. Unbound \notin S /\ staged'.cache = Drop(staged.cache, S) /\ tab'.utxo = Put(tab.utxo, o, e)
    BY <1>2, <1>3
  <2>. HIDE DEF e, S
  <2>2. Aground(tab'.utxo) = Aground(tab.utxo) /\ Aground(staged'.cache) = Aground(staged.cache)
    BY <1>3, <2>1, AgroundPut, AgroundDrop
  <2>. QED BY <1>1, <2>2 DEF Stranded, Satless
<1>4. CASE o = Unbound
  <2>1. Unbound \in S /\ staged'.cache = Drop(staged.cache, S) /\ tab'.utxo = Put(tab.utxo, o, e)
    BY <1>2, <1>4
  <2>2. Aground(staged.cache) = On(staged.cache[o])
    BY <1>4 DEF Aground, Cached
  <2>3. On(e) = Aground(tab.utxo) \cup On(staged.cache[o])
    <3>1. CASE o \notin DOMAIN tab.utxo
      BY <1>4, <3>1, AgroundNot
    <3>2. CASE o \in DOMAIN tab.utxo
      <4>. DEFINE a == tab.utxo[o]
                  b == staged.cache[o]
                  f == Merged(a, b)
      <4>1. e = f /\ Aground(tab.utxo) = On(a)
        BY <1>4, <3>2 DEF Special, Aground, Cached
      <4>2. EntryOK(a) /\ EntryOK(b)
        BY <3>2 DEF Frame, Types, TabOK, StagedOK, EntriesOK
      <4>3. f.ins = a.ins \o b.ins
        BY DEF Merged
      <4>. HIDE DEF a, b, f, e
      <4>4. IsSeq(a.ins) /\ IsSeq(b.ins)
        BY <4>2, EntryInsSeq
      <4>5. IsConcat(f.ins, a.ins, b.ins)
        BY <4>3, <4>4, ConcatSeq
      <4>6. On(f) = On(a) \cup On(b)
        BY <4>4, <4>5, OnConcat
      <4>. QED BY <4>1, <4>6 DEF b
    <3>. QED BY <3>1, <3>2
  <2>. HIDE DEF e, S
  <2>4. Aground(tab'.utxo) = On(e) /\ Aground(staged'.cache) = {}
    BY <1>4, <2>1, AgroundPut, AgroundDrop
  <2>. QED BY <1>1, <2>2, <2>3, <2>4 DEF Stranded, Satless
<1>. QED BY <1>3, <1>4

LEMMA InitStranded == ASSUME Init PROVE Stranded
<1>1. tab = NoTables /\ past.tab = << >> /\ staged = NoStaged
  BY DEF Init
<1>2. NoTables.entries = << >> /\ NoTables.utxo = << >> /\ NoStaged.cache = << >>
  BY DEF NoTables, NoStaged
<1>3. Aground(tab.utxo) = {} /\ Aground(staged.cache) = {}
  BY <1>1, <1>2, AgroundNot
<1>4. Satless(tab) = {}
  BY <1>1, <1>2 DEF Satless
<1>. QED BY <1>1, <1>3, <1>4 DEF Stranded

LEMMA StageStranded == ASSUME Frame, Stranded, Stage PROVE Stranded'
<1>. DEFINE n == Len(chain)
<1>1. /\ block = None /\ staged = NoStaged /\ staged' = staged /\ tab' = tab
  BY DEF Stage, Frame, Control, Indexing
<1>2. PICK b \in Blocks : past' = [past EXCEPT !.tab = Put(past.tab, Height[b], tab)]
  BY DEF Stage
<1>3. /\ \E h : past'.tab = Put(past.tab, h, tab)
      /\ past'.clean = past.clean
  BY <1>2 DEF Frame, Types, PastOK
<1>4. \A h \in DOMAIN past'.tab :
        past'.tab[h] = tab \/ (h \in DOMAIN past.tab /\ past'.tab[h] = past.tab[h])
  BY <1>3 DEF Put
<1>5. NoStaged.cache = << >>
  BY DEF NoStaged
<1>6. Aground(staged.cache) = {}
  BY <1>1, <1>5, AgroundNot
<1>7. ASSUME past.clean
      PROVE  /\ Aground(tab.utxo) = Satless(tab)
             /\ \A h \in DOMAIN past.tab : Aground(past.tab[h].utxo) = Satless(past.tab[h])
  BY <1>6, <1>7 DEF Stranded
<1>8. ASSUME past.clean, NEW h \in DOMAIN past'.tab
      PROVE  Aground(past'.tab[h].utxo) = Satless(past'.tab[h])
  BY <1>4, <1>7, <1>8
<1>9. Aground(tab'.utxo) = Aground(tab.utxo) /\ Aground(staged'.cache) = {} /\ Satless(tab') = Satless(tab)
  BY <1>1, <1>6
<1>. QED BY <1>3, <1>7, <1>8, <1>9 DEF Stranded

LEMMA SaveStranded == ASSUME Stranded, Save PROVE Stranded'
<1>1. UNCHANGED <<tab, past>> /\ staged' = NoStaged /\ staged.cache = << >>
  BY DEF Save
<1>2. staged'.cache = staged.cache
  BY <1>1 DEF NoStaged
<1>. QED BY <1>1, <1>2, SameStranded

LEMMA HandleReorgStranded == ASSUME Frame, Frame', Listed, Stranded, HandleReorg PROVE Stranded'
<1>1. PICK n \in 1..MaxUndo :
        /\ n <= Len(chain) - 1
        /\ past' = [tab |-> Drop(past.tab, Len(chain) - 1 - n + 1 .. Len(chain) - 1),
                    reorgs |-> past.reorgs + 1,
                    clean |-> past.clean /\ Plain(tab') = Plain(past.tab[Len(chain) - 1 - n + 1])]
  BY DEF HandleReorg
<1>2. block = None /\ block' = None
  BY DEF HandleReorg
<1>3. /\ n \in Nat /\ Len(chain) \in Nat /\ DOMAIN past.tab = 0..Len(chain) - 1
  BY <1>2, UndoAssumption DEF Frame, Linked
<1>. DEFINE m == Len(chain) - n
<1>4. m \in DOMAIN past.tab /\ Len(chain) - 1 - n + 1 = m
  BY <1>1, <1>3
<1>5. /\ past'.tab = Drop(past.tab, m..Len(chain) - 1)
      /\ past'.clean => past.clean /\ Plain(tab') = Plain(past.tab[m])
  BY <1>1, <1>4
<1>. HIDE DEF m
<1>6. \A h \in DOMAIN past'.tab : h \in DOMAIN past.tab /\ past'.tab[h] = past.tab[h]
  BY <1>5 DEF Drop
<1>7. staged'.cache = << >> /\ Aground(staged'.cache) = {}
  <2>1. staged' = NoStaged
    BY <1>2 DEF Frame, Control
  <2>2. staged'.cache = << >>
    BY <2>1 DEF NoStaged
  <2>. QED BY <2>2, AgroundNot
<1>8. ASSUME past'.clean PROVE past.clean /\ Alike(past.tab[m], tab')
  <2>1. TabShape(tab') /\ TabShape(past.tab[m]) /\ past.clean /\ Plain(past.tab[m]) = Plain(tab')
    BY <1>4, <1>5, <1>8 DEF Frame, Types, TabOK, Listed
  <2>. QED BY <2>1, AlikePlain
<1>9. ASSUME past'.clean PROVE Aground(tab'.utxo) = Satless(tab')
  <2>1. Aground(past.tab[m].utxo) = Satless(past.tab[m])
    BY <1>4, <1>8, <1>9 DEF Stranded
  <2>2. tab'.utxo = past.tab[m].utxo /\ tab'.entries = past.tab[m].entries
    BY <1>8, <1>9 DEF Alike
  <2>. QED BY <2>1, <2>2 DEF Satless
<1>10. ASSUME past'.clean, NEW h \in DOMAIN past'.tab
       PROVE  Aground(past'.tab[h].utxo) = Satless(past'.tab[h])
  BY <1>6, <1>8, <1>10 DEF Stranded
<1>. QED BY <1>7, <1>9, <1>10 DEF Stranded

LEMMA QuietStranded ==
  ASSUME Frame, Frame', Sited, Stranded,
         \/ Begin \/ Continue \/ Take \/ FinishInput \/ FinishInputs \/ Place \/ NextOutput
         \/ FinishOutputs \/ FinishLocations \/ Break \/ CommitInscription \/ UNCHANGED vars
  PROVE  Stranded'
<1>1. CASE UNCHANGED <<tab, staged, past>>
  BY <1>1, SameStranded
<1>2. CASE SameView
  BY <1>2, SameStranded DEF SameView
<1>3. CASE Begin \/ Continue \/ Take \/ FinishInput \/ FinishInputs \/ Place \/ NextOutput
           \/ FinishOutputs \/ FinishLocations
  <2>1. UNCHANGED <<tab, staged, past>>
    BY <1>3 DEF Begin, Continue, Take, FinishInput, FinishInputs, Place, NextOutput,
                FinishOutputs, FinishLocations
  <2>. QED BY <1>1, <2>1
<1>4. CASE Break \/ CommitInscription
  BY <1>2, <1>4, BreakInputsPlaces, BreakOutputsPlaces, BreakLocationsPlaces, CommitInscriptionPlaces
  DEF Break, Sited
<1>5. CASE UNCHANGED vars
  BY <1>1, <1>5 DEF vars
<1>. QED BY <1>3, <1>4, <1>5

LEMMA NextStranded ==
  ASSUME Frame, Frame', Listed, Sited, Stranded, [Next]_vars PROVE Stranded'
<1>1. CASE Transaction
  BY <1>1, SpendStranded, SettlesStranded, FinishTransactionStranded, QuietStranded DEF Transaction
<1>. QED BY <1>1, StageStranded, FinishBlockStranded, CommitOutputStranded, SaveStranded,
            HandleReorgStranded, QuietStranded DEF Next

LEMMA StrandedHolds == Spec => []Stranded
<1>1. Init => Stranded
  BY InitStranded
<1>2. /\ Undoable /\ Undoable' /\ Sited /\ Stranded /\ [Next]_vars => Stranded'
  BY NextStranded DEF Undoable
<1>. QED BY <1>1, <1>2, UndoableHolds, SitedHolds, PTL DEF Spec

-----------------------------------------------------------------------------
(* Between two blocks                                                        *)

LEMMA BetweenFacts ==
  ASSUME Frame, Between
  PROVE  /\ Count = tab.stats /\ staged.cache = << >> /\ DOMAIN records = 0..Len(chain) - 1
         /\ tab.stats.blessed \in Nat /\ tab.stats.cursed \in Nat
<1>1. block = None /\ run = Absent /\ staged = NoStaged
  BY DEF Between, Frame, Control, Indexing
<1>2. NoStaged.cache = << >>
  BY DEF NoStaged
<1>. QED BY <1>1, <1>2 DEF Count, Frame, Linked, Types, TabOK, StatsOK

\* The ids and the sequence numbers correspond.
LEMMA AsManyIds ==
  ASSUME NEW t, IdsMatch(t), IsFiniteSet(DOMAIN t.entries)
  PROVE  Cardinality(DOMAIN t.ids) = Cardinality(DOMAIN t.entries)
<1>. DEFINE S == DOMAIN t.entries
            U == DOMAIN t.ids
            f == [seq \in S |-> t.entries[seq].id]
<1>1. f \in [S -> U]
  BY DEF IdsMatch
<1>2. \A a, b \in S : f[a] = f[b] => a = b
  BY DEF IdsMatch
<1>3. \A x \in U : \E a \in S : f[a] = x
  BY DEF IdsMatch
<1>. HIDE DEF f
<1>4. f \in Bijection(S, U)
  BY <1>1, <1>2, <1>3 DEF Bijection, Injection, Surjection, IsInjective
<1>5. ExistsBijection(S, U)
  BY <1>4 DEF ExistsBijection
<1>. QED BY <1>5, FS_Bijection

\* Sequence numbers count the inscriptions without a gap and in the order of
\* their heights, the numbers count up and down without a gap, and the tables
\* by id and by number invert the entries, for every content of the blocks,
\* every end of a message and every rollback: what update_inscription_location
\* inserts when an inscription comes down, and handle_reorg removes.
THEOREM NumbersAreDense == Spec => []NumbersDense
<1>1. Undoable /\ Sited => NumbersDense
  <2>. SUFFICES ASSUME Undoable, Sited, Between PROVE
         /\ Inscribed = 0..tab.stats.blessed + tab.stats.cursed - 1
         /\ DOMAIN tab.numbers = -tab.stats.cursed..tab.stats.blessed - 1
         /\ \A seq \in Inscribed : LET e == tab.entries[seq]
                                   IN tab.numbers[e.number] = seq /\ tab.ids[e.id] = seq
         /\ Cardinality(DOMAIN tab.ids) = Cardinality(Inscribed)
         /\ \A h \in DOMAIN tab.last : \A seq \in Inscribed :
              tab.entries[seq].height <= h <=> seq < tab.last[h]
    BY DEF NumbersDense
  <2>1. /\ Count = tab.stats /\ DOMAIN records = 0..Len(chain) - 1
        /\ tab.stats.blessed \in Nat /\ tab.stats.cursed \in Nat
    BY BetweenFacts DEF Undoable
  <2>2. Numbered(tab, tab.stats) /\ Dated(tab, tab.stats, Len(chain))
    BY <2>1 DEF Undoable, Listed, Indexed, Between
  <2>3. IdsMatch(tab)
    BY DEF Sited, Held, Between
  <2>4. DOMAIN tab.last = 0..Len(chain) - 1
    BY <2>1 DEF Undoable, LastsOK, Between
  <2>5. IsFiniteSet(Inscribed)
    <3>1. Inscribed = 0..tab.stats.blessed + tab.stats.cursed - 1
      BY <2>2 DEF Numbered, Inscribed
    <3>2. 0 \in Int /\ tab.stats.blessed + tab.stats.cursed - 1 \in Int
      BY <2>1
    <3>. QED BY <3>1, <3>2, FS_Interval
  <2>6. Cardinality(DOMAIN tab.ids) = Cardinality(Inscribed)
    BY <2>3, <2>5, AsManyIds DEF Inscribed
  <2>. QED BY <2>2, <2>3, <2>4, <2>6 DEF Numbered, Dated, IdsMatch, Inscribed
<1>. QED BY <1>1, UndoableHolds, SitedHolds, PTL

\* The one place of an inscription among the outputs of the tables.
LEMMA OnePlace ==
  ASSUME Spread(tab.utxo), NEW seq, Old(seq) \in AllOn(tab.utxo)
  PROVE  \E p : Places(seq) = {p}
<1>1. PICK o \in DOMAIN tab.utxo : Old(seq) \in On(tab.utxo[o])
  BY AllOnIs
<1>2. PICK i \in DOMAIN tab.utxo[o].ins : tab.utxo[o].ins[i][1] = seq
  BY <1>1, KeysDiffer DEF On
<1>3. \A p \in Places(seq) : \E r \in DOMAIN tab.utxo : \E j \in DOMAIN tab.utxo[r].ins :
        p = <<r, j>> /\ tab.utxo[r].ins[j][1] = seq
  BY DEF Places
<1>4. ASSUME NEW r \in DOMAIN tab.utxo, NEW j \in DOMAIN tab.utxo[r].ins, tab.utxo[r].ins[j][1] = seq
      PROVE  r = o /\ j = i
  <2>1. Old(seq) \in On(tab.utxo[r])
    BY <1>4 DEF On
  <2>2. r = o
    BY <1>1, <2>1 DEF Spread
  <2>. QED BY <1>2, <1>4, <2>2 DEF Spread, Single
<1>5. <<o, i>> \in Places(seq)
  BY <1>2 DEF Places
<1>6. Places(seq) = {<<o, i>>}
  BY <1>3, <1>4, <1>5
<1>. QED BY <1>6

LEMMA PlacesAre ==
  ASSUME NEW seq
  PROVE  (\E p \in Places(seq) : p[1] = Unbound) <=> Old(seq) \in Aground(tab.utxo)
<1>1. ASSUME NEW p \in Places(seq), p[1] = Unbound PROVE Old(seq) \in Aground(tab.utxo)
  <2>1. PICK o \in DOMAIN tab.utxo : \E i \in DOMAIN tab.utxo[o].ins :
          p = <<o, i>> /\ tab.utxo[o].ins[i][1] = seq
    BY DEF Places
  <2>2. o = Unbound
    BY <1>1, <2>1
  <2>. QED BY <2>1, <2>2 DEF Aground, Cached, On
<1>2. ASSUME Old(seq) \in Aground(tab.utxo) PROVE \E p \in Places(seq) : p[1] = Unbound
  <2>1. Unbound \in DOMAIN tab.utxo
    BY <1>2, AgroundNot
  <2>2. PICK i \in DOMAIN tab.utxo[Unbound].ins : tab.utxo[Unbound].ins[i][1] = seq
    BY <1>2, <2>1, KeysDiffer DEF Aground, Cached, On
  <2>3. <<Unbound, i>> \in Places(seq)
    BY <2>1, <2>2 DEF Places
  <2>. QED BY <2>3
<1>. QED BY <1>1, <1>2

\* Between two blocks every inscription is listed on one output of the tables,
\* once, and on the unbound outpoint just when it has no sat, for every content
\* of the blocks, every end of a message and every rollback: an interrupted
\* index_transaction_inscriptions drops and doubles none when it resumes.
THEOREM EachIsOnce == Spec => []EachOnce
<1>1. Undoable /\ Sited /\ Stranded => EachOnce
  <2>. SUFFICES ASSUME Undoable, Sited, Stranded, Between PROVE
         /\ \A seq \in Inscribed :
              /\ Cardinality(Places(seq)) = 1
              /\ tab.entries[seq].sat = {} <=> \E p \in Places(seq) : p[1] = Unbound
         /\ \A o \in DOMAIN tab.utxo :
              {tab.utxo[o].ins[i][1] : i \in DOMAIN tab.utxo[o].ins} \subseteq Inscribed
    BY DEF EachOnce
  <2>1. Spread(tab.utxo) /\ \A seq : Old(seq) \in AllOn(tab.utxo) <=> seq \in Inscribed
    BY BetweenWhole DEF Undoable, Sited, Between, Whole, Inscribed
  <2>2. Aground(tab.utxo) = Satless(tab)
    <3>1. Aground(staged.cache) = {}
      BY BetweenFacts, AgroundNot DEF Undoable
    <3>. QED BY <3>1 DEF Stranded, Between
  <2>3. ASSUME NEW seq \in Inscribed PROVE Cardinality(Places(seq)) = 1
    <3>1. PICK p : Places(seq) = {p}
      BY <2>1, OnePlace
    <3>. QED BY <3>1, FS_Singleton
  <2>4. ASSUME NEW seq \in Inscribed PROVE tab.entries[seq].sat = {} <=> Old(seq) \in Satless(tab)
    BY <2>4, KeysDiffer DEF Satless, Inscribed
  <2>5. ASSUME NEW o \in DOMAIN tab.utxo, NEW i \in DOMAIN tab.utxo[o].ins
        PROVE  tab.utxo[o].ins[i][1] \in Inscribed
    <3>1. Old(tab.utxo[o].ins[i][1]) \in AllOn(tab.utxo)
      BY AllOnIs DEF On
    <3>. QED BY <2>1, <3>1
  <2>. QED BY <2>2, <2>3, <2>4, <2>5, PlacesAre
<1>. QED BY <1>1, UndoableHolds, SitedHolds, StrandedHolds, PTL

\* In the middle of a block too, what an output of the table lists has its
\* entry, which a query unwraps (inscriptions_on_output, index.rs), for every
\* content of the blocks, every end of a message and every rollback that brings
\* the tables back.  EntriesPresent names the rollback that does not.
THEOREM QueriesStayAnswerable == Spec => []QueriesAnswerable
<1>1. Sited => QueriesAnswerable
  <2>. SUFFICES ASSUME Sited, past.clean, NEW o \in DOMAIN tab.utxo,
                       NEW i \in DOMAIN tab.utxo[o].ins
                PROVE  tab.utxo[o].ins[i][1] \in Inscribed
    BY DEF QueriesAnswerable
  <2>1. Old(tab.utxo[o].ins[i][1]) \in AllOn(tab.utxo)
    BY AllOnIs DEF On
  <2>2. Old(tab.utxo[o].ins[i][1]) \in Everywhere
    BY <2>1 DEF Everywhere
  <2>. QED BY <2>2 DEF Sited, Held, Placed, Inscribed
<1>. QED BY <1>1, SitedHolds, PTL

=============================================================================
