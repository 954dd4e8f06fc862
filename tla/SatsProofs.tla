------------------------------ MODULE SatsProofs ------------------------------
(* Where the sats are while blocks are indexed, interrupted and rolled back:  *)
(* each that was mined is in one place, of the tables, the cache, the outputs *)
(* of the transaction in progress, the fees or what the coinbase leaves, for  *)
(* every content of the blocks and every subsidy.                             *)
EXTENDS LandingProofs

-----------------------------------------------------------------------------
(* The places                                                                *)

\* Sats as if they were inscriptions, of one entry and of all entries of m, so
\* that what PlacesProofs says of places is said of them.
Coin(s) == [sats |-> s, ins |-> [i \in DOMAIN s |-> <<s[i], 0>>]]
Purse(m) == [o \in DOMAIN m |-> Coin(m[o].sats)]
Coins(s) == On(Coin(s))
Purses(m) == AllOn(Purse(m))

\* The sats that the coinbase will spend, and those it has left over.
Owed == IF Indexing /\ At.tx <= Len(Txs) /\ ~(InTx /\ IsLast) THEN Accounts.fees ELSE << >>
Left == IF Indexing THEN Accounts.lost ELSE << >>

\* The sats of the first n blocks.
Minted(n) == {Old(s) : s \in 0..Subsidy * n - 1}
Begun == IF block = None THEN Len(chain) ELSE Len(chain) + 1

SatsApart ==
  /\ Spread(Purse(tab.utxo)) /\ Spread(Purse(staged.cache)) /\ Spread(Purse(Outs))
  /\ Single(Coin(Owed)) /\ Single(Coin(Left))
  /\ Separate(Purses(tab.utxo), Purses(staged.cache), Purses(Outs), {}, Coins(Owed), Coins(Left), {})

SatsHeld ==
  Purses(tab.utxo) \cup Purses(staged.cache) \cup Purses(Outs) \cup Coins(Owed) \cup Coins(Left)
    = Minted(Begun)

\* The null outpoint has the lost sats, as the statistics count them.
Sunk(m) == Cached(m, Null).sats
LostCounted ==
  /\ Len(Sunk(tab.utxo)) + Len(Sunk(staged.cache)) = tab.stats.lost
  /\ Indexing => Sunk(staged.cache) = << >>

\* The tables between blocks, when the first n are indexed.
SatsWhole(t, n) ==
  Spread(Purse(t.utxo)) /\ Purses(t.utxo) = Minted(n) /\ Len(Sunk(t.utxo)) = t.stats.lost

Flowing ==
  past.clean =>
    /\ \A h \in DOMAIN past.tab : SatsWhole(past.tab[h], h)
    /\ SatsApart /\ SatsHeld /\ LostCounted

-----------------------------------------------------------------------------
(* Sequences of sats                                                         *)

LEMMA CoinFacts ==
  ASSUME NEW s
  PROVE  /\ Coins(s) = {Old(s[i]) : i \in DOMAIN s}
         /\ Single(Coin(s)) <=> \A i, j \in DOMAIN s : s[i] = s[j] => i = j
<1>. DEFINE ins == [i \in DOMAIN s |-> <<s[i], 0>>]
<1>1. Coin(s).ins = ins
  BY DEF Coin
<1>2. DOMAIN ins = DOMAIN s /\ \A i \in DOMAIN s : ins[i][1] = s[i]
  OBVIOUS
<1>. HIDE DEF ins
<1>3. On(Coin(s)) = {Old(ins[i][1]) : i \in DOMAIN ins}
  BY <1>1 DEF On
<1>4. On(Coin(s)) = {Old(s[i]) : i \in DOMAIN s}
  BY <1>2, <1>3
<1>5. Single(Coin(s)) <=> \A i, j \in DOMAIN s : s[i] = s[j] => i = j
  BY <1>1, <1>2 DEF Single
<1>. QED BY <1>4, <1>5 DEF Coins

LEMMA CoinNothing == Coins(<< >>) = {} /\ Single(Coin(<< >>))
<1>1. DOMAIN << >> = {}
  OBVIOUS
<1>. QED BY <1>1, CoinFacts

LEMMA CoinSeq ==
  ASSUME NEW s, IsSeq(s)
  PROVE  IsSeq(Coin(s).ins) /\ Len(Coin(s).ins) = Len(s)
<1>. DEFINE f == Coin(s).ins
<1>1. Len(s) \in Nat /\ DOMAIN s = 1..Len(s)
  BY SeqFacts
<1>2. f = [i \in 1..Len(s) |-> <<s[i], 0>>]
  BY <1>1 DEF Coin
<1>3. f = [i \in 1..Len(s) |-> f[i]]
  BY <1>2
<1>. HIDE DEF f
<1>. QED BY <1>1, <1>3, FcnSeq DEF f

LEMMA CoinsConcat ==
  ASSUME NEW s, IsSeq(s), NEW t, IsSeq(t), NEW r, IsConcat(r, s, t),
         Single(Coin(s)), Single(Coin(t)), \A k \in Coins(s) : k \notin Coins(t)
  PROVE  Coins(r) = Coins(s) \cup Coins(t) /\ Single(Coin(r))
<1>. DEFINE a == Coin(s)
            b == Coin(t)
            f == Coin(r)
<1>1. IsSeq(r) /\ Len(r) = Len(s) + Len(t) /\ (\A i \in 1..Len(s) : r[i] = s[i])
      /\ \A i \in 1..Len(t) : r[Len(s) + i] = t[i]
  BY DEF IsConcat
<1>2. /\ Len(s) \in Nat /\ DOMAIN s = 1..Len(s) /\ Len(t) \in Nat /\ DOMAIN t = 1..Len(t)
      /\ DOMAIN r = 1..Len(r)
  BY <1>1, SeqFacts
<1>3. /\ IsSeq(a.ins) /\ Len(a.ins) = Len(s) /\ IsSeq(b.ins) /\ Len(b.ins) = Len(t)
      /\ IsSeq(f.ins) /\ Len(f.ins) = Len(r)
  BY <1>1, CoinSeq
<1>4. /\ a.ins = [i \in 1..Len(s) |-> <<s[i], 0>>]
      /\ b.ins = [i \in 1..Len(t) |-> <<t[i], 0>>]
      /\ f.ins = [i \in 1..Len(r) |-> <<r[i], 0>>]
  BY <1>2 DEF Coin
<1>. HIDE DEF a, b, f
<1>5. \A i \in 1..Len(s) : i \in 1..Len(r)
  BY <1>1, <1>2
<1>6. \A i \in 1..Len(t) : Len(s) + i \in 1..Len(r)
  BY <1>1, <1>2
<1>7. \A i \in 1..Len(a.ins) : f.ins[i] = a.ins[i]
  BY <1>1, <1>3, <1>4, <1>5
<1>8. \A i \in 1..Len(b.ins) : f.ins[Len(a.ins) + i] = b.ins[i]
  <2>1. ASSUME NEW i \in 1..Len(t) PROVE f.ins[Len(s) + i] = b.ins[i]
    <3>1. f.ins[Len(s) + i] = <<r[Len(s) + i], 0>> /\ b.ins[i] = <<t[i], 0>>
      BY <1>4, <1>6
    <3>. QED BY <1>1, <3>1
  <2>. QED BY <1>3, <2>1
<1>9. IsConcat(f.ins, a.ins, b.ins)
  BY <1>1, <1>3, <1>7, <1>8 DEF IsConcat
<1>10. Single(a) /\ Single(b) /\ \A k \in On(a) : k \notin On(b)
  BY DEF a, b, Coins
<1>11. On(f) = On(a) \cup On(b) /\ Single(f)
  BY <1>3, <1>9, <1>10, OnMerged
<1>. QED BY <1>11 DEF a, b, f, Coins

LEMMA PurseIs ==
  ASSUME NEW m
  PROVE  DOMAIN Purse(m) = DOMAIN m /\ \A o \in DOMAIN m : Purse(m)[o] = Coin(m[o].sats)
  BY DEF Purse

LEMMA PursesAre ==
  ASSUME NEW m
  PROVE  /\ \A x : x \in Purses(m) <=> \E o \in DOMAIN m : x \in Coins(m[o].sats)
         /\ Spread(Purse(m)) <=>
              /\ \A o \in DOMAIN m : Single(Coin(m[o].sats))
              /\ \A o, p \in DOMAIN m : \A x \in Coins(m[o].sats) : x \in Coins(m[p].sats) => o = p
<1>. DEFINE P == Purse(m)
<1>1. DOMAIN P = DOMAIN m /\ \A o \in DOMAIN m : P[o] = Coin(m[o].sats)
  BY PurseIs
<1>. HIDE DEF P
<1>2. \A x : x \in AllOn(P) <=> \E o \in DOMAIN m : x \in Coins(m[o].sats)
  <2>1. \A x : x \in AllOn(P) <=> \E o \in DOMAIN P : x \in On(P[o])
    BY DEF AllOn
  <2>. QED BY <1>1, <2>1 DEF Coins
<1>3. Spread(P) <=>
        /\ \A o \in DOMAIN m : Single(Coin(m[o].sats))
        /\ \A o, p \in DOMAIN m : \A x \in Coins(m[o].sats) : x \in Coins(m[p].sats) => o = p
  BY <1>1 DEF Spread, Coins
<1>. QED BY <1>2, <1>3 DEF P, Purses

LEMMA PurseNothing == Purses(<< >>) = {} /\ Spread(Purse(<< >>))
<1>1. DOMAIN Purse(<< >>) = {}
  BY PurseIs
<1>. QED BY <1>1 DEF Purses, AllOn, Spread

LEMMA PurseSame ==
  ASSUME NEW m, NEW r, DOMAIN r = DOMAIN m, \A o \in DOMAIN m : r[o].sats = m[o].sats
  PROVE  Purse(r) = Purse(m)
  BY DEF Purse

LEMMA PurseDrop ==
  ASSUME NEW m, NEW S
  PROVE  Purse(Drop(m, S)) = Drop(Purse(m), S)
  BY DEF Purse, Drop

LEMMA PursePut ==
  ASSUME NEW m, NEW o, NEW e
  PROVE  Purse(Put(m, o, e)) = Put(Purse(m), o, Coin(e.sats))
  BY DEF Purse, Put

LEMMA PursePutAll ==
  ASSUME NEW m, NEW g
  PROVE  Purse(PutAll(m, g)) = PutAll(Purse(m), Purse(g))
  BY DEF Purse, PutAll

\* Inscriptions that come on an entry leave its sats where they are.
LEMMA PursePushed ==
  ASSUME NEW m, NEW o, NEW e, IF o \in DOMAIN m THEN e.sats = m[o].sats ELSE e.sats = << >>,
         Spread(Purse(m))
  PROVE  Purses(Put(m, o, e)) = Purses(m) /\ Spread(Purse(Put(m, o, e)))
<1>. DEFINE P == Purse(m)
            c == Coin(e.sats)
<1>1. Purse(Put(m, o, e)) = Put(P, o, c)
  BY PursePut
<1>2. DOMAIN P = DOMAIN m /\ (o \in DOMAIN m => P[o] = c)
  BY PurseIs
<1>3. o \notin DOMAIN m => On(c) = {} /\ Single(c)
  BY CoinNothing DEF Coins
<1>4. o \in DOMAIN m => Single(P[o])
  BY <1>2 DEF Spread
<1>. HIDE DEF P, c
<1>5. Spread(P)
  BY DEF P
<1>6. IF o \in DOMAIN P THEN On(c) = On(P[o]) \cup {} ELSE On(c) = {}
  BY <1>2, <1>3
<1>7. Single(c)
  BY <1>2, <1>3, <1>4
<1>8. \A k \in {} : k \notin AllOn(P)
  OBVIOUS
<1>9. AllOn(Put(P, o, c)) = AllOn(P) \cup {} /\ Spread(Put(P, o, c))
  BY <1>5, <1>6, <1>7, <1>8, AllOnPut
<1>. QED BY <1>1, <1>9 DEF Purses, P

-----------------------------------------------------------------------------
(* From the inputs of a transaction to its outputs                           *)

\* The sats of the inputs, one after the other, are those of the entries.
LEMMA JoinCoins ==
  ASSUME NEW ins, IsSeq(ins), \A i \in DOMAIN ins : IsSeq(ins[i].sats), Spread(Purse(ins))
  PROVE  LET s == SatsOf(ins, Len(ins))
         IN Coins(s) = Purses(ins) /\ Single(Coin(s)) /\ IsSeq(s)
<1>. DEFINE n == Len(ins)
            J(k) == SatsOf(ins, k)
            Good(k) == /\ Single(Coin(J(k)))
                       /\ \A x : x \in Coins(J(k)) <=> \E i \in 1..k : x \in Coins(ins[i].sats)
            S == {k \in Nat : k <= n => Good(k)}
<1>1. n \in Nat /\ DOMAIN ins = 1..n
  BY SeqFacts
<1>2. \A i \in 1..n : Single(Coin(ins[i].sats))
                      /\ \A j \in 1..n : \A x \in Coins(ins[i].sats) : x \in Coins(ins[j].sats) => i = j
  BY <1>1, PursesAre
<1>3. \A k \in 0..n : IsSeq(J(k)) /\ (k < n => IsConcat(J(k + 1), J(k), ins[k + 1].sats))
  BY <1>1, SatsAreSeq
<1>4. J(0) = << >>
  BY SatsStep
<1>. HIDE DEF n, J
<1>5. 0 \in S
  <2>1. Good(0)
    BY <1>4, CoinNothing
  <2>. QED BY <2>1
<1>6. ASSUME NEW k \in Nat, k \in S PROVE k + 1 \in S
  <2>1. SUFFICES ASSUME k + 1 <= n PROVE Good(k + 1)
    OBVIOUS
  <2>2. k \in 0..n /\ k < n /\ k + 1 \in 1..n /\ k <= n
    BY <1>1, <2>1
  <2>3. Good(k)
    BY <1>6, <2>2
  <2>. DEFINE s == J(k)
              t == ins[k + 1].sats
              r == J(k + 1)
  <2>4. IsSeq(s) /\ IsSeq(t) /\ IsConcat(r, s, t) /\ Single(Coin(t)) /\ Single(Coin(s))
    BY <1>1, <1>2, <1>3, <2>2, <2>3
  <2>5. \A i \in 1..k : i \in 1..n /\ i # k + 1
    BY <1>1, <2>2
  <2>6. \A x \in Coins(s) : x \notin Coins(t)
    BY <1>2, <2>2, <2>3, <2>5
  <2>. HIDE DEF s, t, r
  <2>7. Coins(r) = Coins(s) \cup Coins(t) /\ Single(Coin(r))
    BY <2>4, <2>6, CoinsConcat
  <2>8. \A i : i \in 1..k + 1 <=> i \in 1..k \/ i = k + 1
    BY <2>2
  <2>. QED BY <2>3, <2>7, <2>8 DEF s, t, r
<1>. HIDE DEF S
<1>7. \A k \in Nat : k \in S
  BY <1>5, <1>6, NatSetInduction
<1>8. Good(n)
  BY <1>1, <1>7 DEF S
<1>. HIDE DEF Good
<1>9. \A x : x \in Coins(J(n)) <=> \E i \in 1..n : x \in Coins(ins[i].sats)
  BY <1>8 DEF Good
<1>10. \A x : x \in Purses(ins) <=> \E i \in 1..n : x \in Coins(ins[i].sats)
  BY <1>1, PursesAre
<1>11. Coins(J(n)) = Purses(ins)
  BY <1>9, <1>10
<1>12. IsSeq(J(n))
  BY <1>1, <1>3
<1>. QED BY <1>8, <1>11, <1>12 DEF Good, n, J

\* Each sat up to the value of the outputs is in one of them.
LEMMA OutputOf ==
  ASSUME NEW t, ContentOK(t)
  PROVE  \A p \in 1..ValueOf(t.outs, Len(t.outs)) : \E v \in 1..Len(t.outs) :
           ValueOf(t.outs, v - 1) < p /\ p <= ValueOf(t.outs, v)
<1>. DEFINE n == Len(t.outs)
            V(k) == ValueOf(t.outs, k)
            Good(k) == \A p \in 1..V(k) : \E v \in 1..k : V(v - 1) < p /\ p <= V(v)
            S == {k \in Nat : k <= n => Good(k)}
<1>1. n \in Nat /\ V(0) = 0 /\ \A k \in 0..n : V(k) \in Nat
  BY PaidFacts
<1>. HIDE DEF n, V
<1>2. 0 \in S
  BY <1>1
<1>3. ASSUME NEW k \in Nat, k \in S PROVE k + 1 \in S
  <2>1. SUFFICES ASSUME k + 1 <= n, NEW p \in 1..V(k + 1)
                 PROVE \E v \in 1..k + 1 : V(v - 1) < p /\ p <= V(v)
    OBVIOUS
  <2>2. k \in 0..n /\ k + 1 \in 0..n /\ k <= n
    BY <1>1, <2>1
  <2>3. V(k) \in Nat /\ V(k + 1) \in Nat /\ p \in Nat /\ p >= 1 /\ p <= V(k + 1)
    BY <1>1, <2>1, <2>2
  <2>4. CASE p <= V(k)
    <3>1. p \in 1..V(k)
      BY <2>3, <2>4
    <3>2. PICK v \in 1..k : V(v - 1) < p /\ p <= V(v)
      BY <1>3, <2>2, <3>1
    <3>3. v \in 1..k + 1
      BY <3>2
    <3>. QED BY <3>2, <3>3
  <2>5. CASE p > V(k)
    <3>1. k + 1 \in 1..k + 1 /\ (k + 1) - 1 = k
      BY <2>2
    <3>. QED BY <2>3, <2>5, <3>1
  <2>. QED BY <2>3, <2>4, <2>5
<1>. HIDE DEF S
<1>4. \A k \in Nat : k \in S
  BY <1>2, <1>3, NatSetInduction
<1>. QED BY <1>1, <1>4 DEF S, n, V

\* and different outputs begin where those before them end.
LEMMA OutputsInTurn ==
  ASSUME NEW t, ContentOK(t), NEW v \in 1..Len(t.outs), NEW w \in 1..Len(t.outs), v < w
  PROVE  ValueOf(t.outs, v) <= ValueOf(t.outs, w - 1)
<1>1. /\ Len(t.outs) \in Nat /\ DOMAIN t.outs = 1..Len(t.outs)
      /\ \A n \in 1..Len(t.outs) : t.outs[n].value \in Nat
  BY PaidFacts
<1>2. w - 1 \in Nat /\ v \in 0..w - 1 /\ \A i \in 1..w - 1 : i \in 1..Len(t.outs)
  BY <1>1
<1>3. \A i \in 1..w - 1 : t.outs[i].value \in Nat
  BY <1>1, <1>2
<1>. QED BY <1>2, <1>3, ValueGrows

LEMMA OutputSats ==
  ASSUME ContentOK(T), NEW inSats, IsSeq(inSats), ValueOf(T.outs, Len(T.outs)) <= Len(inSats),
         NEW v \in DOMAIN T.outs
  PROVE  LET s == Outputs(inSats)[v].sats
             from == ValueOf(T.outs, v - 1)
         IN /\ IsSeq(s) /\ Len(s) = T.outs[v].value /\ from \in Nat /\ Len(s) \in Nat
            /\ from + Len(s) = ValueOf(T.outs, v)
            /\ \A k \in 1..Len(s) : s[k] = inSats[from + k] /\ from + k \in 1..Len(inSats)
<1>. DEFINE from == ValueOf(T.outs, v - 1)
            to == ValueOf(T.outs, v)
            value == T.outs[v].value
            all == ValueOf(T.outs, Len(T.outs))
            s == Outputs(inSats)[v].sats
<1>1. Len(T.outs) \in Nat /\ v \in 1..Len(T.outs) /\ v - 1 \in 0..Len(T.outs) /\ v \in 0..Len(T.outs)
  BY PaidFacts
<1>2. from \in Nat /\ to \in Nat /\ all \in Nat /\ value \in Nat /\ to = from + value /\ to <= all
  BY <1>1, PaidFacts
<1>3. s = SubSeq(inSats, from + 1, from + value)
  BY DEF Outputs
<1>4. Len(inSats) \in Nat
  BY SeqFacts
<1>. HIDE DEF from, to, value, all, s
<1>5. all <= Len(inSats)
  BY DEF all
<1>6. from <= from + value /\ from + value <= Len(inSats) /\ (from + value) - from = value
  BY <1>2, <1>4, <1>5
<1>7. IsSeq(s) /\ Len(s) = value /\ \A i \in 1..value : s[i] = inSats[from + i]
  <2>. DEFINE m == from + value
  <2>1. m \in Nat /\ from <= m /\ m <= Len(inSats) /\ m - from = value /\ s = SubSeq(inSats, from + 1, m)
    BY <1>2, <1>3, <1>6
  <2>. HIDE DEF m
  <2>2. IsSeq(s) /\ Len(s) = m - from /\ \A i \in 1..m - from : s[i] = inSats[from + i]
    BY <1>2, <2>1, SubSeqOf
  <2>. QED BY <2>1, <2>2
<1>8. \A k \in 1..value : from + k \in 1..Len(inSats)
  BY <1>2, <1>4, <1>6
<1>9. /\ IsSeq(s) /\ Len(s) = value /\ from \in Nat /\ Len(s) \in Nat /\ from + Len(s) = to
      /\ \A k \in 1..Len(s) : s[k] = inSats[from + k] /\ from + k \in 1..Len(inSats)
  BY <1>2, <1>7, <1>8
<1>. QED BY <1>9 DEF from, to, value, s

\* The outputs and what they leave have each sat of the inputs once.
LEMMA OutCoins ==
  ASSUME ContentOK(T), NEW inSats, IsSeq(inSats), ValueOf(T.outs, Len(T.outs)) <= Len(inSats),
         Single(Coin(inSats))
  PROVE  LET outs == Outputs(inSats)
             left == SubSeq(inSats, ValueOf(T.outs, Len(T.outs)) + 1, Len(inSats))
         IN /\ Spread(Purse(outs)) /\ Single(Coin(left)) /\ IsSeq(left)
            /\ \A k \in Purses(outs) : k \notin Coins(left)
            /\ \A k : k \in Purses(outs) \/ k \in Coins(left) <=> k \in Coins(inSats)
<1>. DEFINE n == Len(T.outs)
            N == Len(inSats)
            V(k) == ValueOf(T.outs, k)
            all == V(n)
            outs == Outputs(inSats)
            left == SubSeq(inSats, all + 1, N)
            In(x, v) == \E p \in 1..N : V(v - 1) < p /\ p <= V(v) /\ x = Old(inSats[p])
<1>1. /\ n \in Nat /\ DOMAIN T.outs = 1..n /\ DOMAIN outs = 1..n /\ N \in Nat /\ DOMAIN inSats = 1..N
      /\ all \in Nat /\ all <= N
  <2>1. n \in Nat /\ DOMAIN T.outs = 1..n /\ \A k \in 0..n : V(k) \in Nat
    BY PaidFacts
  <2>2. n \in 0..n
    BY <2>1
  <2>. QED BY <2>1, <2>2, SeqFacts DEF Outputs
<1>2. \A p, q \in 1..N : inSats[p] = inSats[q] => p = q
  BY <1>1, CoinFacts
<1>3. \A x : x \in Coins(inSats) <=> \E p \in 1..N : x = Old(inSats[p])
  BY <1>1, CoinFacts
<1>4. /\ IsSeq(left) /\ Len(left) = N - all /\ DOMAIN left = 1..N - all
      /\ \A i \in 1..N - all : left[i] = inSats[all + i] /\ all + i \in 1..N
  <2>1. N <= Len(inSats)
    BY <1>1
  <2>2. IsSeq(left) /\ Len(left) = N - all /\ \A i \in 1..N - all : left[i] = inSats[all + i]
    BY <1>1, <2>1, SubSeqOf
  <2>3. \A i \in 1..N - all : all + i \in 1..N
    BY <1>1
  <2>4. DOMAIN left = 1..Len(left)
    BY <2>2, SeqFacts
  <2>. QED BY <2>2, <2>3, <2>4
<1>5. \A v \in 1..n : V(v - 1) \in Nat /\ V(v) \in Nat /\ V(v) <= all
  <2>1. \A k \in 0..n : V(k) \in Nat /\ V(k) <= all
    BY PaidFacts
  <2>. QED BY <1>1, <2>1
<1>6. ASSUME NEW v \in 1..n
      PROVE  /\ Single(Coin(outs[v].sats))
             /\ \A x : x \in Coins(outs[v].sats) <=> In(x, v)
  <2>. DEFINE s == outs[v].sats
              from == V(v - 1)
  <2>1. /\ IsSeq(s) /\ from \in Nat /\ Len(s) \in Nat /\ from + Len(s) = V(v)
        /\ \A k \in 1..Len(s) : s[k] = inSats[from + k] /\ from + k \in 1..N
    BY <1>1, <1>6, OutputSats
  <2>2. DOMAIN s = 1..Len(s)
    BY <2>1, SeqFacts
  <2>. HIDE DEF s, outs
  <2>. HIDE DEF V, N
  <2>3. Single(Coin(s))
    <3>1. ASSUME NEW k \in 1..Len(s), NEW l \in 1..Len(s), s[k] = s[l] PROVE k = l
      <4>1. from + k = from + l
        BY <1>2, <2>1, <3>1
      <4>. HIDE DEF from
      <4>. QED BY <2>1, <4>1
    <3>. QED BY <2>2, <3>1, CoinFacts
  <2>4. ASSUME NEW x, x \in Coins(s) PROVE In(x, v)
    <3>1. PICK k \in 1..Len(s) : x = Old(s[k])
      BY <2>2, <2>4, CoinFacts
    <3>2. from < from + k /\ from + k <= V(v)
      BY <2>1, <3>1
    <3>3. from + k \in 1..N /\ x = Old(inSats[from + k])
      BY <2>1, <3>1
    <3>. QED BY <3>2, <3>3
  <2>5. ASSUME NEW x, In(x, v) PROVE x \in Coins(s)
    <3>1. PICK p \in 1..N : from < p /\ p <= V(v) /\ x = Old(inSats[p])
      BY <2>5
    <3>. HIDE DEF from
    <3>2. p - from \in 1..Len(s) /\ from + (p - from) = p
      BY <1>1, <2>1, <3>1
    <3>3. s[p - from] = inSats[p]
      BY <2>1, <3>2
    <3>. QED BY <2>2, <3>1, <3>2, <3>3, CoinFacts
  <2>. QED BY <2>3, <2>4, <2>5 DEF s
<1>7. \A x : x \in Coins(left) <=> \E p \in 1..N : all < p /\ x = Old(inSats[p])
  <2>. HIDE DEF left, all, N
  <2>1. ASSUME NEW x, x \in Coins(left) PROVE \E p \in 1..N : all < p /\ x = Old(inSats[p])
    <3>1. PICK i \in 1..N - all : x = Old(left[i])
      BY <1>4, <2>1, CoinFacts
    <3>2. all < all + i /\ all + i \in 1..N /\ x = Old(inSats[all + i])
      BY <1>1, <1>4, <3>1
    <3>. QED BY <3>2
  <2>2. ASSUME NEW x, NEW p \in 1..N, all < p, x = Old(inSats[p]) PROVE x \in Coins(left)
    <3>1. p - all \in 1..N - all /\ all + (p - all) = p
      BY <1>1, <2>2
    <3>2. left[p - all] = inSats[p]
      BY <1>4, <3>1
    <3>. QED BY <1>4, <2>2, <3>1, <3>2, CoinFacts
  <2>. QED BY <2>1, <2>2
<1>8. Single(Coin(left))
  <2>. HIDE DEF left, all, N
  <2>1. ASSUME NEW i \in 1..N - all, NEW j \in 1..N - all, left[i] = left[j] PROVE i = j
    <3>1. all + i = all + j
      BY <1>2, <1>4, <2>1
    <3>. QED BY <1>1, <3>1
  <2>. QED BY <1>4, <2>1, CoinFacts
<1>9. \A x : x \in Purses(outs) <=> \E v \in 1..n : In(x, v)
  <2>. HIDE DEF outs, In
  <2>1. \A x : x \in Purses(outs) <=> \E v \in 1..n : x \in Coins(outs[v].sats)
    BY <1>1, PursesAre
  <2>. QED BY <1>6, <2>1
<1>10. ASSUME NEW v \in 1..n, NEW w \in 1..n, NEW x, In(x, v), In(x, w) PROVE v = w
  <2>1. PICK p \in 1..N : V(v - 1) < p /\ p <= V(v) /\ x = Old(inSats[p])
    BY <1>10
  <2>2. PICK q \in 1..N : V(w - 1) < q /\ q <= V(w) /\ x = Old(inSats[q])
    BY <1>10
  <2>3. p = q
    BY <1>2, <2>1, <2>2, KeysDiffer
  <2>4. v < w => V(v) <= V(w - 1)
    BY OutputsInTurn
  <2>5. w < v => V(w) <= V(v - 1)
    BY OutputsInTurn
  <2>6. V(v) \in Nat /\ V(w) \in Nat /\ V(v - 1) \in Nat /\ V(w - 1) \in Nat
    BY <1>5
  <2>. HIDE DEF V, N
  <2>7. ~(v < w) /\ ~(w < v)
    BY <1>1, <2>1, <2>2, <2>3, <2>4, <2>5, <2>6
  <2>8. v \in Nat /\ w \in Nat
    BY <1>1
  <2>. QED BY <2>7, <2>8
<1>11. Spread(Purse(outs))
  <2>. HIDE DEF outs, In
  <2>1. \A v \in DOMAIN outs : Single(Coin(outs[v].sats))
    BY <1>1, <1>6
  <2>2. ASSUME NEW v \in DOMAIN outs, NEW w \in DOMAIN outs, NEW x \in Coins(outs[v].sats),
               x \in Coins(outs[w].sats)
        PROVE  v = w
    <3>1. In(x, v) /\ In(x, w)
      BY <1>1, <1>6, <2>2
    <3>. QED BY <1>1, <1>10, <3>1
  <2>. QED BY <2>1, <2>2, PursesAre
<1>12. ASSUME NEW x PROVE (\E v \in 1..n : In(x, v)) <=> \E p \in 1..N : p <= all /\ x = Old(inSats[p])
  <2>1. ASSUME NEW v \in 1..n, In(x, v) PROVE \E p \in 1..N : p <= all /\ x = Old(inSats[p])
    <3>1. PICK p \in 1..N : p <= V(v) /\ x = Old(inSats[p])
      BY <2>1
    <3>2. V(v) \in Nat /\ V(v) <= all
      BY <1>5
    <3>. HIDE DEF V, N, all
    <3>3. p <= all
      BY <1>1, <3>1, <3>2
    <3>. QED BY <3>1, <3>3
  <2>2. ASSUME NEW p \in 1..N, p <= all, x = Old(inSats[p]) PROVE \E v \in 1..n : In(x, v)
    <3>1. p \in 1..all
      BY <1>1, <2>2
    <3>2. PICK v \in 1..n : V(v - 1) < p /\ p <= V(v)
      BY <3>1, OutputOf
    <3>. QED BY <2>2, <3>2
  <2>. QED BY <2>1, <2>2
<1>. HIDE DEF outs, left, In, V, N, all, n
<1>13. \A x : x \in Purses(outs) <=> \E p \in 1..N : p <= all /\ x = Old(inSats[p])
  BY <1>9, <1>12
<1>14. \A k \in Purses(outs) : k \notin Coins(left)
  <2>1. ASSUME NEW x \in Purses(outs), x \in Coins(left) PROVE FALSE
    <3>1. PICK p \in 1..N : p <= all /\ x = Old(inSats[p])
      BY <1>13, <2>1
    <3>2. PICK q \in 1..N : all < q /\ x = Old(inSats[q])
      BY <1>7, <2>1
    <3>3. p = q
      BY <1>2, <3>1, <3>2, KeysDiffer
    <3>. QED BY <1>1, <3>1, <3>2, <3>3
  <2>. QED BY <2>1
<1>15. \A p \in 1..N : p <= all \/ all < p
  BY <1>1
<1>16. \A k : k \in Purses(outs) \/ k \in Coins(left) <=> k \in Coins(inSats)
  BY <1>3, <1>7, <1>13, <1>15
<1>. QED BY <1>4, <1>8, <1>11, <1>14, <1>16 DEF outs, left, all, V, n, N

-----------------------------------------------------------------------------
(* Steps that leave the sats where they are                                  *)

\* The tables, the accounts of the block and its position keep their sats.
SameFunds ==
  /\ UNCHANGED <<chain, block, past>> /\ staged'.state = staged.state
  /\ tab'.utxo = tab.utxo /\ tab'.stats.lost = tab.stats.lost /\ (InTx' <=> InTx)
  /\ Indexing => /\ At'.tx = At.tx
                 /\ Accounts'.fees = Accounts.fees /\ Accounts'.lost = Accounts.lost

LEMMA FundsSame ==
  ASSUME SameFunds
  PROVE  /\ (Indexing' <=> Indexing) /\ Owed' = Owed /\ Left' = Left /\ Begun' = Begun
<1>1. (Indexing' <=> Indexing) /\ Txs' = Txs /\ Begun' = Begun
  BY DEF SameFunds, Indexing, Txs, InOrder, Begun
<1>2. (InTx' <=> InTx) /\ (Indexing => /\ At'.tx = At.tx
                                       /\ Accounts'.fees = Accounts.fees /\ Accounts'.lost = Accounts.lost)
  BY DEF SameFunds
<1>3. Indexing => (IsLast' <=> IsLast)
  BY <1>1, <1>2 DEF IsLast
<1>. HIDE DEF At, Accounts, InTx, Indexing, Txs, IsLast
<1>. QED BY <1>1, <1>2, <1>3 DEF Owed, Left

LEMMA KeptFlowing ==
  ASSUME Flowing, SameFunds,
         Purses(staged'.cache) = Purses(staged.cache), Sunk(staged'.cache) = Sunk(staged.cache),
         Spread(Purse(staged.cache)) => Spread(Purse(staged'.cache)),
         Purses(Outs') = Purses(Outs), Spread(Purse(Outs)) => Spread(Purse(Outs'))
  PROVE  Flowing'
<1>1. /\ (Indexing' <=> Indexing) /\ Owed' = Owed /\ Left' = Left /\ Begun' = Begun
      /\ UNCHANGED <<chain, block, past>> /\ tab'.utxo = tab.utxo /\ tab'.stats.lost = tab.stats.lost
  BY FundsSame DEF SameFunds
<1>. HIDE DEF Indexing, Owed, Left, Begun, Outs
<1>2. SUFFICES ASSUME past.clean
               PROVE  (/\ \A h \in DOMAIN past.tab : SatsWhole(past.tab[h], h)
                       /\ SatsApart /\ SatsHeld /\ LostCounted)'
  BY <1>1 DEF Flowing
<1>3. (\A h \in DOMAIN past.tab : SatsWhole(past.tab[h], h)) /\ SatsApart /\ SatsHeld /\ LostCounted
  BY <1>2 DEF Flowing
<1>4. (\A h \in DOMAIN past.tab : SatsWhole(past.tab[h], h))'
  BY <1>1, <1>3 DEF SatsWhole
<1>5. SatsApart'
  BY <1>1, <1>3 DEF SatsApart
<1>6. SatsHeld'
  BY <1>1, <1>3 DEF SatsHeld
<1>7. LostCounted'
  BY <1>1, <1>3 DEF LostCounted
<1>. QED BY <1>4, <1>5, <1>6, <1>7

LEMMA QuietFlowing ==
  ASSUME Flowing, SameFunds, staged'.cache = staged.cache, Outs' = Outs
  PROVE  Flowing'
BY KeptFlowing

\* A step of a transaction that neither touches the tables nor the cache.
LEMMA InTxFlowing ==
  ASSUME Frame, Flowing, tx # Absent, run' # Absent, tx' # Absent,
         UNCHANGED <<chain, tab, block, staged, past>>,
         tx'.outs = tx.outs, run'.tx = run.tx, run'.fees = run.fees, run'.lost = run.lost
  PROVE  Flowing'
<1>1. run # Absent /\ Indexing /\ InTx /\ At = run /\ Work = tx /\ Accounts = run
  BY InTxFacts
<1>2. InTx' /\ At' = run' /\ Work' = tx' /\ Accounts' = run' /\ Indexing' = Indexing
  BY <1>1, InTxAfter
<1>. HIDE DEF At, InTx, Work, Accounts, Indexing
<1>3. SameFunds
  BY <1>1, <1>2 DEF SameFunds
<1>4. Outs' = Outs
  BY <1>1, <1>2 DEF Outs
<1>. QED BY <1>3, <1>4, QuietFlowing

LEMMA TakeFlowing == ASSUME Frame, Frame', Flowing, Take PROVE Flowing'
<1>. DEFINE m == Moved[run.inscription]
            f == [id |-> tab.entries[m[1]].id, offset |-> tx.inValue + m[2],
                  seq |-> m[1], new |-> Absent]
            floating == Append(tx.floating, f)
            offsets == Counted(tx.offsets, tx.inValue + m[2], tab.entries[m[1]].id)
<1>1. /\ AtInput /\ tx' = [tx EXCEPT !.floating = floating, !.offsets = offsets]
      /\ run' = [run EXCEPT !.inscription = run.inscription + 1]
      /\ UNCHANGED <<chain, tab, records, block, cursor, staged, saved, past>>
  BY DEF Take
<1>2. tx # Absent /\ TxOK(tx) /\ RunOK(run)
  BY <1>1, InTxFacts DEF AtInput
<1>. HIDE DEF floating, offsets
<1>3. "phase" \in DOMAIN tx' /\ tx'.outs = tx.outs
  BY <1>1, <1>2 DEF TxOK, TxShape
<1>4. "tx" \in DOMAIN run' /\ run'.tx = run.tx /\ run'.fees = run.fees /\ run'.lost = run.lost
  BY <1>1, <1>2 DEF RunOK, RunShape
<1>5. tx' # Absent /\ run' # Absent
  BY <1>3, <1>4, HasFields
<1>. QED BY <1>1, <1>2, <1>3, <1>4, <1>5, InTxFlowing

LEMMA FinishInputFlowing == ASSUME Frame, Frame', Flowing, FinishInput PROVE Flowing'
<1>. DEFINE value == IF Coinbase THEN Subsidy ELSE Len(tx.ins[run.input].sats)
            w == Revealed(tx.inValue, value)
<1>1. /\ AtInput /\ tx' = [w EXCEPT !.inValue = w.inValue + value]
      /\ run' = [run EXCEPT !.input = run.input + 1, !.inscription = 1]
      /\ UNCHANGED <<chain, tab, records, block, cursor, staged, saved, past>>
  BY DEF FinishInput
<1>2. tx # Absent /\ TxOK(tx) /\ RunOK(run) /\ ContentOK(T) /\ tx.inValue \in Nat
  BY <1>1, InTxFacts DEF AtInput, TxOK
<1>. HIDE DEF value
<1>3. Reveals(tx, w)
  BY <1>2, RevealedReveals
<1>. HIDE DEF w
<1>4. TxShape(w) /\ w.outs = tx.outs
  BY <1>3 DEF Reveals
<1>5. "phase" \in DOMAIN tx' /\ tx'.outs = tx.outs
  BY <1>1, <1>4 DEF TxShape
<1>6. "tx" \in DOMAIN run' /\ run'.tx = run.tx /\ run'.fees = run.fees /\ run'.lost = run.lost
  BY <1>1, <1>2 DEF RunOK, RunShape
<1>7. tx' # Absent /\ run' # Absent
  BY <1>5, <1>6, HasFields
<1>. QED BY <1>1, <1>2, <1>5, <1>6, <1>7, InTxFlowing

LEMMA FinishInputsFlowing == ASSUME Frame, Frame', Flowing, FinishInputs PROVE Flowing'
<1>. DEFINE present == {tx.floating[i].id : i \in DOMAIN tx.floating}
            own == [i \in DOMAIN tx.floating |->
                      IF tx.floating[i].new = Absent THEN tx.floating[i]
                      ELSE [tx.floating[i] EXCEPT !.new.parents = @ \cap present]]
            all == own \o (IF Coinbase THEN run.flotsam ELSE << >>)
            queue == Sorted(all, [i \in DOMAIN all |-> all[i].offset])
            flotsam == IF Coinbase THEN << >> ELSE run.flotsam
<1>1. /\ run # Absent /\ tx # Absent
      /\ tx' = IF saved.in2 # Absent
               THEN [tx EXCEPT !.phase = "outputs", !.located = saved.in2.located,
                               !.outValue = saved.in2.outValue,
                               !.inValue = saved.in2.inValue,
                               !.out = saved.in2.out, !.queue = saved.in2.queue]
               ELSE [tx EXCEPT !.phase = "outputs", !.queue = queue]
      /\ run' = [run EXCEPT !.input = 1, !.flotsam = flotsam]
      /\ UNCHANGED <<chain, tab, records, block, cursor, staged, past>>
  BY DEF FinishInputs
<1>2. TxOK(tx) /\ RunOK(run)
  BY <1>1, InTxFacts
<1>. HIDE DEF queue, flotsam
<1>3. "phase" \in DOMAIN tx' /\ tx'.outs = tx.outs
  BY <1>1, <1>2 DEF TxOK, TxShape
<1>4. "tx" \in DOMAIN run' /\ run'.tx = run.tx /\ run'.fees = run.fees /\ run'.lost = run.lost
  BY <1>1, <1>2 DEF RunOK, RunShape
<1>5. tx' # Absent /\ run' # Absent
  BY <1>3, <1>4, HasFields
<1>. QED BY <1>1, <1>3, <1>4, <1>5, InTxFlowing

\* The steps that only change the locals of the transaction.
LEMMA LocalFlowing ==
  ASSUME Frame, Flowing, Place \/ NextOutput \/ FinishOutputs \/ FinishLocations
  PROVE  Flowing'
<1>1. /\ run # Absent /\ tx # Absent /\ UNCHANGED <<chain, tab, block, staged, run, past>>
  BY DEF Place, NextOutput, FinishOutputs, FinishLocations, Placeable, AtOutputs, AtLocations
<1>2. TxShape(tx)
  BY <1>1, InTxFacts DEF TxOK
<1>3. "phase" \in DOMAIN tx' /\ tx'.outs = tx.outs
  <2>1. CASE Place
    <3>. DEFINE located == Append(tx.located, [flotsam |-> Head(tx.queue), out |-> tx.out,
                                       offset |-> Head(tx.queue).offset - tx.outValue])
                queue == Tail(tx.queue)
    <3>1. tx' = [tx EXCEPT !.located = located, !.queue = queue]
      BY <2>1 DEF Place
    <3>. HIDE DEF located, queue
    <3>. QED BY <1>2, <3>1 DEF TxShape
  <2>2. CASE NextOutput
    <3>. DEFINE value == tx.outValue + T.outs[tx.out].value
                out == tx.out + 1
    <3>1. tx' = [tx EXCEPT !.outValue = value, !.out = out]
      BY <2>2 DEF NextOutput
    <3>. HIDE DEF value, out
    <3>. QED BY <1>2, <3>1 DEF TxShape
  <2>3. CASE FinishOutputs
    BY <1>2, <2>3 DEF FinishOutputs, TxShape
  <2>4. CASE FinishLocations
    BY <1>2, <2>4 DEF FinishLocations, TxShape
  <2>. QED BY <2>1, <2>2, <2>3, <2>4
<1>4. tx' # Absent
  BY <1>3, HasFields
<1>. QED BY <1>1, <1>3, <1>4, InTxFlowing

LEMMA ViewFlowing ==
  ASSUME Flowing, SameView, tab'.stats.lost = tab.stats.lost,
         Indexing => Accounts'.fees = Accounts.fees /\ Accounts'.lost = Accounts.lost
  PROVE  Flowing'
<1>1. SameFunds /\ staged'.cache = staged.cache /\ Outs' = Outs
  BY DEF SameView, SameFunds
<1>. QED BY <1>1, QuietFlowing

LEMMA BeginFlowing == ASSUME Frame, Flowing, Begin PROVE Flowing'
<1>1. run = Absent /\ run' # Absent /\ UNCHANGED <<tab, saved>>
  BY BeginSame DEF Begin
<1>2. run'.fees = Kept.fees /\ run'.lost = Kept.lost
  BY DEF Begin
<1>3. Accounts'.fees = Accounts.fees /\ Accounts'.lost = Accounts.lost
  BY <1>1, <1>2 DEF Accounts
<1>. QED BY <1>1, <1>3, BeginView, ViewFlowing

LEMMA ContinueFlowing == ASSUME Frame, Frame', Sited, Flowing, Continue PROVE Flowing'
<1>1. run # Absent /\ UNCHANGED <<tab, run>>
  BY DEF Continue
<1>2. Accounts' = Accounts
  BY <1>1 DEF Accounts
<1>3. SameView
  BY ContinuePlaces DEF Sited
<1>. QED BY <1>1, <1>2, <1>3, ViewFlowing

\* A message that ends in a transaction saves the accounts.
LEMMA SuspendFunds ==
  ASSUME Frame, tx # Absent, NEW input, NEW inscription, NEW kept,
         Suspend(input, inscription, kept), SavedShape(kept)
  PROVE  tab'.stats.lost = tab.stats.lost
         /\ Accounts'.fees = Accounts.fees /\ Accounts'.lost = Accounts.lost
<1>. DEFINE b == [flotsam |-> run.flotsam, reward |-> run.reward,
                  fees |-> run.fees, lost |-> run.lost]
            t == [ins |-> tx.ins, outs |-> tx.outs, inSats |-> tx.inSats]
            stats == [run.stats EXCEPT !.lost = tab.stats.lost]
            last == Put(tab.last, H, run.next)
<1>1. /\ saved' = [kept EXCEPT !.block = b, !.tx = t]
      /\ tab' = [tab EXCEPT !.last = last, !.stats = stats]
      /\ run' = Absent
  BY DEF Suspend
<1>2. RunOK(run) /\ Accounts = run /\ TabShape(tab)
  BY InTxFacts DEF Frame, Types, TabOK
<1>3. b # Absent
  <2>1. "fees" \in DOMAIN b
    OBVIOUS
  <2>. HIDE DEF b
  <2>. QED BY <2>1, HasFields
<1>4. b.fees = run.fees /\ b.lost = run.lost
  OBVIOUS
<1>5. stats.lost = tab.stats.lost
  <2>1. run.stats \in [lost : Nat, cursed : Nat, blessed : Nat, unbound : Nat]
    BY <1>2 DEF RunOK, StatsOK
  <2>. QED BY <2>1
<1>. HIDE DEF b, t, stats, last
<1>6. saved'.block = b
  BY <1>1 DEF SavedShape
<1>7. tab'.stats = stats
  BY <1>1, <1>2 DEF TabShape
<1>8. Accounts' = b
  BY <1>1, <1>3, <1>6 DEF Accounts, Kept
<1>. QED BY <1>2, <1>4, <1>5, <1>7, <1>8

LEMMA BreakFlowing == ASSUME Frame, Frame', Sited, Flowing, Break PROVE Flowing'
<1>1. SavedShape(saved) /\ Positions
  BY DEF Frame, Types, SavedOK, Sited
<1>2. CASE BreakInputs
  <2>. DEFINE in1 == [floating |-> tx.floating, offsets |-> tx.offsets,
                      id |-> tx.id, inValue |-> tx.inValue]
              kept == [saved EXCEPT !.in1 = in1]
  <2>1. tx # Absent /\ Suspend(run.input, run.inscription, kept)
    BY <1>2 DEF BreakInputs, AtInput
  <2>. HIDE DEF in1
  <2>2. SavedShape(kept)
    BY <1>1 DEF SavedShape
  <2>. HIDE DEF kept
  <2>. QED BY <1>1, <1>2, <2>1, <2>2, SuspendFunds, BreakInputsPlaces, ViewFlowing
<1>3. CASE BreakOutputs
  <2>. DEFINE in2 == [located |-> tx.located, outValue |-> tx.outValue,
                      inValue |-> tx.inValue, out |-> tx.out, queue |-> tx.queue]
              kept == [saved EXCEPT !.in2 = in2]
  <2>1. tx # Absent /\ Suspend(Inputs + 1, 1, kept)
    BY <1>3 DEF BreakOutputs, Placeable, AtOutputs
  <2>. HIDE DEF in2
  <2>2. SavedShape(kept)
    BY <1>1 DEF SavedShape
  <2>. HIDE DEF kept
  <2>. QED BY <1>1, <1>3, <2>1, <2>2, SuspendFunds, BreakOutputsPlaces, ViewFlowing
<1>4. CASE BreakLocations
  <2>. DEFINE in3 == [located |-> tx.located, outValue |-> tx.outValue,
                      inValue |-> tx.inValue, queue |-> tx.queue, loc |-> tx.loc]
              kept == [saved EXCEPT !.in3 = in3]
  <2>1. tx # Absent /\ Suspend(Inputs + 1, 1, kept)
    BY <1>4 DEF BreakLocations, AtLocations
  <2>. HIDE DEF in3
  <2>2. SavedShape(kept)
    BY <1>1 DEF SavedShape
  <2>. HIDE DEF kept
  <2>. QED BY <1>1, <1>4, <2>1, <2>2, SuspendFunds, BreakLocationsPlaces, ViewFlowing
<1>. QED BY <1>2, <1>3, <1>4 DEF Break

LEMMA CommitInscriptionFlowing ==
  ASSUME Frame, Flowing, CommitInscription PROVE Flowing'
<1>1. TabShape(tab) /\ ~Indexing
  BY CommittingFacts DEF CommitInscription, TabOK
<1>2. tab'.stats = tab.stats
  <2>. DEFINE points == Put(tab.points, Head(staged.pending)[1],
                            [outpoint |-> staged.outpoint, offset |-> Head(staged.pending)[2]])
  <2>1. tab' = [tab EXCEPT !.points = points]
    BY DEF CommitInscription
  <2>. HIDE DEF points
  <2>. QED BY <1>1, <2>1 DEF TabShape
<1>3. SameView
  BY CommitInscriptionPlaces
<1>. QED BY <1>1, <1>2, <1>3, ViewFlowing

LEMMA StutterFlowing == ASSUME Flowing, UNCHANGED vars PROVE Flowing'
<1>1. /\ UNCHANGED <<chain, tab, block, staged, past>>
      /\ (InTx' <=> InTx) /\ At' = At /\ Accounts' = Accounts /\ Work' = Work
  BY DEF vars, InTx, At, Accounts, Kept, Work, NewBlock, H
<1>2. SameFunds /\ Outs' = Outs
  BY <1>1 DEF SameFunds, Outs
<1>. QED BY <1>1, <1>2, QuietFlowing

-----------------------------------------------------------------------------
(* The null outpoint                                                         *)

LEMMA SunkPut ==
  ASSUME NEW m, NEW o, NEW e
  PROVE  Sunk(Put(m, o, e)) = IF o = Null THEN e.sats ELSE Sunk(m)
BY DEF Sunk, Cached, Put

LEMMA SunkDrop ==
  ASSUME NEW m, NEW S
  PROVE  /\ Null \notin S => Sunk(Drop(m, S)) = Sunk(m)
         /\ Null \in S => Sunk(Drop(m, S)) = << >>
BY DEF Sunk, Cached, Drop, NoEntry

LEMMA SunkPutAll ==
  ASSUME NEW m, NEW g, Null \notin DOMAIN g
  PROVE  Sunk(PutAll(m, g)) = Sunk(m)
BY DEF Sunk, Cached, PutAll

LEMMA SunkNothing == Sunk(<< >>) = << >>
BY DEF Sunk, Cached, NoEntry

\* An inscription comes on an entry.
LEMMA PushedSats ==
  ASSUME NEW e, EntryOK(e), NEW place
  PROVE  Pushed(e, place).sats = e.sats
<1>. DEFINE ins == Append(e.ins, place)
<1>1. Pushed(e, place) = [e EXCEPT !.ins = ins]
  BY DEF Pushed
<1>. HIDE DEF ins
<1>. QED BY <1>1 DEF EntryOK

LEMMA ComesSats ==
  ASSUME NEW t, NEW f, NEW o, NEW to, NEW place, Comes(t, f, o, to, place),
         EntriesOK(staged.cache), EntriesOK(t.outs), Spread(Purse(staged.cache))
  PROVE  /\ Purses(staged'.cache) = Purses(staged.cache) /\ Spread(Purse(staged'.cache))
         /\ Sunk(staged'.cache) = Sunk(staged.cache) /\ Purse(tx'.outs) = Purse(t.outs)
<1>1. CASE to \in Special
  <2>. DEFINE c == Cached(staged.cache, to)
              e == Pushed(c, place)
  <2>1. staged'.cache = Put(staged.cache, to, e) /\ tx'.outs = t.outs
    BY <1>1 DEF Comes
  <2>2. e.sats = c.sats
    BY CachedOK, PushedSats
  <2>3. IF to \in DOMAIN staged.cache THEN c.sats = staged.cache[to].sats ELSE c.sats = << >>
    BY DEF Cached, NoEntry
  <2>4. to = Null => c.sats = Sunk(staged.cache)
    BY DEF Sunk
  <2>. HIDE DEF c, e
  <2>5. IF to \in DOMAIN staged.cache THEN e.sats = staged.cache[to].sats ELSE e.sats = << >>
    BY <2>2, <2>3
  <2>. QED BY <2>1, <2>2, <2>4, <2>5, PursePushed, SunkPut
<1>2. CASE to \notin Special
  <2>. DEFINE x == o[2]
              e == Pushed(t.outs[x], place)
  <2>1. staged'.cache = staged.cache /\ tx'.outs = [t.outs EXCEPT ![x] = e]
    BY <1>2 DEF Comes
  <2>2. x \in DOMAIN t.outs => e.sats = t.outs[x].sats
    BY PushedSats DEF EntriesOK
  <2>. HIDE DEF e, x
  <2>3. DOMAIN tx'.outs = DOMAIN t.outs /\ \A v \in DOMAIN t.outs : tx'.outs[v].sats = t.outs[v].sats
    BY <2>1, <2>2
  <2>4. Purse(tx'.outs) = Purse(t.outs)
    BY <2>3, PurseSame
  <2>. QED BY <2>1, <2>4
<1>. QED BY <1>1, <1>2

LEMMA SettlesFlowing == ASSUME Frame, Flowing, Locate \/ Lose PROVE Flowing'
<1>1. run # Absent /\ tx # Absent /\ UNCHANGED <<chain, block, past>>
  BY DEF Locate, Lose, AtLocations
<1>2. /\ TxOK(tx) /\ RunOK(run) /\ TabOK(tab) /\ StagedOK(staged) /\ Indexing /\ InTx
      /\ At = run /\ Work = tx /\ Accounts = run
  BY <1>1, InTxFacts DEF Frame, Types
<1>3. \E t, f, o, offset, burn :
        /\ Settle(t, f, o, offset, burn) /\ FlotsamOK(f) /\ offset \in Nat
        /\ TxShape(t) /\ t.outs = tx.outs
  <2>1. CASE Locate
    <3>. DEFINE l == tx.located[tx.loc]
                loc == tx.loc + 1
                t == [tx EXCEPT !.loc = loc]
    <3>1. Settle(t, l.flotsam, <<T.id, l.out>>, l.offset, T.outs[l.out].burn)
      BY <2>1 DEF Locate
    <3>2. LocationOK(l)
      <4>1. tx.loc \in Nat \ {0} /\ tx.loc <= Len(tx.located)
        BY <1>2, <2>1 DEF Locate, AtLocations, TxOK
      <4>2. DOMAIN tx.located = 1..Len(tx.located) /\ Len(tx.located) \in Nat
        BY <1>2, SeqFacts DEF TxOK, Landed
      <4>3. tx.loc \in DOMAIN tx.located
        BY <4>1, <4>2
      <4>. QED BY <1>2, <4>3 DEF TxOK, Landed
    <3>. HIDE DEF loc
    <3>3. TxShape(t) /\ t.outs = tx.outs
      BY <1>2 DEF TxOK, TxShape
    <3>. HIDE DEF t, l
    <3>. QED BY <3>1, <3>2, <3>3 DEF LocationOK
  <2>2. CASE Lose
    <3>. DEFINE f == Head(tx.queue)
                offset == run.stats.lost + f.offset - tx.outValue
                queue == Tail(tx.queue)
                t == [tx EXCEPT !.queue = queue]
    <3>1. tx.phase = "rest" /\ tx.queue # << >> /\ Settle(t, f, Null, offset, FALSE)
      BY <2>2 DEF Lose
    <3>2. FlotsamOK(f) /\ tx.outValue <= f.offset
      <4>1. Ready(tx.queue, tx.outValue)
        BY <1>1, <3>1 DEF Frame, Counts, PaidOut, Paid
      <4>. QED BY <3>1, <4>1, TailReady
    <3>3. offset \in Nat
      <4>1. run.stats.lost \in Nat /\ f.offset \in Nat /\ tx.outValue \in Nat
        BY <1>2, <3>2 DEF RunOK, StatsOK, FlotsamOK, TxOK
      <4>. QED BY <3>2, <4>1
    <3>. HIDE DEF queue
    <3>4. TxShape(t) /\ t.outs = tx.outs
      BY <1>2 DEF TxOK, TxShape
    <3>. QED BY <3>1, <3>2, <3>3, <3>4
  <2>. QED BY <2>1, <2>2
<1>4. PICK t, f, o, offset, burn :
        /\ Settle(t, f, o, offset, burn) /\ FlotsamOK(f) /\ offset \in Nat
        /\ TxShape(t) /\ t.outs = tx.outs
  BY <1>3
<1>5. EntriesOK(t.outs) /\ EntriesOK(staged.cache)
  BY <1>2, <1>4 DEF TxOK, WorkOK, StagedOK
<1>6. /\ run' # Absent /\ staged'.state = staged.state /\ run'.tx = run.tx /\ run'.fees = run.fees
      /\ "phase" \in DOMAIN tx'
  BY <1>2, <1>4, <1>5, SettleFacts
<1>7. /\ \E cache : IF f.new = Absent THEN Transfers(f, burn, cache) ELSE Inscribes(f, o, burn, cache)
      /\ \E to : \E place \in Nat \X Nat : Comes(t, f, o, to, place)
  BY <1>2, <1>4, <1>5, SettlePlaces
<1>8. tab'.utxo = tab.utxo /\ tab'.stats = tab.stats
  BY <1>7 DEF Transfers, Inscribes
<1>9. run'.lost = run.lost
  <2>1. PICK cache : IF f.new = Absent THEN Transfer(f, burn, cache) ELSE Inscribe(f, o, burn, cache)
    BY <1>4, SettleStep
  <2>2. CASE Transfer(f, burn, cache)
    BY <2>2 DEF Transfer
  <2>3. CASE Inscribe(f, o, burn, cache)
    <3>. DEFINE next == run.next + 1
                cursed == IF f.new.cursed THEN run.stats.cursed + 1 ELSE run.stats.cursed
                blessed == IF f.new.cursed THEN run.stats.blessed ELSE run.stats.blessed + 1
                unbound == IF f.new.unbound THEN run.stats.unbound + 1 ELSE run.stats.unbound
    <3>1. run' = [run EXCEPT !.next = next, !.stats.cursed = cursed,
                             !.stats.blessed = blessed, !.stats.unbound = unbound]
      BY <2>3 DEF Inscribe
    <3>. HIDE DEF next, cursed, blessed, unbound
    <3>. QED BY <1>2, <3>1 DEF RunOK, RunShape
  <2>. QED BY <2>1, <2>2, <2>3
<1>10. tx' # Absent
  BY <1>6, HasFields
<1>11. InTx' /\ At' = run' /\ Work' = tx' /\ Accounts' = run' /\ Indexing' = Indexing
  BY <1>1, <1>2, <1>6, <1>10, InTxAfter
<1>12. SameFunds /\ Outs = tx.outs /\ Outs' = tx'.outs
  <2>. HIDE DEF At, InTx, Work, Accounts, Indexing
  <2>. QED BY <1>1, <1>2, <1>6, <1>8, <1>9, <1>11 DEF SameFunds, Outs
<1>13. ASSUME Spread(Purse(staged.cache)) PROVE Flowing'
  <2>1. PICK to : \E place \in Nat \X Nat : Comes(t, f, o, to, place)
    BY <1>7
  <2>2. PICK place \in Nat \X Nat : Comes(t, f, o, to, place)
    BY <2>1
  <2>3. /\ Purses(staged'.cache) = Purses(staged.cache) /\ Spread(Purse(staged'.cache))
        /\ Sunk(staged'.cache) = Sunk(staged.cache) /\ Purse(tx'.outs) = Purse(t.outs)
    BY <1>5, <1>13, <2>2, ComesSats
  <2>4. Purse(Outs') = Purse(Outs) /\ Purses(Outs') = Purses(Outs)
    BY <1>4, <1>12, <2>3 DEF Purses
  <2>. QED BY <1>12, <2>3, <2>4, KeptFlowing
<1>14. past.clean => Spread(Purse(staged.cache))
  BY DEF Flowing, SatsApart
<1>15. ~past.clean => Flowing'
  BY <1>1 DEF Flowing
<1>. QED BY <1>13, <1>14, <1>15

-----------------------------------------------------------------------------
(* Spending                                                                  *)

\* What Spend does to the sats.
LEMMA SpendSats ==
  ASSUME Frame, Frame', Spend
  PROVE  LET inSats == tx'.inSats
             left == SubSeq(inSats, ValueOf(T.outs, Len(T.outs)) + 1, Len(inSats))
         IN /\ IsSeq(inSats) /\ ValueOf(T.outs, Len(T.outs)) <= Len(inSats)
            /\ tx'.outs = Outputs(inSats) /\ tab'.stats = tab.stats
            /\ Coinbase => inSats = run.fees /\ run'.lost = run.lost \o left
            /\ ~Coinbase => /\ inSats = SatsOf(tx'.ins, Len(tx'.ins))
                            /\ run'.lost = run.lost /\ run'.fees = run.fees \o left
<1>. DEFINE cache == staged.cache
            spent == IF Coinbase THEN {} ELSE ToSet(T.ins)
            stored == spent \ DOMAIN cache
            entry(o) == IF o \in DOMAIN cache THEN cache[o] ELSE tab.utxo[o]
            ins == IF Coinbase THEN << >> ELSE [i \in DOMAIN T.ins |-> entry(T.ins[i])]
            inSats == IF Coinbase THEN run.fees ELSE SatsOf(ins, Len(ins))
            outs == Outputs(inSats)
            rare == RareOnOutputs(outs)
            V == ValueOf(T.outs, Len(T.outs))
            left == SubSeq(inSats, V + 1, Len(inSats))
            f == run.fees \o left
            l == run.lost \o left
            utxo == Drop(tab.utxo, stored)
            satPoints == PutAll(tab.satPoints, rare)
<1>1. /\ run # Absent /\ tx = Absent /\ run.tx <= Len(Txs) /\ saved.tx = Absent
      /\ V <= Len(inSats)
      /\ tab' = [tab EXCEPT !.utxo = utxo, !.satPoints = satPoints]
      /\ run' = IF Coinbase THEN [run EXCEPT !.lost = l] ELSE [run EXCEPT !.fees = f]
      /\ tx' = Fresh(ins, outs, inSats)
  BY DEF Spend
<1>2. RunOK(run) /\ TabOK(tab)
  BY <1>1, BeforeTxFacts
<1>3. inSats = IF Coinbase THEN run.fees ELSE SatsOf(ins, Len(ins))
  OBVIOUS
<1>. HIDE DEF ins, inSats, left, f, l, utxo, satPoints, outs
<1>4. /\ tx'.ins = ins /\ tx'.outs = outs /\ tx'.inSats = inSats /\ "phase" \in DOMAIN tx'
  BY <1>1 DEF Fresh
<1>5. tx' # Absent
  BY <1>4, HasFields
<1>6. IsSeq(inSats)
  BY <1>4, <1>5 DEF Frame, Types, TxOK, WorkOK
<1>7. tab'.stats = tab.stats
  BY <1>1, <1>2 DEF TabOK, TabShape
<1>8. /\ Coinbase => run'.lost = l
      /\ ~Coinbase => run'.lost = run.lost /\ run'.fees = f
  BY <1>1, <1>2 DEF RunOK, RunShape
<1>. QED BY <1>1, <1>3, <1>4, <1>6, <1>7, <1>8 DEF f, l, left, outs

\* The sats of what was taken are those of the inputs.
LEMMA TakenSats ==
  ASSUME Frame, Frame', Spend, ~Coinbase, Spread(Purse(Taken))
  PROVE  /\ Coins(tx'.inSats) = Purses(Taken) /\ Single(Coin(tx'.inSats))
<1>1. /\ run # Absent /\ tx = Absent /\ saved.tx = Absent /\ run.tx <= Len(Txs) /\ tx' # Absent
      /\ tx'.ins = [i \in DOMAIN T.ins |-> Taken[T.ins[i]]]
  BY SpendFields
<1>2. block # None /\ run.tx \in 1..Len(Txs)
  BY <1>1, BeforeTxFacts
<1>3. \A i, j \in DOMAIN T.ins : T.ins[i] = T.ins[j] => i = j
  BY <1>2, InputsHere
<1>4. DOMAIN Taken = {T.ins[i] : i \in DOMAIN T.ins}
  BY DEF Taken, SpentHere, ToSet
<1>5. IsSeq(tx'.ins) /\ \A i \in DOMAIN tx'.ins : IsSeq(tx'.ins[i].sats)
  <2>1. TxOK(tx')
    BY <1>1 DEF Frame, Types
  <2>. QED BY <2>1 DEF TxOK, WorkOK, EntryOK
<1>. DEFINE r == Purse(tx'.ins)
            m == Purse(Taken)
            g == T.ins
<1>6. /\ DOMAIN r = DOMAIN g /\ DOMAIN m = {g[i] : i \in DOMAIN g}
      /\ \A i \in DOMAIN g : g[i] \in DOMAIN m /\ r[i] = m[g[i]]
  <2>1. /\ DOMAIN r = DOMAIN tx'.ins /\ \A i \in DOMAIN tx'.ins : r[i] = Coin(tx'.ins[i].sats)
        /\ DOMAIN m = DOMAIN Taken /\ \A o \in DOMAIN Taken : m[o] = Coin(Taken[o].sats)
    BY PurseIs
  <2>. HIDE DEF r, m
  <2>2. DOMAIN tx'.ins = DOMAIN g /\ \A i \in DOMAIN g : tx'.ins[i] = Taken[g[i]]
    BY <1>1
  <2>3. \A i \in DOMAIN g : g[i] \in DOMAIN Taken
    BY <1>4
  <2>. HIDE DEF g
  <2>4. DOMAIN m = {g[i] : i \in DOMAIN g}
    BY <1>4, <2>1 DEF g
  <2>5. \A i \in DOMAIN g : r[i] = m[g[i]]
    BY <2>1, <2>2, <2>3
  <2>. QED BY <2>1, <2>2, <2>3, <2>4, <2>5
<1>7. AllOn(r) = AllOn(m) /\ (Spread(m) => Spread(r))
  <2>. HIDE DEF r, m, g
  <2>1. \A i, j \in DOMAIN r : g[i] = g[j] => i = j
    BY <1>3, <1>6 DEF g
  <2>. QED BY <1>6, <2>1, AllOnRenamed
<1>8. LET s == SatsOf(tx'.ins, Len(tx'.ins))
      IN Coins(s) = Purses(tx'.ins) /\ Single(Coin(s)) /\ IsSeq(s)
  BY <1>5, <1>7, JoinCoins
<1>9. tx'.inSats = SatsOf(tx'.ins, Len(tx'.ins))
  BY SpendSats
<1>. QED BY <1>7, <1>8, <1>9 DEF Purses

LEMMA SpendFlowing == ASSUME Frame, Frame', Flowing, Spend PROVE Flowing'
<1>1. /\ run # Absent /\ tx = Absent /\ saved.tx = Absent /\ run.tx <= Len(Txs)
      /\ UNCHANGED <<chain, records, block, cursor, saved, past>>
      /\ \A o \in SpentHere : o \in DOMAIN staged.cache \/ o \in DOMAIN tab.utxo
      /\ tab'.utxo = Drop(tab.utxo, SpentHere \ DOMAIN staged.cache)
      /\ staged'.cache = Drop(staged.cache, SpentHere) /\ staged'.state = staged.state
      /\ run' # Absent /\ run'.tx = run.tx /\ tx' # Absent
  BY SpendFields
<1>2. /\ RunOK(run) /\ Indexing /\ At = run /\ Accounts = run /\ block # None /\ ~InTx
      /\ run.tx \in 1..Len(Txs) /\ ContentOK(T)
  BY <1>1, BeforeTxFacts
<1>. DEFINE inSats == tx'.inSats
            left == SubSeq(inSats, ValueOf(T.outs, Len(T.outs)) + 1, Len(inSats))
<1>3. /\ IsSeq(inSats) /\ ValueOf(T.outs, Len(T.outs)) <= Len(inSats)
      /\ tx'.outs = Outputs(inSats) /\ tab'.stats = tab.stats
      /\ Coinbase => inSats = run.fees /\ run'.lost = run.lost \o left
      /\ ~Coinbase => run'.lost = run.lost /\ run'.fees = run.fees \o left
  BY SpendSats
<1>. HIDE DEF inSats
<1>4. Owed = run.fees /\ Left = run.lost /\ Outs = << >>
  <2>. HIDE DEF Indexing, InTx, At, Accounts
  <2>. QED BY <1>1, <1>2 DEF Owed, Left, Outs
<1>5. /\ Txs' = Txs /\ Indexing' /\ At' = run' /\ Work' = tx' /\ Accounts' = run' /\ InTx'
      /\ (IsLast' <=> Coinbase) /\ Begun' = Begun
  BY <1>1, <1>2 DEF Txs, InOrder, Indexing, At, Work, IsLast, Coinbase, Accounts, InTx, Begun
<1>6. /\ Owed' = IF Coinbase THEN << >> ELSE run'.fees
      /\ Left' = run'.lost /\ Outs' = tx'.outs
  <2>. HIDE DEF Indexing, InTx, At, Accounts, Work, IsLast, Coinbase
  <2>. QED BY <1>1, <1>2, <1>5 DEF Owed, Left, Outs
<1>7. SUFFICES ASSUME past.clean
               PROVE  (/\ \A h \in DOMAIN past.tab : SatsWhole(past.tab[h], h)
                       /\ SatsApart /\ SatsHeld /\ LostCounted)'
  BY <1>1 DEF Flowing
<1>8. (\A h \in DOMAIN past.tab : SatsWhole(past.tab[h], h)) /\ SatsApart /\ SatsHeld /\ LostCounted
  BY <1>7 DEF Flowing
<1>9. (\A h \in DOMAIN past.tab : SatsWhole(past.tab[h], h))'
  BY <1>1, <1>8 DEF SatsWhole
<1>. DEFINE U == Purses(tab.utxo)
            C == Purses(staged.cache)
            F == Coins(run.fees)
            L == Coins(run.lost)
            U1 == Purses(tab'.utxo)
            C1 == Purses(staged'.cache)
            G == Purses(Taken)
            O1 == Purses(tx'.outs)
            K == Coins(left)
<1>10. /\ Spread(Purse(tab.utxo)) /\ Spread(Purse(staged.cache))
       /\ Single(Coin(run.fees)) /\ Single(Coin(run.lost))
       /\ Separate(U, C, {}, {}, F, L, {})
       /\ U \cup C \cup {} \cup F \cup L = Minted(Begun)
  BY <1>4, <1>8, PurseNothing DEF SatsApart, SatsHeld
<1>11. /\ Spread(Purse(Taken)) /\ Spread(Purse(tab'.utxo)) /\ Spread(Purse(staged'.cache))
       /\ \A k \in U1 : k \notin C1 /\ k \notin G
       /\ \A k \in C1 : k \notin G
       /\ \A k : k \in U1 \/ k \in C1 \/ k \in G <=> k \in U \/ k \in C
  <2>. DEFINE m == Purse(tab.utxo)
              c == Purse(staged.cache)
              S == SpentHere
              g == Purse(Taken)
  <2>1. /\ Spread(m) /\ Spread(c) /\ \A k \in AllOn(m) : k \notin AllOn(c)
    BY <1>10 DEF Separate, Purses
  <2>2. /\ DOMAIN m = DOMAIN tab.utxo /\ DOMAIN c = DOMAIN staged.cache
        /\ \A o \in DOMAIN tab.utxo : m[o] = Coin(tab.utxo[o].sats)
        /\ \A o \in DOMAIN staged.cache : c[o] = Coin(staged.cache[o].sats)
        /\ DOMAIN g = DOMAIN Taken /\ \A o \in DOMAIN Taken : g[o] = Coin(Taken[o].sats)
    BY PurseIs
  <2>3. Purse(tab'.utxo) = Drop(m, S \ DOMAIN c) /\ Purse(staged'.cache) = Drop(c, S)
    BY <1>1, <2>2, PurseDrop
  <2>4. DOMAIN Taken = S /\ \A o \in S : Taken[o] = IF o \in DOMAIN staged.cache THEN staged.cache[o] ELSE tab.utxo[o]
    BY DEF Taken
  <2>5. \A o \in S : o \in DOMAIN c \/ o \in DOMAIN m
    BY <1>1, <2>2
  <2>. HIDE DEF m, c, S, g
  <2>6. DOMAIN g = S /\ \A o \in S : g[o] = IF o \in DOMAIN c THEN c[o] ELSE m[o]
    BY <2>2, <2>4, <2>5
  <2>7. /\ Spread(g) /\ Spread(Purse(tab'.utxo)) /\ Spread(Purse(staged'.cache))
        /\ \A k \in AllOn(Purse(tab'.utxo)) : k \notin AllOn(Purse(staged'.cache)) /\ k \notin AllOn(g)
        /\ \A k \in AllOn(Purse(staged'.cache)) : k \notin AllOn(g)
        /\ \A k : k \in AllOn(Purse(tab'.utxo)) \/ k \in AllOn(Purse(staged'.cache)) \/ k \in AllOn(g)
                  <=> k \in AllOn(m) \/ k \in AllOn(c)
    BY <2>1, <2>3, <2>5, <2>6, SplitPlaces
  <2>. QED BY <2>7 DEF m, c, g, Purses
<1>12. /\ Single(Coin(inSats))
       /\ Coins(inSats) = IF Coinbase THEN F ELSE G
       /\ Coinbase => G = {}
  <2>1. CASE Coinbase
    <3>1. SpentHere = {}
      BY <2>1 DEF SpentHere
    <3>2. DOMAIN Taken = {}
      BY <3>1 DEF Taken
    <3>3. \A x : x \notin G
      BY <3>2, PursesAre
    <3>. HIDE DEF G
    <3>. QED BY <1>3, <1>10, <2>1, <3>3
  <2>2. CASE ~Coinbase
    BY <1>11, <2>2, TakenSats DEF inSats
  <2>. QED BY <2>1, <2>2
<1>13. /\ Spread(Purse(tx'.outs)) /\ Single(Coin(left)) /\ IsSeq(left)
       /\ \A k \in O1 : k \notin K
       /\ \A k : k \in O1 \/ k \in K <=> k \in Coins(inSats)
  BY <1>2, <1>3, <1>12, OutCoins
<1>14. IsSeq(run.fees) /\ IsSeq(run.lost)
  BY <1>2 DEF RunOK, AccountsOK
<1>. HIDE DEF left
<1>15. /\ Coinbase => Coins(run'.lost) = L \cup K /\ Single(Coin(run'.lost))
       /\ ~Coinbase => Coins(run'.fees) = F \cup K /\ Single(Coin(run'.fees))
  <2>1. ASSUME NEW s, IsSeq(s), Single(Coin(s)), \A k \in Coins(s) : k \notin K
        PROVE  Coins(s \o left) = Coins(s) \cup K /\ Single(Coin(s \o left))
    BY <1>13, <2>1, ConcatSeq, CoinsConcat
  <2>2. Coinbase => \A k \in L : k \notin K
    BY <1>10, <1>12, <1>13 DEF Separate
  <2>3. ~Coinbase => \A k \in F : k \notin K
    <3>. HIDE DEF U, C, F, L, U1, C1, G, O1, K
    <3>. QED BY <1>10, <1>11, <1>12, <1>13 DEF Separate
  <2>. QED BY <1>3, <1>10, <1>14, <2>1, <2>2, <2>3
<1>. DEFINE F1 == Coins(Owed')
            L1 == Coins(Left')
<1>16. /\ F1 = IF Coinbase THEN {} ELSE F \cup K
       /\ L1 = IF Coinbase THEN L \cup K ELSE L
       /\ Single(Coin(Owed')) /\ Single(Coin(Left'))
  BY <1>3, <1>6, <1>10, <1>15, CoinNothing
<1>17. Separate(U1, C1, O1, {}, F1, L1, {}) /\ U1 \cup C1 \cup O1 \cup F1 \cup L1 = U \cup C \cup {} \cup F \cup L
  <2>. HIDE DEF U, C, F, L, U1, C1, G, O1, K, F1, L1
  <2>1. CASE Coinbase
    <3>1. F1 = {} /\ L1 = L \cup K /\ \A k : k \in O1 \/ k \in K <=> k \in F
      BY <1>12, <1>13, <1>16, <2>1
    <3>2. \A k : k \in U1 \/ k \in C1 <=> k \in U \/ k \in C
      BY <1>11, <1>12, <2>1
    <3>3. U1 \cup C1 \cup O1 \cup F1 \cup L1 = U \cup C \cup {} \cup F \cup L
      BY <3>1, <3>2
    <3>. QED BY <1>10, <1>11, <1>13, <3>1, <3>2, <3>3 DEF Separate
  <2>2. CASE ~Coinbase
    <3>1. F1 = F \cup K /\ L1 = L /\ \A k : k \in O1 \/ k \in K <=> k \in G
      BY <1>12, <1>13, <1>16, <2>2
    <3>2. U1 \cup C1 \cup O1 \cup F1 \cup L1 = U \cup C \cup {} \cup F \cup L
      BY <1>11, <3>1
    <3>. QED BY <1>10, <1>11, <1>13, <3>1, <3>2 DEF Separate
  <2>. QED BY <2>1, <2>2
<1>18. SatsApart'
  BY <1>6, <1>11, <1>13, <1>16, <1>17 DEF SatsApart
<1>19. SatsHeld'
  <2>. HIDE DEF Begun
  <2>. QED BY <1>5, <1>6, <1>10, <1>17 DEF SatsHeld, Minted
<1>20. LostCounted'
  <2>1. Null \notin SpentHere
    BY <1>2, InputsHere DEF SpentHere, ToSet, Special
  <2>. DEFINE S == SpentHere \ DOMAIN staged.cache
  <2>2. Null \notin S /\ tab'.utxo = Drop(tab.utxo, S)
    BY <1>1, <2>1
  <2>. HIDE DEF S
  <2>3. Sunk(tab'.utxo) = Sunk(tab.utxo) /\ Sunk(staged'.cache) = Sunk(staged.cache)
    BY <1>1, <2>1, <2>2, SunkDrop
  <2>. QED BY <1>2, <1>3, <1>8, <2>3 DEF LostCounted
<1>. QED BY <1>9, <1>18, <1>19, <1>20
-----------------------------------------------------------------------------
(* The end of a transaction and of a block                                   *)
LEMMA FinishTransactionAccounts ==
  ASSUME Frame, FinishTransaction
  PROVE  run'.fees = run.fees /\ run'.lost = run.lost
<1>. DEFINE stats == [run.stats EXCEPT !.lost = @ + run.reward - tx.outValue]
            fl == run.flotsam \o [i \in DOMAIN tx.queue |->
                    [tx.queue[i] EXCEPT !.offset = run.reward + @ - tx.outValue]]
            reward == run.reward + tx.inValue - tx.outValue
            r == [run EXCEPT !.tx = @ + 1]
<1>1. /\ tx # Absent
      /\ run' = IF Coinbase
                THEN [r EXCEPT !.stats.lost = @ + run.reward - tx.outValue]
                ELSE [r EXCEPT !.flotsam = @ \o [i \in DOMAIN tx.queue |->
                                 [tx.queue[i] EXCEPT !.offset = run.reward + @ - tx.outValue]],
                               !.reward = @ + tx.inValue - tx.outValue]
  BY DEF FinishTransaction
<1>2. RunShape(run)
  BY <1>1, InTxFacts DEF RunOK
<1>3. /\ RunShape(r) /\ r.flotsam = run.flotsam /\ r.stats = run.stats /\ r.reward = run.reward
      /\ r.fees = run.fees /\ r.lost = run.lost
  BY <1>2 DEF RunShape
<1>. HIDE DEF r
<1>4. run' = IF Coinbase THEN [r EXCEPT !.stats = stats] ELSE [r EXCEPT !.flotsam = fl, !.reward = reward]
  <2>1. CASE Coinbase
    <3>1. run' = [r EXCEPT !.stats.lost = @ + run.reward - tx.outValue]
      BY <1>1, <2>1
    <3>. QED BY <1>3, <2>1, <3>1 DEF RunShape
  <2>2. CASE ~Coinbase
    BY <1>1, <1>3, <2>2
  <2>. QED BY <2>1, <2>2
<1>. HIDE DEF stats, fl, reward
<1>. QED BY <1>3, <1>4 DEF RunShape

\* The outputs hold the same sats under their outpoints.
LEMMA OutsPurse ==
  ASSUME Frame, tx # Absent, DOMAIN tx.outs = 1..Len(T.outs), Spread(Purse(tx.outs))
  PROVE  Purses(OutsHere) = Purses(tx.outs) /\ Spread(Purse(OutsHere))
<1>. DEFINE m == Purse(tx.outs)
            r == Purse(OutsHere)
            id == T.id
            g == [o \in DOMAIN r |-> o[2]]
<1>1. /\ DOMAIN OutsHere = {<<id, v>> : v \in DOMAIN tx.outs}
      /\ \A o \in DOMAIN OutsHere : OutsHere[o] = tx.outs[o[2]]
  BY DEF OutsHere
<1>2. /\ DOMAIN r = DOMAIN OutsHere /\ \A o \in DOMAIN OutsHere : r[o] = Coin(OutsHere[o].sats)
      /\ DOMAIN m = DOMAIN tx.outs /\ \A v \in DOMAIN tx.outs : m[v] = Coin(tx.outs[v].sats)
  BY PurseIs
<1>. HIDE DEF m, r, id
<1>3. \A o \in DOMAIN r : \E v \in DOMAIN m : o = <<id, v>> /\ g[o] = v
  BY <1>1, <1>2
<1>4. \A o \in DOMAIN r : g[o] \in DOMAIN m /\ r[o] = m[g[o]]
  <2>1. ASSUME NEW o \in DOMAIN r PROVE g[o] \in DOMAIN m /\ r[o] = m[g[o]]
    <3>1. g[o] \in DOMAIN m /\ o[2] = g[o]
      BY <1>3
    <3>2. r[o] = Coin(tx.outs[o[2]].sats)
      BY <1>1, <1>2
    <3>3. m[g[o]] = Coin(tx.outs[g[o]].sats)
      BY <1>2, <3>1
    <3>. QED BY <3>1, <3>2, <3>3
  <2>. QED BY <2>1
<1>5. \A o, p \in DOMAIN r : g[o] = g[p] => o = p
  BY <1>3
<1>6. \A x \in DOMAIN m : \E o \in DOMAIN r : g[o] = x
  <2>1. ASSUME NEW x \in DOMAIN m PROVE \E o \in DOMAIN r : g[o] = x
    <3>1. <<id, x>> \in DOMAIN r /\ <<id, x>>[2] = x
      BY <1>1, <1>2
    <3>. QED BY <3>1
  <2>. QED BY <2>1
<1>. HIDE DEF g
<1>7. \A o \in DOMAIN r : g[o] \in DOMAIN m /\ On(r[o]) = On(m[g[o]]) /\ (Single(m[g[o]]) => Single(r[o]))
  BY <1>4
<1>8. AllOn(r) = AllOn(m) /\ (Spread(m) => Spread(r))
  BY <1>5, <1>6, <1>7, AllOnRenamed
<1>. QED BY <1>8 DEF m, r, Purses

LEMMA FinishTransactionFlowing ==
  ASSUME Frame, Frame', Sited, Flowing, FinishTransaction PROVE Flowing'
<1>1. /\ run # Absent /\ tx # Absent /\ tx.phase = "rest"
      /\ UNCHANGED <<chain, tab, records, block, cursor, past>>
      /\ staged'.cache = PutAll(staged.cache, OutsHere) /\ staged'.state = staged.state
      /\ saved'.tx = Absent /\ tx' = Absent
      /\ run' # Absent /\ run'.tx = run.tx + 1
  BY FinishTransactionFields
<1>2. /\ Indexing /\ At = run /\ Work = tx /\ Accounts = run /\ block # None /\ InTx
      /\ run.tx \in 1..Len(Txs) /\ Len(Txs) \in Nat /\ This = T /\ TxOK(tx) /\ (IsLast <=> Coinbase)
  BY <1>1, InTxFacts
<1>3. run'.fees = run.fees /\ run'.lost = run.lost
  BY FinishTransactionAccounts
<1>4. ~InTx' /\ Indexing' /\ At' = run' /\ Accounts' = run' /\ Txs' = Txs /\ Begun' = Begun
  BY <1>1, <1>2 DEF InTx, Indexing, At, Accounts, Txs, InOrder, Begun
<1>5. Coinbase <=> ~(run'.tx <= Len(Txs))
  BY <1>1, <1>2 DEF Coinbase
<1>6. Owed = (IF Coinbase THEN << >> ELSE run.fees) /\ Left = run.lost /\ Outs = tx.outs
  <2>. HIDE DEF Indexing, InTx, At, Accounts, Work, IsLast, Coinbase
  <2>1. run.tx <= Len(Txs)
    BY <1>2
  <2>. QED BY <1>1, <1>2, <2>1 DEF Owed, Left, Outs
<1>7. Owed' = Owed /\ Left' = Left /\ Outs' = << >>
  <2>. HIDE DEF Indexing, InTx, At, Accounts, Work, IsLast, Coinbase
  <2>. QED BY <1>1, <1>3, <1>4, <1>5, <1>6 DEF Owed, Left, Outs
<1>8. SUFFICES ASSUME past.clean
               PROVE  (/\ \A h \in DOMAIN past.tab : SatsWhole(past.tab[h], h)
                       /\ SatsApart /\ SatsHeld /\ LostCounted)'
  BY <1>1 DEF Flowing
<1>9. (\A h \in DOMAIN past.tab : SatsWhole(past.tab[h], h)) /\ SatsApart /\ SatsHeld /\ LostCounted
  BY <1>8 DEF Flowing
<1>10. (\A h \in DOMAIN past.tab : SatsWhole(past.tab[h], h))'
  BY <1>1, <1>9 DEF SatsWhole
<1>. DEFINE U == Purses(tab.utxo)
            C == Purses(staged.cache)
            O == Purses(tx.outs)
            F == Coins(Owed)
            L == Coins(Left)
            C1 == Purses(staged'.cache)
<1>11. /\ Spread(Purse(tab.utxo)) /\ Spread(Purse(staged.cache)) /\ Spread(Purse(tx.outs))
       /\ Single(Coin(Owed)) /\ Single(Coin(Left))
       /\ Separate(U, C, O, {}, F, L, {})
       /\ U \cup C \cup O \cup F \cup L = Minted(Begun)
  BY <1>6, <1>9 DEF SatsApart, SatsHeld
<1>12. DOMAIN tx.outs = 1..Len(T.outs)
  BY <1>2 DEF Sited, Positions
<1>13. /\ \A o \in DOMAIN OutsHere : o[1] = T.id /\ o \notin Special
       /\ \A o \in DOMAIN staged.cache : o \notin DOMAIN OutsHere
  <2>1. Held
    BY <1>8 DEF Sited
  <2>2. OutsFrom(staged.cache, Spent(run.tx))
    BY <1>2, <2>1 DEF Held, FromDone
  <2>3. T.id \notin Spent(run.tx)
    BY <1>1, ThisIdNew
  <2>4. Spread(tx.outs)
    <3>1. Spread(Outs)
      BY <2>1 DEF Held, Placed, EachApart
    <3>. QED BY <1>6, <3>1
  <2>5. \A o \in DOMAIN OutsHere : o[1] = T.id /\ o \notin Special
    BY <1>1, <1>12, <2>4, OutsCached
  <2>. QED BY <2>2, <2>3, <2>5 DEF OutsFrom
<1>14. C1 = C \cup O /\ Spread(Purse(staged'.cache))
  <2>. DEFINE m == Purse(staged.cache)
              g == Purse(OutsHere)
  <2>1. Purses(OutsHere) = O /\ Spread(Purse(OutsHere))
    BY <1>1, <1>11, <1>12, OutsPurse
  <2>2. DOMAIN m = DOMAIN staged.cache /\ DOMAIN g = DOMAIN OutsHere
    BY PurseIs
  <2>3. Spread(m) /\ Spread(g) /\ AllOn(g) = O /\ AllOn(m) = C
    BY <1>11, <2>1 DEF Purses
  <2>4. Purse(staged'.cache) = PutAll(m, g)
    BY <1>1, PursePutAll
  <2>5. \A o \in DOMAIN m : o \notin DOMAIN g
    BY <1>13, <2>2
  <2>6. \A k \in AllOn(m) : k \notin AllOn(g)
    <3>. HIDE DEF m, g, C, O
    <3>. QED BY <1>11, <2>3 DEF Separate
  <2>. HIDE DEF m, g
  <2>7. AllOn(PutAll(m, g)) = AllOn(m) \cup AllOn(g) /\ Spread(PutAll(m, g))
    BY <2>3, <2>5, <2>6, AllOnPutAll
  <2>8. C1 = AllOn(Purse(staged'.cache))
    BY DEF Purses
  <2>. HIDE DEF C, O, C1
  <2>. QED BY <2>3, <2>4, <2>7, <2>8
<1>. HIDE DEF U, C, O, F, L, C1
<1>15. Separate(U, C1, {}, {}, F, L, {})
  BY <1>11, <1>14 DEF Separate
<1>16. U \cup C1 \cup {} \cup F \cup L = Minted(Begun)
  BY <1>11, <1>14
<1>17. SatsApart'
  <2>1. Spread(Purse(Outs')) /\ Purses(Outs') = {}
    BY <1>7, PurseNothing
  <2>. HIDE DEF Outs, Owed, Left
  <2>. QED BY <1>1, <1>7, <1>11, <1>14, <1>15, <2>1 DEF SatsApart, U, C1, F, L
<1>18. SatsHeld'
  <2>1. Purses(Outs') = {}
    BY <1>7, PurseNothing
  <2>. HIDE DEF Outs, Owed, Left, Begun
  <2>. QED BY <1>1, <1>4, <1>7, <1>16, <2>1 DEF SatsHeld, Minted, U, C1, F, L
<1>19. LostCounted'
  <2>1. Null \notin DOMAIN OutsHere
    BY <1>13 DEF Special
  <2>2. Sunk(staged'.cache) = Sunk(staged.cache)
    BY <1>1, <2>1, SunkPutAll
  <2>. HIDE DEF Indexing
  <2>. QED BY <1>1, <1>2, <1>9, <2>2 DEF LostCounted
<1>. QED BY <1>10, <1>17, <1>18, <1>19

\* More sats come behind those that an outpoint has.
LEMMA PurseAdded ==
  ASSUME NEW m, EntriesOK(m), Spread(Purse(m)), NEW o, NEW s, IsSeq(s), Single(Coin(s)),
         \A k \in Coins(s) : k \notin Purses(m),
         NEW e, IsConcat(e.sats, Cached(m, o).sats, s)
  PROVE  /\ Purses(Put(m, o, e)) = Purses(m) \cup Coins(s) /\ Spread(Purse(Put(m, o, e)))
         /\ Len(Sunk(Put(m, o, e))) = IF o = Null THEN Len(Sunk(m)) + Len(s) ELSE Len(Sunk(m))
<1>. DEFINE a == Cached(m, o).sats
            K == Coins(s)
            p == Purse(m)
            c == Coin(e.sats)
<1>1. IsSeq(a) /\ EntryOK(Cached(m, o))
  BY CachedOK DEF EntryOK
<1>2. DOMAIN p = DOMAIN m /\ \A x \in DOMAIN m : p[x] = Coin(m[x].sats)
  BY PurseIs
<1>3. Single(Coin(a)) /\ \A k \in Coins(a) : k \notin K
  <2>1. CASE o \in DOMAIN m
    <3>1. a = m[o].sats
      BY <2>1 DEF Cached
    <3>2. Single(Coin(m[o].sats)) /\ \A k \in Coins(m[o].sats) : k \in Purses(m)
      BY <2>1, PursesAre
    <3>. HIDE DEF a, K, p, c
    <3>. QED BY <3>1, <3>2 DEF K
  <2>2. CASE o \notin DOMAIN m
    <3>1. a = << >>
      BY <2>2 DEF Cached, NoEntry
    <3>. QED BY <3>1, CoinNothing
  <2>. QED BY <2>1, <2>2
<1>4. Coins(e.sats) = Coins(a) \cup K /\ Single(Coin(e.sats))
  BY <1>1, <1>3, CoinsConcat
<1>5. Single(c) /\ IF o \in DOMAIN p THEN On(c) = On(p[o]) \cup K ELSE On(c) = K
  <2>1. CASE o \in DOMAIN m
    <3>1. a = m[o].sats
      BY <2>1 DEF Cached
    <3>2. p[o] = Coin(a)
      BY <1>2, <2>1, <3>1
    <3>3. On(c) = On(p[o]) \cup K
      BY <1>4, <3>2 DEF Coins
    <3>. QED BY <1>2, <1>4, <2>1, <3>3
  <2>2. CASE o \notin DOMAIN m
    <3>1. a = << >>
      BY <2>2 DEF Cached, NoEntry
    <3>2. Coins(a) = {}
      BY <3>1, CoinNothing
    <3>3. On(c) = K
      <4>1. On(c) = Coins(e.sats)
        BY DEF Coins
      <4>. HIDE DEF c, K, a
      <4>. QED BY <1>4, <3>2, <4>1
    <3>. QED BY <1>2, <1>4, <2>2, <3>3
  <2>. QED BY <2>1, <2>2
<1>6. Spread(p) /\ (\A k \in K : k \notin AllOn(p)) /\ Purse(Put(m, o, e)) = Put(p, o, c)
  BY PursePut DEF Purses
<1>. HIDE DEF p, c, K
<1>7. AllOn(Put(p, o, c)) = AllOn(p) \cup K /\ Spread(Put(p, o, c))
  BY <1>5, <1>6, AllOnPut
<1>8. Purses(Put(m, o, e)) = Purses(m) \cup K
  BY <1>6, <1>7 DEF Purses, p
<1>9. Len(Sunk(Put(m, o, e))) = IF o = Null THEN Len(Sunk(m)) + Len(s) ELSE Len(Sunk(m))
  <2>1. o = Null => Sunk(m) = a
    BY DEF Sunk
  <2>2. Len(e.sats) = Len(a) + Len(s)
    BY DEF IsConcat
  <2>. HIDE DEF a
  <2>. QED BY <2>1, <2>2, SunkPut
<1>. QED BY <1>6, <1>7, <1>8, <1>9 DEF K

LEMMA SunkSeq == ASSUME NEW m, EntriesOK(m) PROVE IsSeq(Sunk(m)) /\ Len(Sunk(m)) \in Nat
BY CachedOK, SeqFacts DEF Sunk, EntryOK

LEMMA FinishBlockStats ==
  ASSUME Frame, FinishBlock
  PROVE  tab'.stats.lost = tab.stats.lost + Len(run.lost)
<1>. DEFINE rare == RareOn(Null, run.lost, tab.stats.lost)
            last == Put(tab.last, H, run.next)
            satPoints == PutAll(tab.satPoints, rare)
            lost == tab.stats.lost + Len(run.lost)
            stats == [run.stats EXCEPT !.lost = lost]
<1>1. TabShape(tab) /\ StatsOK(run.stats)
      /\ tab' = [tab EXCEPT !.last = last, !.satPoints = satPoints, !.stats = stats]
  BY DEF FinishBlock, Frame, Types, TabOK, RunOK
<1>2. tab'.stats = stats
  <2>. HIDE DEF rare, last, satPoints, stats
  <2>. QED BY <1>1 DEF TabShape
<1>3. stats.lost = lost
  <2>. HIDE DEF lost
  <2>. QED BY <1>1 DEF StatsOK
<1>. QED BY <1>2, <1>3

LEMMA FinishBlockFlowing == ASSUME Frame, Flowing, FinishBlock PROVE Flowing'
<1>. DEFINE lost == run.lost
            null == Merged(Cached(staged.cache, Null), [sats |-> lost, ins |-> << >>])
<1>1. /\ run # Absent /\ tx = Absent /\ run.tx > Len(Txs) /\ RunOK(run)
      /\ UNCHANGED <<chain, block, past, records>> /\ TabOK(tab) /\ StagedOK(staged)
      /\ tab'.utxo = tab.utxo /\ staged'.state = "Commit"
      /\ staged'.cache = IF lost = << >> THEN staged.cache ELSE Put(staged.cache, Null, null)
  BY FinishBlockFields
<1>2. saved.tx = Absent /\ Indexing /\ At = run /\ Accounts = run /\ block # None /\ run' = Absent
      /\ run.tx \in Nat /\ Len(Txs) \in Nat
  <2>1. Indexing
    BY <1>1 DEF Frame, Control
  <2>2. At = run /\ Accounts = run /\ block # None
    BY <1>1, <2>1 DEF At, Accounts, Indexing
  <2>3. run.tx \in Nat /\ Len(Txs) \in Nat
    BY <1>1, <2>2, TxsFacts DEF Frame, RunOK
  <2>4. ~InTx
    <3>1. InTx => At.tx <= Len(Txs)
      BY DEF Frame, Control
    <3>. HIDE DEF InTx, At
    <3>. QED BY <1>1, <2>2, <2>3, <3>1
  <2>. QED BY <2>1, <2>2, <2>3, <2>4 DEF InTx, FinishBlock
<1>3. Owed = << >> /\ Left = lost /\ Outs = << >>
  <2>1. ~InTx
    BY <1>1, <1>2 DEF InTx
  <2>. HIDE DEF Indexing, InTx, At, Accounts
  <2>. QED BY <1>1, <1>2, <2>1 DEF Owed, Left, Outs
<1>4. ~Indexing' /\ tx' = Absent /\ saved'.tx = Absent /\ Begun' = Begun
  <2>1. SavedShape(saved) /\ saved' = [saved EXCEPT !.block = Absent] /\ tx' = tx
    BY DEF Frame, Types, SavedOK, FinishBlock
  <2>2. saved'.tx = saved.tx
    BY <2>1 DEF SavedShape
  <2>. QED BY <1>1, <1>2, <2>1, <2>2 DEF Indexing, Begun
<1>5. Owed' = << >> /\ Left' = << >> /\ Outs' = << >>
  <2>1. ~InTx'
    BY <1>4 DEF InTx
  <2>. HIDE DEF Indexing, InTx
  <2>. QED BY <1>4, <2>1 DEF Owed, Left, Outs
<1>6. SUFFICES ASSUME past.clean
               PROVE  (/\ \A h \in DOMAIN past.tab : SatsWhole(past.tab[h], h)
                       /\ SatsApart /\ SatsHeld /\ LostCounted)'
  BY <1>1 DEF Flowing
<1>7. (\A h \in DOMAIN past.tab : SatsWhole(past.tab[h], h)) /\ SatsApart /\ SatsHeld /\ LostCounted
  BY <1>6 DEF Flowing
<1>8. (\A h \in DOMAIN past.tab : SatsWhole(past.tab[h], h))'
  BY <1>1, <1>7 DEF SatsWhole
<1>. DEFINE U == Purses(tab.utxo)
            C == Purses(staged.cache)
            L == Coins(lost)
            C1 == Purses(staged'.cache)
<1>9. /\ Spread(Purse(tab.utxo)) /\ Spread(Purse(staged.cache)) /\ Single(Coin(lost))
      /\ Separate(U, C, {}, {}, {}, L, {})
      /\ U \cup C \cup {} \cup {} \cup L = Minted(Begun)
  BY <1>3, <1>7, PurseNothing, CoinNothing DEF SatsApart, SatsHeld
<1>10. IsSeq(lost) /\ EntriesOK(staged.cache) /\ EntriesOK(tab.utxo) /\ StatsOK(tab.stats)
  BY <1>1 DEF RunOK, AccountsOK, StagedOK, TabOK
<1>11. /\ C1 = C \cup L /\ Spread(Purse(staged'.cache))
       /\ Len(Sunk(staged'.cache)) = Len(Sunk(staged.cache)) + Len(lost)
  <2>. HIDE DEF lost
  <2>1. CASE lost = << >>
    <3>1. L = {} /\ Len(lost) = 0
      BY <2>1, CoinNothing, NothingSeq
    <3>2. staged'.cache = staged.cache
      BY <1>1, <2>1
    <3>3. Len(Sunk(staged.cache)) \in Nat
      BY <1>10, SunkSeq
    <3>. HIDE DEF L
    <3>. QED BY <1>9, <3>1, <3>2, <3>3
  <2>2. CASE lost # << >>
    <3>. DEFINE m == staged.cache
    <3>1. null.sats = Cached(m, Null).sats \o lost
      BY DEF Merged
    <3>2. IsConcat(null.sats, Cached(m, Null).sats, lost)
      <4>1. IsSeq(Cached(m, Null).sats)
        BY <1>10, CachedOK DEF EntryOK
      <4>. HIDE DEF null, m
      <4>. QED BY <1>10, <3>1, <4>1, ConcatSeq
    <3>3. \A k \in Coins(lost) : k \notin Purses(m)
      <4>. HIDE DEF U
      <4>. QED BY <1>9 DEF Separate
    <3>. HIDE DEF null
    <3>4. /\ Purses(Put(m, Null, null)) = Purses(m) \cup Coins(lost) /\ Spread(Purse(Put(m, Null, null)))
          /\ Len(Sunk(Put(m, Null, null))) = Len(Sunk(m)) + Len(lost)
      <4>1. EntriesOK(m) /\ Spread(Purse(m)) /\ Single(Coin(lost)) /\ IsSeq(lost)
        BY <1>9, <1>10
      <4>. HIDE DEF m
      <4>. QED BY <3>2, <3>3, <4>1, PurseAdded
    <3>. QED BY <1>1, <2>2, <3>4
  <2>. QED BY <2>1, <2>2
<1>. HIDE DEF U, C, L, C1
<1>12. Separate(U, C1, {}, {}, {}, {}, {}) /\ U \cup C1 \cup {} \cup {} \cup {} = Minted(Begun)
  BY <1>9, <1>11 DEF Separate
<1>13. SatsApart'
  <2>1. Spread(Purse(Outs')) /\ Purses(Outs') = {} /\ Single(Coin(Owed')) /\ Single(Coin(Left'))
        /\ Coins(Owed') = {} /\ Coins(Left') = {}
    BY <1>5, PurseNothing, CoinNothing
  <2>. HIDE DEF Outs, Owed, Left
  <2>. QED BY <1>1, <1>9, <1>11, <1>12, <2>1 DEF SatsApart, U, C1
<1>14. SatsHeld'
  <2>1. Purses(Outs') = {} /\ Coins(Owed') = {} /\ Coins(Left') = {}
    BY <1>5, PurseNothing, CoinNothing
  <2>. HIDE DEF Outs, Owed, Left, Begun
  <2>. QED BY <1>1, <1>4, <1>12, <2>1 DEF SatsHeld, Minted, U, C1
<1>15. LostCounted'
  <2>1. Len(Sunk(staged.cache)) = 0 /\ Len(Sunk(tab.utxo)) + Len(Sunk(staged.cache)) = tab.stats.lost
    BY <1>2, <1>7, NothingSeq DEF LostCounted
  <2>2. tab'.stats.lost = tab.stats.lost + Len(lost)
    BY FinishBlockStats
  <2>3. Len(Sunk(tab.utxo)) \in Nat /\ Len(lost) \in Nat
    BY <1>10, SunkSeq, SeqFacts
  <2>. HIDE DEF lost, Indexing
  <2>4. Len(Sunk(tab.utxo)) + Len(Sunk(staged'.cache)) = tab'.stats.lost
    BY <1>11, <2>1, <2>2, <2>3
  <2>. QED BY <1>1, <1>4, <2>4 DEF LostCounted
<1>. QED BY <1>8, <1>13, <1>14, <1>15

-----------------------------------------------------------------------------
(* Committing                                                                *)
LEMMA CommitOutputStats ==
  ASSUME Frame, CommitOutput
  PROVE  tab'.stats = tab.stats
<1>. DEFINE o == CHOOSE o \in DOMAIN staged.cache : TRUE
            entry == IF o \in Special /\ o \in DOMAIN tab.utxo
                     THEN Merged(tab.utxo[o], staged.cache[o]) ELSE staged.cache[o]
            utxo == Put(tab.utxo, o, entry)
<1>1. TabShape(tab) /\ tab' = [tab EXCEPT !.utxo = utxo]
  BY DEF CommitOutput, Frame, Types, TabOK
<1>. HIDE DEF utxo
<1>. QED BY <1>1 DEF TabShape

\* The sats of an output go from the cache to the table.
LEMMA SatsOver ==
  ASSUME NEW U, NEW C, NEW o, o \in DOMAIN C, Spread(Purse(U)), Spread(Purse(C)),
         EntriesOK(U), EntriesOK(C),
         \A k \in Purses(U) : k \notin Purses(C), o \in Special \/ o \notin DOMAIN U
  PROVE  LET e == IF o \in Special /\ o \in DOMAIN U THEN Merged(U[o], C[o]) ELSE C[o]
             U1 == Put(U, o, e)
             C1 == Drop(C, {o})
         IN /\ Spread(Purse(U1)) /\ Spread(Purse(C1)) /\ \A k \in Purses(U1) : k \notin Purses(C1)
            /\ \A k : k \in Purses(U1) \/ k \in Purses(C1) <=> k \in Purses(U) \/ k \in Purses(C)
            /\ Len(Sunk(U1)) + Len(Sunk(C1)) = Len(Sunk(U)) + Len(Sunk(C))
<1>. DEFINE e == IF o \in Special /\ o \in DOMAIN U THEN Merged(U[o], C[o]) ELSE C[o]
            s == C[o].sats
            K == Coins(s)
            a == Cached(U, o).sats
            S == {o}
            U1 == Put(U, o, e)
            C1 == Drop(C, S)
<1>1. IsSeq(s) /\ IsSeq(a)
  <2>1. EntryOK(C[o]) /\ EntryOK(Cached(U, o))
    BY CachedOK DEF EntriesOK
  <2>. QED BY <2>1 DEF EntryOK
<1>2. IsConcat(e.sats, a, s)
  <2>1. CASE o \in DOMAIN U
    <3>1. e.sats = a \o s
      BY <2>1 DEF Merged, Cached
    <3>. HIDE DEF e, a, s
    <3>. QED BY <1>1, <3>1, ConcatSeq
  <2>2. CASE o \notin DOMAIN U
    <3>1. e.sats = s /\ a = << >>
      BY <2>2 DEF Cached, NoEntry
    <3>. HIDE DEF e, a, s
    <3>2. Len(s) \in Nat /\ Len(a) = 0
      BY <1>1, <3>1, SeqFacts, NothingSeq
    <3>. QED BY <1>1, <3>1, <3>2 DEF IsConcat
  <2>. QED BY <2>1, <2>2
<1>3. Single(Coin(s)) /\ \A k \in K : k \in Purses(C) /\ k \notin Purses(U)
  <2>1. Single(Coin(s)) /\ \A k \in K : k \in Purses(C)
    BY PursesAre
  <2>. HIDE DEF K
  <2>. QED BY <2>1
<1>. HIDE DEF e
<1>4. /\ Purses(U1) = Purses(U) \cup K /\ Spread(Purse(U1))
      /\ Len(Sunk(U1)) = IF o = Null THEN Len(Sunk(U)) + Len(s) ELSE Len(Sunk(U))
  <2>. HIDE DEF s
  <2>. QED BY <1>1, <1>2, <1>3, PurseAdded DEF s
<1>5. \A p : p \in S <=> p = o
  OBVIOUS
<1>6. o = Null => Sunk(C) = s
  BY DEF Sunk, Cached
<1>. HIDE DEF S, s
<1>7. Len(Sunk(C1)) = IF o = Null THEN 0 ELSE Len(Sunk(C))
  <2>1. Null \in S => Sunk(C1) = << >>
    BY SunkDrop
  <2>2. Null \notin S => Sunk(C1) = Sunk(C)
    BY SunkDrop
  <2>3. Sunk(C1) = << >> => Len(Sunk(C1)) = 0
    BY NothingSeq
  <2>. HIDE DEF C1
  <2>. QED BY <1>5, <2>1, <2>2, <2>3
<1>8. Len(Sunk(U1)) + Len(Sunk(C1)) = Len(Sunk(U)) + Len(Sunk(C))
  <2>1. Len(Sunk(U)) \in Nat /\ Len(Sunk(C)) \in Nat /\ Len(s) \in Nat
    BY <1>1, SunkSeq, SeqFacts
  <2>. HIDE DEF U1, C1
  <2>. QED BY <1>4, <1>6, <1>7, <2>1
<1>. DEFINE c == Purse(C)
            d == Purse(C1)
<1>9. /\ DOMAIN c = DOMAIN C /\ \A x \in DOMAIN C : c[x] = Coin(C[x].sats)
      /\ d = Drop(c, S) /\ Spread(c) /\ AllOn(c) = Purses(C) /\ AllOn(d) = Purses(C1)
  BY PurseIs, PurseDrop DEF Purses
<1>10. On(c[o]) = K
  BY <1>9 DEF Coins, s
<1>. HIDE DEF c, d, K, U1, C1
<1>11. /\ AllOn(d) \subseteq AllOn(c) /\ Spread(d)
       /\ \A p \in DOMAIN c : \A k \in On(c[p]) : k \in AllOn(d) <=> p \notin S
  BY <1>9, AllOnDrop
<1>12. \A k : k \in AllOn(c) <=> k \in AllOn(d) \/ k \in K
  <2>1. ASSUME NEW k \in AllOn(c) PROVE k \in AllOn(d) \/ k \in K
    <3>1. PICK p \in DOMAIN c : k \in On(c[p])
      BY <2>1, AllOnIs
    <3>. QED BY <1>5, <1>10, <1>11, <3>1
  <2>. QED BY <1>3, <1>9, <1>11, <2>1
<1>13. \A k \in K : k \notin AllOn(d)
  BY <1>5, <1>9, <1>10, <1>11
<1>14. /\ \A k \in Purses(U1) : k \notin Purses(C1)
       /\ \A k : k \in Purses(U1) \/ k \in Purses(C1) <=> k \in Purses(U) \/ k \in Purses(C)
  BY <1>3, <1>4, <1>9, <1>11, <1>12, <1>13
<1>15. Spread(Purse(C1))
  BY <1>11 DEF d
<1>. QED BY <1>4, <1>8, <1>14, <1>15 DEF U1, C1, e, S

\* Where no block is indexed nothing is owed.
LEMMA NothingOwed ==
  ~Indexing /\ ~InTx => Owed = << >> /\ Left = << >> /\ Outs = << >>
BY DEF Owed, Left, Outs

LEMMA CommitOutputFlowing == ASSUME Frame, Sited, Flowing, CommitOutput PROVE Flowing'
<1>1. /\ Committing /\ UNCHANGED <<chain, block, past, run, tx, saved>>
      /\ EntriesOK(staged.cache) /\ EntriesOK(tab.utxo) /\ staged'.state = staged.state
      /\ tab'.stats = tab.stats
  BY CommitOutputFields, CommitOutputStats
<1>2. PICK o \in DOMAIN staged.cache :
        /\ tab'.utxo = Put(tab.utxo, o, IF o \in Special /\ o \in DOMAIN tab.utxo
                                        THEN Merged(tab.utxo[o], staged.cache[o])
                                        ELSE staged.cache[o])
        /\ staged'.cache = Drop(staged.cache, {o})
  BY CommitOutputFields
<1>3. ~Indexing /\ ~InTx /\ tx = Absent /\ saved = NoSaved
  BY <1>1, CommittingFacts
<1>4. ~Indexing' /\ ~InTx' /\ Begun' = Begun
  BY <1>1, <1>3 DEF Indexing, InTx, Begun
<1>5. Owed = << >> /\ Left = << >> /\ Outs = << >> /\ Owed' = << >> /\ Left' = << >> /\ Outs' = << >>
  <2>1. (~Indexing /\ ~InTx => Owed = << >> /\ Left = << >> /\ Outs = << >>)'
    BY NothingOwed, PTL
  <2>. HIDE DEF Indexing, InTx, Owed, Left, Outs
  <2>. QED BY <1>3, <1>4, <2>1, NothingOwed
<1>6. SUFFICES ASSUME past.clean
               PROVE  (/\ \A h \in DOMAIN past.tab : SatsWhole(past.tab[h], h)
                       /\ SatsApart /\ SatsHeld /\ LostCounted)'
  BY <1>1 DEF Flowing
<1>7. (\A h \in DOMAIN past.tab : SatsWhole(past.tab[h], h)) /\ SatsApart /\ SatsHeld /\ LostCounted
  BY <1>6 DEF Flowing
<1>8. (\A h \in DOMAIN past.tab : SatsWhole(past.tab[h], h))'
  BY <1>1, <1>7 DEF SatsWhole
<1>9. o \in Special \/ o \notin DOMAIN tab.utxo
  <2>1. FromDone
    BY <1>6 DEF Sited, Held
  <2>. QED BY <1>1, <1>2, <2>1 DEF FromDone
<1>. DEFINE U == Purses(tab.utxo)
            C == Purses(staged.cache)
            U1 == Purses(tab'.utxo)
            C1 == Purses(staged'.cache)
<1>10. /\ Spread(Purse(tab.utxo)) /\ Spread(Purse(staged.cache))
       /\ \A k \in U : k \notin C
       /\ U \cup C = Minted(Begun)
  <2>1. /\ Spread(Purse(tab.utxo)) /\ Spread(Purse(staged.cache))
        /\ Separate(U, C, {}, {}, {}, {}, {})
        /\ U \cup C \cup {} \cup {} \cup {} = Minted(Begun)
    BY <1>5, <1>7, PurseNothing, CoinNothing DEF SatsApart, SatsHeld
  <2>. HIDE DEF U, C
  <2>. QED BY <2>1 DEF Separate
<1>11. /\ Spread(Purse(tab'.utxo)) /\ Spread(Purse(staged'.cache)) /\ \A k \in U1 : k \notin C1
       /\ \A k : k \in U1 \/ k \in C1 <=> k \in U \/ k \in C
       /\ Len(Sunk(tab'.utxo)) + Len(Sunk(staged'.cache)) = Len(Sunk(tab.utxo)) + Len(Sunk(staged.cache))
  <2>. DEFINE u == tab.utxo
              c == staged.cache
              u1 == tab'.utxo
              c1 == staged'.cache
  <2>1. /\ EntriesOK(u) /\ EntriesOK(c) /\ Spread(Purse(u)) /\ Spread(Purse(c))
        /\ (\A k \in Purses(u) : k \notin Purses(c)) /\ o \in DOMAIN c /\ (o \in Special \/ o \notin DOMAIN u)
        /\ u1 = Put(u, o, IF o \in Special /\ o \in DOMAIN u THEN Merged(u[o], c[o]) ELSE c[o])
        /\ c1 = Drop(c, {o})
    BY <1>1, <1>2, <1>9, <1>10
  <2>. HIDE DEF u, c, u1, c1
  <2>2. /\ Spread(Purse(u1)) /\ Spread(Purse(c1)) /\ \A k \in Purses(u1) : k \notin Purses(c1)
        /\ \A k : k \in Purses(u1) \/ k \in Purses(c1) <=> k \in Purses(u) \/ k \in Purses(c)
        /\ Len(Sunk(u1)) + Len(Sunk(c1)) = Len(Sunk(u)) + Len(Sunk(c))
    BY <2>1, SatsOver
  <2>. QED BY <2>2 DEF u, c, u1, c1
<1>. HIDE DEF U, C, U1, C1
<1>12. Separate(U1, C1, {}, {}, {}, {}, {}) /\ U1 \cup C1 \cup {} \cup {} \cup {} = Minted(Begun)
  BY <1>10, <1>11 DEF Separate
<1>13. Spread(Purse(Outs')) /\ Purses(Outs') = {} /\ Single(Coin(Owed')) /\ Single(Coin(Left'))
       /\ Coins(Owed') = {} /\ Coins(Left') = {}
  BY <1>5, PurseNothing, CoinNothing
<1>14. SatsApart'
  <2>. HIDE DEF Outs, Owed, Left
  <2>. QED BY <1>11, <1>12, <1>13 DEF SatsApart, U1, C1
<1>15. SatsHeld'
  <2>. HIDE DEF Outs, Owed, Left, Begun
  <2>. QED BY <1>4, <1>12, <1>13 DEF SatsHeld, Minted, U1, C1
<1>16. LostCounted'
  <2>. HIDE DEF Indexing
  <2>. QED BY <1>1, <1>4, <1>7, <1>11 DEF LostCounted
<1>. QED BY <1>8, <1>14, <1>15, <1>16

-----------------------------------------------------------------------------
(* Blocks                                                                    *)
\* Between two blocks the sats are on the outputs of the table.
LEMMA IdleSats == Frame /\ block = None =>
  (Flowing <=> (past.clean => /\ \A h \in DOMAIN past.tab : SatsWhole(past.tab[h], h)
                              /\ SatsWhole(tab, Len(chain))))
<1>. SUFFICES ASSUME Frame, block = None
              PROVE  SatsApart /\ SatsHeld /\ LostCounted <=> SatsWhole(tab, Len(chain))
  BY DEF Flowing
<1>1. staged = NoStaged /\ ~Indexing /\ staged.cache = << >>
  BY DEF Frame, Control, Indexing, NoStaged
<1>2. ~InTx
  BY <1>1 DEF Frame, Control, InTx, NoSaved
<1>3. Owed = << >> /\ Left = << >> /\ Outs = << >> /\ Begun = Len(chain)
  BY <1>1, <1>2, NothingOwed DEF Begun
<1>4. /\ Spread(Purse(Outs)) /\ Purses(Outs) = {} /\ Single(Coin(Owed)) /\ Single(Coin(Left))
      /\ Coins(Owed) = {} /\ Coins(Left) = {}
      /\ Spread(Purse(staged.cache)) /\ Purses(staged.cache) = {}
  BY <1>1, <1>3, PurseNothing, CoinNothing
<1>5. SatsApart <=> Spread(Purse(tab.utxo))
  <2>. HIDE DEF Outs, Owed, Left
  <2>. QED BY <1>4 DEF SatsApart, Separate
<1>6. SatsHeld <=> Purses(tab.utxo) = Minted(Len(chain))
  <2>. HIDE DEF Outs, Owed, Left, Begun
  <2>. QED BY <1>3, <1>4 DEF SatsHeld
<1>7. LostCounted <=> Len(Sunk(tab.utxo)) = tab.stats.lost
  <2>1. Len(Sunk(staged.cache)) = 0
    BY <1>1, SunkNothing, NothingSeq
  <2>2. Len(Sunk(tab.utxo)) \in Nat
    BY SunkSeq DEF Frame, Types, TabOK
  <2>. HIDE DEF Indexing
  <2>. QED BY <1>1, <2>1, <2>2 DEF LostCounted
<1>. QED BY <1>5, <1>6, <1>7 DEF SatsWhole

\* A block brings the sats of its subsidy.
LEMMA MintedMore ==
  ASSUME NEW n \in Nat
  PROVE  LET f == [i \in 1..Subsidy |-> n * Subsidy + i - 1]
         IN /\ Single(Coin(f)) /\ Minted(n + 1) = Minted(n) \cup Coins(f)
            /\ \A k \in Coins(f) : k \notin Minted(n)
<1>. DEFINE a == Subsidy * n
            f == [i \in 1..Subsidy |-> n * Subsidy + i - 1]
<1>1. Subsidy \in Nat /\ a \in Nat /\ n * Subsidy = a /\ Subsidy * (n + 1) = a + Subsidy
  BY SubsidyAssumption
<1>2. DOMAIN f = 1..Subsidy /\ \A i \in 1..Subsidy : f[i] = a + i - 1
  BY <1>1
<1>. HIDE DEF a, f
<1>3. Single(Coin(f))
  <2>1. \A i, j \in DOMAIN f : f[i] = f[j] => i = j
    BY <1>1, <1>2
  <2>. QED BY <2>1, CoinFacts
<1>4. Coins(f) = {Old(s) : s \in a..a + Subsidy - 1}
  <2>1. Coins(f) = {Old(f[i]) : i \in DOMAIN f}
    BY CoinFacts
  <2>2. \A i \in DOMAIN f : f[i] \in a..a + Subsidy - 1
    BY <1>1, <1>2
  <2>3. \A s \in a..a + Subsidy - 1 : s - a + 1 \in DOMAIN f /\ f[s - a + 1] = s
    BY <1>1, <1>2
  <2>. QED BY <2>1, <2>2, <2>3
<1>5. Minted(n) = {Old(s) : s \in 0..a - 1} /\ Minted(n + 1) = {Old(s) : s \in 0..a + Subsidy - 1}
  BY <1>1 DEF Minted, a
<1>6. /\ \A s : s \in 0..a + Subsidy - 1 <=> s \in 0..a - 1 \/ s \in a..a + Subsidy - 1
      /\ \A s \in a..a + Subsidy - 1 : s \notin 0..a - 1
  BY <1>1
<1>. DEFINE A == 0..a - 1
            B == a..a + Subsidy - 1
            D == 0..a + Subsidy - 1
<1>. HIDE DEF A, B, D
<1>7. /\ \A s : s \in D <=> s \in A \/ s \in B
      /\ \A s \in B : s \notin A
      /\ Coins(f) = {Old(s) : s \in B} /\ Minted(n) = {Old(s) : s \in A}
      /\ Minted(n + 1) = {Old(s) : s \in D}
  BY <1>4, <1>5, <1>6 DEF A, B, D
<1>8. Minted(n + 1) = Minted(n) \cup Coins(f)
  BY <1>7
<1>9. \A k \in Coins(f) : k \notin Minted(n)
  BY <1>7, KeysDiffer
<1>. QED BY <1>3, <1>8, <1>9 DEF f

LEMMA InitFlowing == ASSUME Init PROVE Flowing
<1>1. tab = NoTables /\ past.tab = << >> /\ block = None /\ chain = << >>
  BY DEF Init
<1>2. Frame
  BY InitFrame
<1>3. tab.utxo = << >> /\ tab.stats.lost = 0 /\ Len(chain) = 0
  BY <1>1, NothingSeq DEF NoTables, NoStats
<1>4. Minted(0) = {}
  <2>1. 0..Subsidy * 0 - 1 = {}
    BY SubsidyAssumption
  <2>. QED BY <2>1 DEF Minted
<1>5. SatsWhole(tab, Len(chain))
  <2>1. Spread(Purse(tab.utxo)) /\ Purses(tab.utxo) = {}
    BY <1>3, PurseNothing
  <2>2. Len(Sunk(tab.utxo)) = 0
    BY <1>3, SunkNothing, NothingSeq
  <2>. QED BY <1>3, <1>4, <2>1, <2>2 DEF SatsWhole
<1>6. \A h \in DOMAIN past.tab : SatsWhole(past.tab[h], h)
  BY <1>1
<1>. QED BY <1>1, <1>2, <1>5, <1>6, IdleSats

LEMMA StageFlowing == ASSUME Frame, Frame', Flowing, Stage PROVE Flowing'
<1>. DEFINE n == Len(chain)
            fees == [i \in 1..Subsidy |-> n * Subsidy + i - 1]
<1>1. /\ block = None /\ chain' = chain /\ tab' = tab /\ staged' = staged /\ saved' = saved
      /\ run' = run /\ tx' = tx /\ cursor' = NoCursor /\ staged = NoStaged
      /\ run = Absent /\ tx = Absent /\ saved = NoSaved
  BY DEF Stage, Frame, Control, Indexing
<1>2. PICK b \in Blocks : block' = b /\ past' = [past EXCEPT !.tab = Put(past.tab, Height[b], tab)]
  BY DEF Stage
<1>3. block' # None /\ n \in Nat
  <2>1. block' # None
    BY <1>2, NoneAssumption
  <2>. QED BY <2>1 DEF Frame, Linked
<1>4. Height[block'] = n
  BY <1>1, <1>3 DEF Frame, Linked
<1>5. past'.tab = Put(past.tab, n, tab) /\ past'.clean = past.clean
  BY <1>2, <1>4 DEF Frame, Types, PastOK
<1>6. SUFFICES ASSUME past.clean
               PROVE  (/\ \A h \in DOMAIN past.tab : SatsWhole(past.tab[h], h)
                       /\ SatsApart /\ SatsHeld /\ LostCounted)'
  BY <1>5 DEF Flowing
<1>7. (\A h \in DOMAIN past.tab : SatsWhole(past.tab[h], h)) /\ SatsWhole(tab, n)
  BY <1>1, <1>6, IdleSats
<1>8. (\A h \in DOMAIN past.tab : SatsWhole(past.tab[h], h))'
  <2>. HIDE DEF n
  <2>1. \A h \in DOMAIN past'.tab :
          IF h = n THEN past'.tab[h] = tab ELSE h \in DOMAIN past.tab /\ past'.tab[h] = past.tab[h]
    BY <1>5 DEF Put
  <2>2. \A h \in DOMAIN past'.tab : SatsWhole(past'.tab[h], h)
    BY <1>7, <2>1
  <2>. QED BY <2>2 DEF SatsWhole
<1>9. /\ Indexing' /\ ~InTx' /\ At' = NoCursor /\ Accounts' = Kept'
      /\ staged'.cache = << >> /\ Begun' = n + 1
  <2>1. staged.state = "Index" /\ staged.cache = << >> /\ saved.tx = Absent
    BY <1>1 DEF NoStaged, NoSaved
  <2>. QED BY <1>1, <1>3, <2>1 DEF Indexing, InTx, At, Accounts, Begun
<1>10. At'.tx = 1 /\ 1 <= Len(Txs')
  <2>1. (Linked /\ block # None => Len(Txs) >= 1 /\ Len(Txs) \in Nat)'
    BY TxsFacts, PTL
  <2>. QED BY <1>3, <1>9, <2>1 DEF Frame, NoCursor
<1>11. Accounts'.fees = fees /\ Accounts'.lost = << >>
  <2>1. H' = n
    BY <1>3, <1>4 DEF H
  <2>2. Kept' = NewBlock'
    BY <1>1 DEF Kept, NoSaved
  <2>3. NewBlock'.lost = << >> /\ NewBlock'.fees = [i \in 1..Subsidy |-> H' * Subsidy + i - 1]
    BY DEF NewBlock
  <2>. HIDE DEF NewBlock, Kept, Accounts, H
  <2>. QED BY <1>9, <2>1, <2>2, <2>3
<1>12. Owed' = fees /\ Left' = << >> /\ Outs' = << >>
  <2>. HIDE DEF Indexing, InTx, At, Accounts, fees
  <2>. QED BY <1>1, <1>9, <1>10, <1>11 DEF Owed, Left, Outs
<1>. HIDE DEF n
<1>13. /\ Single(Coin(fees)) /\ Minted(n + 1) = Minted(n) \cup Coins(fees)
       /\ \A k \in Coins(fees) : k \notin Minted(n)
  BY <1>3, MintedMore
<1>. HIDE DEF fees
<1>14. /\ Spread(Purse(tab'.utxo)) /\ Purses(tab'.utxo) = Minted(n) /\ Len(Sunk(tab'.utxo)) = tab'.stats.lost
  BY <1>1, <1>7 DEF SatsWhole
<1>15. /\ Spread(Purse(Outs')) /\ Purses(Outs') = {} /\ Single(Coin(Left')) /\ Coins(Left') = {}
       /\ Spread(Purse(staged'.cache)) /\ Purses(staged'.cache) = {}
  BY <1>9, <1>12, PurseNothing, CoinNothing
<1>16. SatsApart'
  <2>. HIDE DEF Outs, Owed, Left
  <2>. QED BY <1>12, <1>13, <1>14, <1>15 DEF SatsApart, Separate
<1>17. SatsHeld'
  <2>. HIDE DEF Outs, Owed, Left, Begun
  <2>1. (Purses(tab.utxo) \cup Purses(staged.cache) \cup Purses(Outs) \cup Coins(Owed) \cup Coins(Left))'
          = Minted(n + 1)
    BY <1>12, <1>13, <1>14, <1>15
  <2>. QED BY <1>9, <2>1 DEF SatsHeld, Minted
<1>18. LostCounted'
  <2>1. Sunk(staged'.cache) = << >>
    BY <1>9, SunkNothing
  <2>2. Len(Sunk(staged'.cache)) = 0
    BY <2>1, NothingSeq
  <2>3. Len(Sunk(tab'.utxo)) \in Nat
    BY <1>1, SunkSeq DEF Frame, Types, TabOK
  <2>. HIDE DEF Indexing
  <2>. QED BY <1>14, <2>1, <2>2, <2>3 DEF LostCounted
<1>. QED BY <1>8, <1>16, <1>17, <1>18

LEMMA SaveFlowing == ASSUME Frame, Frame', Flowing, Save PROVE Flowing'
<1>1. /\ Committing /\ block # None /\ block' = None /\ chain' = Append(chain, block)
      /\ tab' = tab /\ past' = past /\ staged.cache = << >>
  BY DEF Save, Committing
<1>2. ~Indexing /\ ~InTx
  BY <1>1, CommittingFacts
<1>3. Owed = << >> /\ Left = << >> /\ Outs = << >> /\ Begun = Len(chain) + 1
  BY <1>1, <1>2, NothingOwed DEF Begun
<1>4. Len(chain') = Len(chain) + 1
  BY <1>1 DEF Frame, Linked
<1>5. ASSUME past.clean
      PROVE  (\A h \in DOMAIN past.tab : SatsWhole(past.tab[h], h)) /\ SatsWhole(tab, Len(chain'))
  <2>1. (\A h \in DOMAIN past.tab : SatsWhole(past.tab[h], h)) /\ SatsApart /\ SatsHeld /\ LostCounted
    BY <1>5 DEF Flowing
  <2>2. /\ Purses(Outs) = {} /\ Coins(Owed) = {} /\ Coins(Left) = {} /\ Purses(staged.cache) = {}
    BY <1>1, <1>3, PurseNothing, CoinNothing
  <2>3. Spread(Purse(tab.utxo))
    BY <2>1 DEF SatsApart
  <2>4. Purses(tab.utxo) = Minted(Len(chain'))
    <3>. HIDE DEF Outs, Owed, Left, Begun
    <3>. QED BY <1>3, <1>4, <2>1, <2>2 DEF SatsHeld
  <2>5. Len(Sunk(tab.utxo)) = tab.stats.lost
    <3>1. Len(Sunk(staged.cache)) = 0
      BY <1>1, SunkNothing, NothingSeq
    <3>2. Len(Sunk(tab.utxo)) \in Nat
      BY SunkSeq DEF Frame, Types, TabOK
    <3>. QED BY <2>1, <3>1, <3>2 DEF LostCounted
  <2>. QED BY <2>1, <2>3, <2>4, <2>5 DEF SatsWhole
<1>6. (past.clean => /\ \A h \in DOMAIN past.tab : SatsWhole(past.tab[h], h)
                     /\ SatsWhole(tab, Len(chain)))'
  BY <1>1, <1>5 DEF SatsWhole
<1>7. (Frame /\ block = None =>
         (Flowing <=> (past.clean => /\ \A h \in DOMAIN past.tab : SatsWhole(past.tab[h], h)
                                     /\ SatsWhole(tab, Len(chain)))))'
  BY IdleSats, PTL
<1>. HIDE DEF Flowing
<1>. QED BY <1>1, <1>6, <1>7

LEMMA HandleReorgFlowing == ASSUME Frame, Frame', Listed, Flowing, HandleReorg PROVE Flowing'
<1>1. PICK n \in 1..MaxUndo :
        /\ n <= Len(chain) - 1
        /\ chain' = SubSeq(chain, 1, Len(chain) - 1 - n + 1)
        /\ past' = [tab |-> Drop(past.tab, Len(chain) - 1 - n + 1 .. Len(chain) - 1),
                    reorgs |-> past.reorgs + 1,
                    clean |-> past.clean /\ Plain(tab') = Plain(past.tab[Len(chain) - 1 - n + 1])]
  BY DEF HandleReorg
<1>2. block = None /\ block' = None
  BY DEF HandleReorg
<1>3. /\ n \in Nat /\ Len(chain) \in Nat /\ chain \in Seq(Blocks) /\ DOMAIN past.tab = 0..Len(chain) - 1
  BY <1>2, UndoAssumption DEF Frame, Linked
<1>. DEFINE m == Len(chain) - n
<1>4. m \in 1..Len(chain) - 1 /\ m \in DOMAIN past.tab /\ Len(chain) - 1 - n + 1 = m
  BY <1>1, <1>3
<1>5. Len(chain') = m
  BY <1>1, <1>3, <1>4
<1>6. /\ past'.tab = Drop(past.tab, m..Len(chain) - 1)
      /\ past'.clean => past.clean /\ Plain(tab') = Plain(past.tab[m])
  BY <1>1, <1>4
<1>. HIDE DEF m
<1>7. \A h \in DOMAIN past'.tab : h \in DOMAIN past.tab /\ past'.tab[h] = past.tab[h]
  BY <1>6 DEF Drop
<1>8. ASSUME past'.clean PROVE past.clean /\ Alike(past.tab[m], tab')
  <2>1. TabShape(tab') /\ TabShape(past.tab[m]) /\ past.clean /\ Plain(past.tab[m]) = Plain(tab')
    BY <1>4, <1>6, <1>8 DEF Frame, Types, TabOK, Listed
  <2>. QED BY <2>1, AlikePlain
<1>9. past.clean => \A h \in DOMAIN past.tab : SatsWhole(past.tab[h], h)
  BY DEF Flowing
<1>10. ASSUME past'.clean PROVE SatsWhole(tab', Len(chain'))
  <2>1. SatsWhole(past.tab[m], m)
    BY <1>4, <1>8, <1>9, <1>10
  <2>2. tab'.utxo = past.tab[m].utxo /\ tab'.stats = past.tab[m].stats
    BY <1>8, <1>10 DEF Alike
  <2>. QED BY <1>5, <2>1, <2>2 DEF SatsWhole
<1>11. ASSUME past'.clean, NEW h \in DOMAIN past'.tab PROVE SatsWhole(past'.tab[h], h)
  BY <1>7, <1>8, <1>9, <1>11
<1>12. (past.clean => /\ \A h \in DOMAIN past.tab : SatsWhole(past.tab[h], h)
                      /\ SatsWhole(tab, Len(chain)))'
  BY <1>10, <1>11 DEF SatsWhole
<1>13. (Frame /\ block = None =>
         (Flowing <=> (past.clean => /\ \A h \in DOMAIN past.tab : SatsWhole(past.tab[h], h)
                                     /\ SatsWhole(tab, Len(chain)))))'
  BY IdleSats, PTL
<1>. HIDE DEF Flowing
<1>. QED BY <1>2, <1>12, <1>13

-----------------------------------------------------------------------------
(* The invariant                                                             *)
LEMMA NextFlowing ==
  ASSUME Frame, Frame', Listed, Sited, Flowing, [Next]_vars PROVE Flowing'
<1>1. CASE Transaction
  <2>1. CASE Spend
    BY <2>1, SpendFlowing
  <2>2. CASE Continue
    BY <2>2, ContinueFlowing
  <2>3. CASE Take \/ FinishInput \/ FinishInputs
    BY <2>3, TakeFlowing, FinishInputFlowing, FinishInputsFlowing
  <2>4. CASE Place \/ NextOutput \/ FinishOutputs \/ FinishLocations
    BY <2>4, LocalFlowing
  <2>5. CASE Locate \/ Lose
    BY <2>5, SettlesFlowing
  <2>6. CASE FinishTransaction
    BY <2>6, FinishTransactionFlowing
  <2>. QED BY <1>1, <2>1, <2>2, <2>3, <2>4, <2>5, <2>6 DEF Transaction
<1>2. CASE Stage \/ Save \/ HandleReorg
  BY <1>2, StageFlowing, SaveFlowing, HandleReorgFlowing
<1>3. CASE Begin \/ Break \/ FinishBlock
  BY <1>3, BeginFlowing, BreakFlowing, FinishBlockFlowing
<1>4. CASE CommitOutput \/ CommitInscription
  BY <1>4, CommitOutputFlowing, CommitInscriptionFlowing
<1>5. CASE UNCHANGED vars
  BY <1>5, StutterFlowing
<1>. QED BY <1>1, <1>2, <1>3, <1>4, <1>5 DEF Next

LEMMA FlowingHolds == Spec => []Flowing
<1>1. Init => Flowing
  BY InitFlowing
<1>2. /\ Undoable /\ Undoable' /\ Sited /\ Flowing /\ [Next]_vars => Flowing'
  BY NextFlowing DEF Undoable
<1>. QED BY <1>1, <1>2, UndoableHolds, SitedHolds, PTL DEF Spec

\* Between two blocks every sat that was mined, of which there are as many as
\* the blocks have brought, is on one output of the tables, once, and the lost
\* sats of the statistics are those of the null outpoint: for every subsidy,
\* every content of the blocks, every end of a message and every rollback, the
\* fees and the lost sats that index_block keeps in static variables included.
THEOREM SatsAreConserved == Spec => []SatsConserved
<1>1. Undoable /\ Flowing => SatsConserved
  <2>. SUFFICES ASSUME Undoable, Flowing, Between PROVE
         /\ UNION {ToSet(tab.utxo[o].sats) : o \in DOMAIN tab.utxo} = 0..Subsidy * Len(chain) - 1
         /\ \A o, p \in DOMAIN tab.utxo :
              \A i \in DOMAIN tab.utxo[o].sats, j \in DOMAIN tab.utxo[p].sats :
                tab.utxo[o].sats[i] = tab.utxo[p].sats[j] => o = p /\ i = j
         /\ Len(Cached(tab.utxo, Null).sats) = tab.stats.lost
    BY DEF SatsConserved
  <2>. DEFINE m == tab.utxo
              n == Len(chain)
              M == 0..Subsidy * n - 1
  <2>1. SatsWhole(tab, n)
    BY IdleSats DEF Undoable, Between
  <2>2. Spread(Purse(m)) /\ Purses(m) = {Old(s) : s \in M} /\ Len(Sunk(m)) = tab.stats.lost
    BY <2>1 DEF SatsWhole, Minted
  <2>. HIDE DEF m, M
  <2>3. \A o \in DOMAIN m : Coins(m[o].sats) = {Old(m[o].sats[i]) : i \in DOMAIN m[o].sats}
    BY CoinFacts
  <2>4. UNION {ToSet(m[o].sats) : o \in DOMAIN m} = M
    <3>1. ASSUME NEW o \in DOMAIN m, NEW i \in DOMAIN m[o].sats PROVE m[o].sats[i] \in M
      <4>1. Old(m[o].sats[i]) \in Coins(m[o].sats)
        BY <2>3, <3>1
      <4>2. Old(m[o].sats[i]) \in Purses(m)
        BY <3>1, <4>1, PursesAre
      <4>. QED BY <2>2, <4>2, KeysDiffer
    <3>2. ASSUME NEW s \in M PROVE \E o \in DOMAIN m : \E i \in DOMAIN m[o].sats : m[o].sats[i] = s
      <4>1. Old(s) \in Purses(m)
        BY <2>2
      <4>2. PICK o \in DOMAIN m : Old(s) \in Coins(m[o].sats)
        BY <4>1, PursesAre
      <4>3. PICK i \in DOMAIN m[o].sats : Old(s) = Old(m[o].sats[i])
        BY <2>3, <4>2
      <4>. QED BY <4>3, KeysDiffer
    <3>. QED BY <3>1, <3>2 DEF ToSet
  <2>5. ASSUME NEW o \in DOMAIN m, NEW p \in DOMAIN m,
               NEW i \in DOMAIN m[o].sats, NEW j \in DOMAIN m[p].sats,
               m[o].sats[i] = m[p].sats[j]
        PROVE  o = p /\ i = j
    <3>1. Old(m[o].sats[i]) \in Coins(m[o].sats) /\ Old(m[o].sats[i]) \in Coins(m[p].sats)
      BY <2>3, <2>5
    <3>2. o = p
      BY <2>2, <3>1, PursesAre
    <3>3. Single(Coin(m[o].sats))
      BY <2>2, PursesAre
    <3>. QED BY <2>5, <3>2, <3>3, CoinFacts
  <2>. QED BY <2>2, <2>4, <2>5 DEF m, M, Sunk
<1>. QED BY <1>1, UndoableHolds, FlowingHolds, PTL

=============================================================================
