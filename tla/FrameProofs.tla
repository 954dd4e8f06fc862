------------------------------ MODULE FrameProofs ------------------------------
(* The frame of Inscriptions: which locals and staged variables there are at  *)
(* each point of a block, what type they have, and what they say of the       *)
(* transaction in progress.  It holds for every content of the blocks and     *)
(* every end of a message, and whatever a reorg leaves in the tables.         *)
(*                                                                            *)
(* First comes what these proofs and those on top of them share: induction    *)
(* over the naturals as facts about sets of them, since the induction         *)
(* theorems of the library take an operator as a parameter, that a sort       *)
(* exists, and sequences of anything.                                         *)
EXTENDS Inscriptions, WellFoundedInduction, SequenceTheorems, TLAPS

-----------------------------------------------------------------------------
(* Naturals                                                                  *)

LessOn == {x \in Nat \X Nat : x[1] < x[2]}

LEMMA LessWellFounded == IsWellFoundedOn(LessOn, Nat)
<1>1. OpToRel(<, Nat) = LessOn
  BY DEF OpToRel, LessOn
<1>. QED BY <1>1, NatLessThanWellFounded

\* A set of naturals has a least member.
LEMMA LeastExists ==
  ASSUME NEW Y \in SUBSET Nat, Y # {}
  PROVE  \E n \in Y : \A m \in Y : n <= m
<1>1. PICK x \in Y : \A y \in Y : ~ (<<y, x>> \in LessOn)
  BY LessWellFounded, WFMin
<1>2. ASSUME NEW m \in Y PROVE x <= m
  <2>1. x \in Nat /\ m \in Nat /\ <<m, x>> \in Nat \X Nat
    OBVIOUS
  <2>2. ~ (<<m, x>>[1] < <<m, x>>[2])
    BY <1>1, <2>1 DEF LessOn
  <2>3. ~ (m < x)
    BY <2>2
  <2>. QED BY <2>1, <2>3
<1>. QED BY <1>2

\* A set that holds 0 and the successor of each natural it holds, holds all.
LEMMA NatSetInduction ==
  ASSUME NEW Y, 0 \in Y, \A n \in Nat : n \in Y => n + 1 \in Y
  PROVE  \A n \in Nat : n \in Y
<1>. DEFINE F == Nat \ Y
<1>1. ASSUME F # {} PROVE FALSE
  <2>1. PICK n \in F : \A m \in F : n <= m
    BY <1>1, LeastExists
  <2>2. n # 0 /\ n - 1 \in Nat
    BY <2>1
  <2>3. n - 1 \in Y
    BY <2>1, <2>2
  <2>4. n - 1 + 1 \in Y
    BY <2>2, <2>3
  <2>. QED BY <2>1, <2>4
<1>. QED BY <1>1

-----------------------------------------------------------------------------
(* Sorting                                                                   *)

\* Sorting by integer keys, equals in their order.
Precedes(key, i, j) == key[i] < key[j] \/ (key[i] = key[j] /\ i < j)

Sorts(p, key, n) ==
  /\ p \in [1..n -> 1..n]
  /\ \A k \in 1..n : \E i \in 1..n : p[i] = k
  /\ \A i, j \in 1..n : i < j => Precedes(key, p[i], p[j])

\* The last one is inserted before the first with a greater key.
LEMMA SortOneMore ==
  ASSUME NEW n \in Nat, NEW key, \A i \in 1..n + 1 : key[i] \in Int,
         NEW p, Sorts(p, key, n)
  PROVE  \E q : Sorts(q, key, n + 1)
<1>. DEFINE After == {i \in 1..n + 1 : i = n + 1 \/ (i \in 1..n /\ key[n + 1] < key[p[i]])}
<1>1. PICK m \in After : \A i \in After : m <= i
  <2>1. After \in SUBSET Nat /\ n + 1 \in After
    OBVIOUS
  <2>. HIDE DEF After
  <2>. QED BY <2>1, LeastExists
<1>2. /\ m \in 1..n + 1
      /\ m \in 1..n => key[n + 1] < key[p[m]]
      /\ \A i \in 1..n : i < m => ~(key[n + 1] < key[p[i]])
  <2>1. m \in 1..n + 1 /\ (m \in 1..n => key[n + 1] < key[p[m]])
    OBVIOUS
  <2>2. ASSUME NEW i \in 1..n, i < m, key[n + 1] < key[p[i]] PROVE FALSE
    <3>1. i \in After
      BY <2>2
    <3>2. m <= i
      BY <1>1, <3>1
    <3>. QED BY <2>1, <2>2, <3>2
  <2>. QED BY <2>1, <2>2
<1>. HIDE DEF After
<1>3. /\ p \in [1..n -> 1..n]
      /\ \A k \in 1..n : \E i \in 1..n : p[i] = k
      /\ \A i, j \in 1..n : i < j => Precedes(key, p[i], p[j])
  BY DEF Sorts
<1>11. \A k \in 1..n : p[k] \in 1..n /\ p[k] \in 1..n + 1
  BY <1>3
<1>12. key[n + 1] \in Int /\ \A k \in 1..n : key[p[k]] \in Int
  BY <1>11
<1>4. \A i \in 1..n : i < m => key[p[i]] <= key[n + 1]
  BY <1>2, <1>12
<1>5. \A i \in 1..n : i >= m => key[n + 1] < key[p[i]]
  <2>. SUFFICES ASSUME NEW i \in 1..n, i >= m PROVE key[n + 1] < key[p[i]]
    OBVIOUS
  <2>1. m \in 1..n /\ key[n + 1] < key[p[m]]
    BY <1>2
  <2>2. CASE i = m
    BY <2>1, <2>2
  <2>3. CASE i # m
    <3>1. m < i
      BY <2>1, <2>3
    <3>2. Precedes(key, p[m], p[i])
      BY <1>3, <2>1, <3>1
    <3>. QED BY <1>12, <2>1, <3>2 DEF Precedes
  <2>. QED BY <2>2, <2>3
<1>. DEFINE q == [i \in 1..n + 1 |-> IF i < m THEN p[i] ELSE IF i = m THEN n + 1 ELSE p[i - 1]]
<1>6. q \in [1..n + 1 -> 1..n + 1]
  <2>1. \A i \in 1..n + 1 : i > m => i - 1 \in 1..n
    BY <1>2
  <2>2. \A i \in 1..n + 1 : i < m => i \in 1..n
    BY <1>2
  <2>. QED BY <1>2, <1>11, <2>1, <2>2
<1>10. \A i \in 1..n + 1 : /\ i < m => q[i] = p[i]
                           /\ i = m => q[i] = n + 1
                           /\ i > m => q[i] = p[i - 1]
  BY <1>2
<1>. HIDE DEF q
<1>7. \A k \in 1..n + 1 : \E i \in 1..n + 1 : q[i] = k
  <2>. SUFFICES ASSUME NEW k \in 1..n + 1 PROVE \E i \in 1..n + 1 : q[i] = k
    OBVIOUS
  <2>1. CASE k = n + 1
    BY <1>10, <1>2, <2>1
  <2>2. CASE k # n + 1
    <3>1. PICK i \in 1..n : p[i] = k
      BY <1>3, <2>2
    <3>2. CASE i < m
      BY <1>10, <1>2, <3>1, <3>2
    <3>3. CASE i >= m
      <4>1. i + 1 \in 1..n + 1 /\ q[i + 1] = k
        BY <1>10, <1>2, <3>1, <3>3
      <4>. QED BY <4>1
    <3>. QED BY <1>10, <1>2, <3>2, <3>3
  <2>. QED BY <2>1, <2>2
<1>8. \A i, j \in 1..n + 1 : i < j => Precedes(key, q[i], q[j])
  <2>. SUFFICES ASSUME NEW i \in 1..n + 1, NEW j \in 1..n + 1, i < j
                PROVE  Precedes(key, q[i], q[j])
    OBVIOUS
  <2>1. CASE j < m
    <3>1. i \in 1..n /\ j \in 1..n /\ q[i] = p[i] /\ q[j] = p[j]
      BY <1>10, <1>2, <2>1
    <3>. QED BY <1>3, <3>1
  <2>2. CASE j = m
    <3>1. i \in 1..n /\ i < m /\ q[i] = p[i] /\ q[j] = n + 1
      BY <1>10, <1>2, <2>2
    <3>2. key[p[i]] <= key[n + 1] /\ p[i] \in 1..n
      BY <1>11, <1>4, <3>1
    <3>3. key[p[i]] \in Int /\ key[n + 1] \in Int
      BY <1>12, <3>1
    <3>4. p[i] < n + 1
      BY <3>2
    <3>. QED BY <3>1, <3>2, <3>3, <3>4 DEF Precedes
  <2>3. CASE j > m /\ i = m
    <3>1. j - 1 \in 1..n /\ j - 1 >= m /\ q[i] = n + 1 /\ q[j] = p[j - 1]
      BY <1>10, <1>2, <2>3
    <3>. QED BY <1>5, <3>1 DEF Precedes
  <2>4. CASE j > m /\ i < m
    <3>1. i \in 1..n /\ j - 1 \in 1..n /\ i < j - 1 /\ q[i] = p[i] /\ q[j] = p[j - 1]
      BY <1>10, <1>2, <2>4
    <3>. QED BY <1>3, <3>1
  <2>5. CASE j > m /\ i > m
    <3>1. i - 1 \in 1..n /\ j - 1 \in 1..n /\ i - 1 < j - 1 /\ q[i] = p[i - 1] /\ q[j] = p[j - 1]
      BY <1>10, <1>2, <2>5
    <3>. QED BY <1>3, <3>1
  <2>. QED BY <1>10, <1>2, <2>1, <2>2, <2>3, <2>4, <2>5
<1>. QED BY <1>6, <1>7, <1>8 DEF Sorts

LEMMA SortExists ==
  ASSUME NEW n \in Nat, NEW key, \A i \in 1..n : key[i] \in Int
  PROVE  \E p : Sorts(p, key, n)
<1>. DEFINE Y == {k \in Nat : k <= n => \E p : Sorts(p, key, k)}
<1>1. 0 \in Y
  <2>1. Sorts([i \in 1..0 |-> i], key, 0)
    BY DEF Sorts
  <2>. QED BY <2>1
<1>2. ASSUME NEW k \in Nat, k \in Y PROVE k + 1 \in Y
  <2>. SUFFICES ASSUME k + 1 <= n PROVE \E p : Sorts(p, key, k + 1)
    OBVIOUS
  <2>1. PICK p : Sorts(p, key, k)
    BY <1>2
  <2>2. \A i \in 1..k + 1 : key[i] \in Int
    OBVIOUS
  <2>. QED BY <2>1, <2>2, SortOneMore
<1>. HIDE DEF Y
<1>3. n \in Y
  BY <1>1, <1>2, NatSetInduction
<1>. QED BY <1>3 DEF Y
-----------------------------------------------------------------------------
(* Sequences                                                                 *)

\* A sequence, of whatever is in it.
IsSeq(s) == s \in Seq(ToSet(s))

LEMMA SeqOver ==
  ASSUME NEW S, NEW s \in Seq(S)
  PROVE  IsSeq(s)
<1>1. s \in [1..Len(s) -> S] /\ Len(s) \in Nat
  OBVIOUS
<1>2. \A i \in 1..Len(s) : s[i] \in ToSet(s)
  BY <1>1 DEF ToSet
<1>3. s \in [1..Len(s) -> ToSet(s)]
  BY <1>1, <1>2
<1>. QED BY <1>1, <1>3, SeqDef DEF IsSeq

LEMMA SeqFacts ==
  ASSUME NEW s, IsSeq(s)
  PROVE  Len(s) \in Nat /\ DOMAIN s = 1..Len(s)
  BY DEF IsSeq

LEMMA NothingSeq ==
  ASSUME NEW s, s = << >>
  PROVE  IsSeq(s) /\ Len(s) = 0 /\ DOMAIN s = {}
<1>1. s \in Seq({}) /\ Len(s) = 0
  OBVIOUS
<1>2. IsSeq(s)
  BY <1>1, SeqOver
<1>. QED BY <1>1, <1>2, SeqFacts

\* What the operators on sequences return, without the operators: the provers
\* reason better about a sequence that has these properties.
IsAppend(r, s, x) ==
  /\ IsSeq(r) /\ Len(r) = Len(s) + 1 /\ r[Len(s) + 1] = x
  /\ \A i \in 1..Len(s) : r[i] = s[i]

IsTail(r, s) ==
  /\ IsSeq(r) /\ Len(s) >= 1 /\ Len(r) = Len(s) - 1
  /\ \A i \in 1..Len(s) - 1 : r[i] = s[i + 1]

IsConcat(r, s, t) ==
  /\ IsSeq(r) /\ Len(r) = Len(s) + Len(t)
  /\ \A i \in 1..Len(s) : r[i] = s[i]
  /\ \A i \in 1..Len(t) : r[Len(s) + i] = t[i]

LEMMA AppendSeq ==
  ASSUME NEW s, IsSeq(s), NEW x
  PROVE  IsAppend(Append(s, x), s, x)
<1>. DEFINE S == ToSet(s) \cup {x}
<1>1. s \in Seq(S) /\ x \in S
  BY DEF IsSeq
<1>. HIDE DEF S
<1>2. Append(s, x) \in Seq(S)
  BY <1>1
<1>3. /\ Len(Append(s, x)) = Len(s) + 1 /\ Append(s, x)[Len(s) + 1] = x
      /\ \A i \in 1..Len(s) : Append(s, x)[i] = s[i]
  BY <1>1
<1>4. IsSeq(Append(s, x))
  BY <1>2, SeqOver
<1>. QED BY <1>3, <1>4 DEF IsAppend

LEMMA TailSeq ==
  ASSUME NEW s, IsSeq(s), s # << >>
  PROVE  IsTail(Tail(s), s) /\ Head(s) = s[1]
<1>. DEFINE S == ToSet(s)
<1>1. s \in Seq(S)
  BY DEF IsSeq
<1>. HIDE DEF S
<1>2. Tail(s) \in Seq(S)
  BY <1>1
<1>3. /\ Len(s) >= 1 /\ Len(Tail(s)) = Len(s) - 1 /\ Head(s) = s[1]
      /\ \A i \in 1..Len(s) - 1 : Tail(s)[i] = s[i + 1]
  BY <1>1
<1>4. IsSeq(Tail(s))
  BY <1>2, SeqOver
<1>. QED BY <1>3, <1>4 DEF IsTail

LEMMA ConcatSeq ==
  ASSUME NEW s, IsSeq(s), NEW t, IsSeq(t)
  PROVE  IsConcat(s \o t, s, t)
<1>. DEFINE S == ToSet(s) \cup ToSet(t)
<1>1. s \in Seq(S) /\ t \in Seq(S)
  BY DEF IsSeq
<1>. HIDE DEF S
<1>2. s \o t \in Seq(S)
  BY <1>1
<1>3. /\ Len(s) \in Nat /\ Len(t) \in Nat /\ Len(s \o t) = Len(s) + Len(t)
      /\ \A i \in 1..Len(s) + Len(t) : (s \o t)[i] = IF i <= Len(s) THEN s[i] ELSE t[i - Len(s)]
  BY <1>1
<1>4. IsSeq(s \o t)
  BY <1>2, SeqOver
<1>5. /\ Len(s \o t) = Len(s) + Len(t)
      /\ \A i \in 1..Len(s) : (s \o t)[i] = s[i]
      /\ \A i \in 1..Len(t) : (s \o t)[Len(s) + i] = t[i]
  BY <1>3
<1>. QED BY <1>4, <1>5 DEF IsConcat

\* A function on 1..n is a sequence.
LEMMA FcnSeq ==
  ASSUME NEW f, NEW n \in Nat, f = [i \in 1..n |-> f[i]]
  PROVE  IsSeq(f) /\ Len(f) = n
<1>1. f \in Seq(ToSet(f))
  <2>1. \A i \in 1..n : f[i] \in ToSet(f)
    BY DEF ToSet
  <2>. QED BY <2>1, SeqDef
<1>. QED BY <1>1 DEF IsSeq

LEMMA SingletonSeq ==
  ASSUME NEW x
  PROVE  IsSeq(<<x>>) /\ Len(<<x>>) = 1 /\ <<x>>[1] = x
<1>1. <<x>> \in Seq({x}) /\ Len(<<x>>) = 1 /\ <<x>>[1] = x
  OBVIOUS
<1>2. IsSeq(<<x>>)
  BY <1>1, SeqOver
<1>. QED BY <1>1, <1>2

\* The first becomes the last.
LEMMA RotateSeq ==
  ASSUME NEW s, IsSeq(s), s # << >>
  PROVE  LET r == Tail(s) \o <<Head(s)>>
         IN /\ Len(s) \in Nat /\ Len(s) >= 1 /\ DOMAIN s = 1..Len(s)
            /\ IsSeq(r) /\ Len(r) = Len(s) /\ DOMAIN r = 1..Len(s)
            /\ \A i \in 1..Len(s) - 1 : r[i] = s[i + 1]
            /\ r[Len(s)] = s[1]
<1>1. ASSUME NEW t, IsTail(t, s), NEW c, IsSeq(c), Len(c) = 1, c[1] = s[1],
             NEW r, IsConcat(r, t, c)
      PROVE  /\ Len(s) \in Nat /\ Len(s) >= 1 /\ DOMAIN s = 1..Len(s)
             /\ IsSeq(r) /\ Len(r) = Len(s) /\ DOMAIN r = 1..Len(s)
             /\ \A i \in 1..Len(s) - 1 : r[i] = s[i + 1]
             /\ r[Len(s)] = s[1]
  <2>1. /\ Len(s) \in Nat /\ Len(s) >= 1 /\ DOMAIN s = 1..Len(s)
        /\ IsSeq(r) /\ Len(t) = Len(s) - 1 /\ Len(r) = Len(s) /\ DOMAIN r = 1..Len(r)
    BY <1>1, SeqFacts DEF IsTail, IsConcat
  <2>2. r[Len(t) + 1] = s[1]
    <3>1. 1 \in 1..Len(c)
      BY <1>1
    <3>. QED BY <1>1, <3>1 DEF IsConcat
  <2>3. \A i \in 1..Len(s) - 1 : r[i] = s[i + 1]
    BY <1>1, <2>1 DEF IsTail, IsConcat
  <2>. QED BY <2>1, <2>2, <2>3
<1>2. IsTail(Tail(s), s) /\ Head(s) = s[1]
  BY TailSeq
<1>3. IsSeq(<<Head(s)>>) /\ Len(<<Head(s)>>) = 1 /\ <<Head(s)>>[1] = s[1]
  BY <1>2, SingletonSeq
<1>4. IsConcat(Tail(s) \o <<Head(s)>>, Tail(s), <<Head(s)>>)
  <2>1. IsSeq(Tail(s))
    BY <1>2 DEF IsTail
  <2>. QED BY <1>3, <2>1, ConcatSeq
<1>. QED BY <1>1, <1>2, <1>3, <1>4

-----------------------------------------------------------------------------
(* Types.  A record is what its fields make it.                              *)

StatsOK(s) == s \in [lost : Nat, cursed : Nat, blessed : Nat, unbound : Nat]

\* The entry of an output: sats, and inscriptions by sequence number and offset.
EntryOK(e) ==
  /\ e = [sats |-> e.sats, ins |-> e.ins]
  /\ IsSeq(e.sats) /\ e.ins \in Seq(Nat \X Nat)
EntriesOK(f) == f = [o \in DOMAIN f |-> f[o]] /\ \A o \in DOMAIN f : EntryOK(f[o])

\* A finite set of naturals.
Bounded(S) == \E n \in {0} \cup S : n \in Nat /\ S \subseteq 0..n

TabShape(t) ==
  t = [entries |-> t.entries, ids |-> t.ids, numbers |-> t.numbers,
       children |-> t.children, satSeqs |-> t.satSeqs, utxo |-> t.utxo,
       points |-> t.points, satPoints |-> t.satPoints, stats |-> t.stats,
       last |-> t.last]

TabOK(t) ==
  /\ TabShape(t)
  /\ StatsOK(t.stats) /\ EntriesOK(t.utxo) /\ Bounded(DOMAIN t.entries)

RecordShape(r) ==
  r = [satSeqs |-> r.satSeqs, children |-> r.children, ids |-> r.ids,
       numbers |-> r.numbers, outpoints |-> r.outpoints, removed |-> r.removed,
       satPoints |-> r.satPoints, entries |-> r.entries, points |-> r.points,
       stats |-> r.stats]

RecordOK(r) ==
  /\ RecordShape(r)
  /\ StatsOK(r.stats) /\ \A p \in r.removed : EntryOK(p[2])

StagedShape(s) ==
  s = [state |-> s.state, cache |-> s.cache, record |-> s.record,
       outpoint |-> s.outpoint, pending |-> s.pending]

StagedOK(s) ==
  /\ StagedShape(s)
  /\ s.state \in {"Index", "Commit"} /\ RecordOK(s.record) /\ EntriesOK(s.cache)
  /\ s.pending \in Seq(Nat \X Nat)

CursorOK(c) == c \in [tx : Nat \ {0}, input : Nat \ {0}, inscription : Nat \ {0}]

PastOK(p) == p = [tab |-> p.tab, reorgs |-> p.reorgs, clean |-> p.clean]

\* What floats has a sequence number or is new, and an offset.
NewOK(n) == n = [cursed |-> n.cursed, vindicated |-> n.vindicated, unbound |-> n.unbound,
                 reinscription |-> n.reinscription, parents |-> n.parents]
FlotsamOK(f) ==
  /\ f = [id |-> f.id, offset |-> f.offset, seq |-> f.seq, new |-> f.new]
  /\ f.offset \in Nat
  /\ IF f.new = Absent THEN f.seq \in Nat ELSE NewOK(f.new)
Flotsams(s) == IsSeq(s) /\ \A i \in DOMAIN s : FlotsamOK(s[i])

\* What has come down on an output.
LocationOK(l) ==
  /\ l = [flotsam |-> l.flotsam, out |-> l.out, offset |-> l.offset]
  /\ FlotsamOK(l.flotsam) /\ l.offset \in Nat
Landed(s) == IsSeq(s) /\ \A i \in DOMAIN s : LocationOK(s[i])

\* What floats in the order of the offsets, from offset v on.
Ready(q, v) ==
  /\ Flotsams(q) /\ \A i \in DOMAIN q : v <= q[i].offset
  /\ \A i, j \in DOMAIN q : i <= j => q[i].offset <= q[j].offset

\* The accounts of a block: what waits for the coinbase.
AccountsOK(b) ==
  /\ Flotsams(b.flotsam) /\ b.reward \in Nat /\ IsSeq(b.fees) /\ IsSeq(b.lost)

RunShape(r) ==
  r = [tx |-> r.tx, input |-> r.input, inscription |-> r.inscription,
       next |-> r.next, stats |-> r.stats, flotsam |-> r.flotsam,
       reward |-> r.reward, fees |-> r.fees, lost |-> r.lost]

RunOK(r) ==
  /\ RunShape(r)
  /\ r.tx \in Nat \ {0} /\ r.input \in Nat \ {0} /\ r.inscription \in Nat \ {0}
  /\ r.next \in Nat /\ StatsOK(r.stats) /\ AccountsOK(r)

\* What a transaction spends and makes.
WorkOK(w) ==
  /\ IsSeq(w.ins) /\ \A i \in DOMAIN w.ins : EntryOK(w.ins[i])
  /\ EntriesOK(w.outs)
  /\ IsSeq(w.inSats)

TxShape(t) ==
  t = [phase |-> t.phase, ins |-> t.ins, outs |-> t.outs, inSats |-> t.inSats,
       floating |-> t.floating, offsets |-> t.offsets, id |-> t.id,
       inValue |-> t.inValue, located |-> t.located, outValue |-> t.outValue,
       out |-> t.out, queue |-> t.queue, loc |-> t.loc]

TxOK(t) ==
  /\ TxShape(t)
  /\ WorkOK(t) /\ Flotsams(t.floating) /\ Landed(t.located) /\ Flotsams(t.queue)
  /\ t.phase \in {"inputs", "outputs", "locations", "rest"}
  /\ t.id \in Nat /\ t.inValue \in Nat /\ t.outValue \in Nat /\ t.loc \in Nat \ {0}

SavedShape(s) ==
  s = [block |-> s.block, tx |-> s.tx, in1 |-> s.in1, in2 |-> s.in2, in3 |-> s.in3]

SavedOK(s) ==
  /\ SavedShape(s)
  /\ s.block # Absent => AccountsOK(s.block)
  /\ s.tx # Absent => WorkOK(s.tx)
  /\ s.in1 # Absent => Flotsams(s.in1.floating) /\ s.in1.id \in Nat /\ s.in1.inValue \in Nat
  /\ s.in2 # Absent => Landed(s.in2.located) /\ s.in2.inValue \in Nat
  /\ s.in3 # Absent => Landed(s.in3.located) /\ s.in3.inValue \in Nat /\ s.in3.loc \in Nat \ {0}

Types ==
  /\ TabOK(tab) /\ StagedOK(staged) /\ SavedOK(saved) /\ CursorOK(cursor) /\ PastOK(past)
  /\ run # Absent => RunOK(run)
  /\ tx # Absent => TxOK(tx)
  /\ \A h \in DOMAIN records : RecordOK(records[h])

-----------------------------------------------------------------------------
(* The blocks                                                                *)

\* The indexed blocks are a chain, which the block in progress extends, and
\* each has its change record and the tables of before.
Linked ==
  /\ chain \in Seq(Blocks)
  /\ \A i \in 1..Len(chain) : Height[chain[i]] = i - 1
  /\ \A i, j \in 1..Len(chain) : i <= j => chain[i] \in Lineage[chain[j]]
  /\ block # None => /\ block \in Blocks /\ Height[block] = Len(chain)
                     /\ \A i \in 1..Len(chain) : chain[i] \in Lineage[block]
  /\ DOMAIN records = 0..Len(chain) - 1
  /\ DOMAIN past.tab = IF block = None THEN 0..Len(chain) - 1 ELSE 0..Len(chain)

-----------------------------------------------------------------------------
(* The transaction in progress                                               *)

Indexing == block # None /\ staged.state = "Index"

\* The position in the block, the accounts of the block, and what the
\* transaction in progress works on, in the locals or as a message left them.
At == IF run = Absent THEN cursor ELSE run
Accounts == IF run = Absent THEN Kept ELSE run
InTx == tx # Absent \/ saved.tx # Absent
Work == IF tx = Absent THEN saved.tx ELSE tx

This == Txs[At.tx]
IsLast == At.tx = Len(Txs)
InputCount == IF IsLast THEN 1 ELSE Len(This.ins)
Paid(n) == ValueOf(This.outs, n)
PaidOut == Paid(Len(This.outs))

\* The state of a loop that an earlier message left in the middle.
Resumes == saved.in2 # Absent \/ saved.in3 # Absent

\* Which locals and staged variables there are.
Control ==
  /\ block = None => staged = NoStaged
  /\ ~Indexing => run = Absent /\ tx = Absent /\ saved = NoSaved
  /\ tx # Absent => run # Absent
  /\ saved.tx = Absent => saved.in1 = Absent /\ saved.in2 = Absent /\ saved.in3 = Absent
  /\ saved.in1 # Absent => saved.in2 = Absent /\ saved.in3 = Absent
  /\ saved.in2 # Absent => saved.in3 = Absent
  /\ Indexing => At.tx \in 1..Len(Txs) + 1
  /\ InTx => At.tx <= Len(Txs)
  /\ Indexing /\ ~InTx => At.input = 1
  /\ InTx /\ tx = Absent => saved.in1 # Absent \/ Resumes
  /\ InTx /\ saved.in1 # Absent => ~IsLast
  /\ InTx /\ (tx = Absent \/ tx.phase = "inputs") =>
       IF Resumes THEN At.input = InputCount + 1 ELSE At.input <= InputCount + 1
  /\ tx # Absent =>
       /\ tx.phase # "inputs" => saved.in1 = Absent /\ run.input = 1
       /\ tx.phase \notin {"inputs", "outputs"} => saved.in2 = Absent
       /\ tx.phase = "rest" => saved.in3 = Absent

\* The locals are empty until what a message left replaces them.
Pending ==
  /\ tx # Absent =>
       /\ tx.phase = "inputs" =>
            /\ tx.located = << >> /\ tx.queue = << >> /\ tx.outValue = 0 /\ tx.out = 1
            /\ Resumes => tx.floating = << >>
       /\ tx.phase = "outputs" /\ saved.in3 # Absent => tx.queue = << >> /\ tx.located = << >>
       /\ tx.phase \in {"inputs", "outputs"} => tx.loc = 1
  /\ InTx /\ IsLast /\ (Resumes \/ (tx # Absent /\ tx.phase # "inputs"))
       => Accounts.flotsam = << >>

\* What the transaction in progress has counted.
Counts ==
  /\ InTx /\ ~IsLast => Len(Work.ins) = Len(This.ins)
  /\ tx # Absent =>
       /\ tx.phase = "inputs" /\ ~Resumes /\ ~IsLast =>
            tx.inValue = Len(SatsOf(tx.ins, run.input - 1))
       /\ ((tx.phase = "outputs" /\ saved.in3 = Absent) \/ tx.phase \in {"locations", "rest"})
            /\ ~IsLast => tx.inValue = Len(tx.inSats)
       /\ tx.phase = "outputs" =>
            /\ tx.out \in 1..Len(This.outs) + 1 /\ tx.outValue = Paid(tx.out - 1)
            /\ Ready(tx.queue, tx.outValue)
       /\ tx.phase \in {"locations", "rest"} =>
            tx.outValue = PaidOut /\ Ready(tx.queue, tx.outValue)
  /\ saved.in1 # Absent /\ tx = Absent =>
       saved.in1.inValue = Len(SatsOf(saved.tx.ins, At.input - 1))
  /\ saved.in2 # Absent =>
       /\ ~IsLast => saved.in2.inValue = Len(Work.inSats)
       /\ saved.in2.out \in 1..Len(This.outs) + 1
       /\ saved.in2.outValue = Paid(saved.in2.out - 1)
       /\ Ready(saved.in2.queue, saved.in2.outValue)
  /\ saved.in3 # Absent =>
       /\ ~IsLast => saved.in3.inValue = Len(Work.inSats)
       /\ saved.in3.outValue = PaidOut
       /\ Ready(saved.in3.queue, saved.in3.outValue)

\* The reward is the number of the sats that the coinbase will get, but for
\* those that the transaction in progress leaves over.
Balanced ==
  Indexing =>
    IF ~InTx THEN Accounts.reward = Len(Accounts.fees)
    ELSE /\ PaidOut <= Len(Work.inSats)
         /\ IsLast => Work.inSats = Accounts.fees /\ Len(Accounts.fees) = Accounts.reward
         /\ ~IsLast => /\ Work.inSats = SatsOf(Work.ins, Len(Work.ins))
                       /\ Len(Accounts.fees) + PaidOut = Accounts.reward + Len(Work.inSats)

Frame == Types /\ Linked /\ Control /\ Pending /\ Counts /\ Balanced

-----------------------------------------------------------------------------
(* Data                                                                      *)

\* A record with fields is not the record without.
LEMMA HasFields ==
  ASSUME NEW r, "tx" \in DOMAIN r \/ "phase" \in DOMAIN r \/ "floating" \in DOMAIN r
                \/ "located" \in DOMAIN r \/ "ins" \in DOMAIN r \/ "fees" \in DOMAIN r
                \/ "parents" \in DOMAIN r
  PROVE  r # Absent
  BY DEF Absent

\* What Sorted returns.
LEMMA SortedIs ==
  ASSUME NEW s, IsSeq(s), NEW key, \A i \in DOMAIN s : key[i] \in Int
  PROVE  \E p : /\ Sorts(p, key, Len(s))
                /\ Sorted(s, key) = [i \in 1..Len(s) |-> s[p[i]]]
<1>. DEFINE n == Len(s)
            Good(p) == /\ p \in Surjection(DOMAIN s, DOMAIN s)
                       /\ \A i, j \in DOMAIN s : i < j =>
                            (key[p[i]] < key[p[j]] \/ (key[p[i]] = key[p[j]] /\ p[i] < p[j]))
            order == CHOOSE p : Good(p)
<1>1. n \in Nat /\ DOMAIN s = 1..n
  BY SeqFacts
<1>2. \A p : Good(p) <=> Sorts(p, key, n)
  BY <1>1 DEF Surjection, Sorts, Precedes
<1>3. Sorted(s, key) = [i \in DOMAIN s |-> s[order[i]]]
  BY DEF Sorted
<1>. HIDE DEF n, Good
<1>4. \E p : Good(p)
  BY <1>1, <1>2, SortExists
<1>5. Good(order)
  BY <1>4
<1>. QED BY <1>1, <1>2, <1>3, <1>5 DEF n

\* p puts s in the order of its keys.
Keyed(s, key) == IsSeq(s) /\ \A i \in DOMAIN s : key[i] \in Int
PutsInOrder(p, s, key) ==
  Sorts(p, key, Len(s)) /\ Sorted(s, key) = [i \in 1..Len(s) |-> s[p[i]]]

LEMMA SortedBy ==
  ASSUME NEW s, NEW key, Keyed(s, key)
  PROVE  \E p : PutsInOrder(p, s, key)
<1>1. IsSeq(s) /\ \A i \in DOMAIN s : key[i] \in Int
  BY DEF Keyed
<1>2. \E p : Sorts(p, key, Len(s)) /\ Sorted(s, key) = [i \in 1..Len(s) |-> s[p[i]]]
  BY <1>1, SortedIs
<1>. QED BY <1>2 DEF PutsInOrder

\* The function of which ValueOf is the last value.
IsValues(g, outs, n) == g = [v \in 0..n |-> IF v = 0 THEN 0 ELSE g[v - 1] + outs[v].value]

LEMMA ValuesExist ==
  ASSUME NEW outs, NEW n \in Nat
  PROVE  \E g : IsValues(g, outs, n)
<1>. DEFINE S == {k \in Nat : \E g : IsValues(g, outs, k)}
<1>1. 0 \in S
  <2>1. IsValues([i \in 0..0 |-> 0], outs, 0)
    BY DEF IsValues
  <2>. QED BY <2>1
<1>2. ASSUME NEW k \in Nat, k \in S PROVE k + 1 \in S
  <2>1. PICK g : IsValues(g, outs, k)
    BY <1>2
  <2>. DEFINE h == [i \in 0..k + 1 |-> IF i = k + 1 THEN g[k] + outs[i].value ELSE g[i]]
  <2>2. \A i \in 0..k + 1 : h[i] = IF i = 0 THEN 0 ELSE h[i - 1] + outs[i].value
    <3>. SUFFICES ASSUME NEW i \in 0..k + 1
                  PROVE  h[i] = IF i = 0 THEN 0 ELSE h[i - 1] + outs[i].value
      OBVIOUS
    <3>1. \A j \in 0..k : g[j] = IF j = 0 THEN 0 ELSE g[j - 1] + outs[j].value
      BY <2>1 DEF IsValues
    <3>. QED BY <3>1
  <2>3. IsValues(h, outs, k + 1)
    BY <2>2 DEF IsValues
  <2>. QED BY <2>3
<1>. HIDE DEF S
<1>3. n \in S
  BY <1>1, <1>2, NatSetInduction
<1>. QED BY <1>3 DEF S

LEMMA ValueIs ==
  ASSUME NEW outs, NEW n \in Nat
  PROVE  \E g : IsValues(g, outs, n) /\ ValueOf(outs, n) = g[n]
<1>. DEFINE sum[v \in 0..n] == IF v = 0 THEN 0 ELSE sum[v - 1] + outs[v].value
<1>1. ValueOf(outs, n) = sum[n]
  BY DEF ValueOf
<1>2. IsValues(sum, outs, n)
  <2>1. sum = CHOOSE g : IsValues(g, outs, n)
    BY DEF IsValues
  <2>. HIDE DEF sum
  <2>. QED BY <2>1, ValuesExist
<1>. QED BY <1>1, <1>2

\* The values of a function as in ValueOf are those of ValueOf.
LEMMA ValuesAgree ==
  ASSUME NEW outs, NEW k \in Nat
  PROVE  \A n \in Nat : \A g : k <= n /\ IsValues(g, outs, n) => g[k] = ValueOf(outs, k)
<1>. DEFINE S == {j \in Nat : \A n \in Nat : \A g : j <= n /\ IsValues(g, outs, n)
                                                    => g[j] = ValueOf(outs, j)}
<1>1. 0 \in S
  <2>1. \A n \in Nat : \A g : IsValues(g, outs, n) => g[0] = 0
    BY DEF IsValues
  <2>2. ValueOf(outs, 0) = 0
    BY <2>1, ValueIs
  <2>. QED BY <2>1, <2>2
<1>2. ASSUME NEW j \in Nat, j \in S PROVE j + 1 \in S
  <2>1. \A n \in Nat : \A g : j + 1 <= n /\ IsValues(g, outs, n)
                              => g[j + 1] = ValueOf(outs, j) + outs[j + 1].value
    <3>. SUFFICES ASSUME NEW n \in Nat, NEW g, j + 1 <= n, IsValues(g, outs, n)
                  PROVE  g[j + 1] = ValueOf(outs, j) + outs[j + 1].value
      OBVIOUS
    <3>1. g[j] = ValueOf(outs, j)
      BY <1>2
    <3>2. g[j + 1] = g[j] + outs[j + 1].value
      BY DEF IsValues
    <3>. QED BY <3>1, <3>2
  <2>2. ValueOf(outs, j + 1) = ValueOf(outs, j) + outs[j + 1].value
    BY <2>1, ValueIs
  <2>. QED BY <2>1, <2>2
<1>. HIDE DEF S
<1>3. k \in S
  BY <1>1, <1>2, NatSetInduction
<1>. QED BY <1>3 DEF S

LEMMA ValueStep ==
  ASSUME NEW outs
  PROVE  /\ ValueOf(outs, 0) = 0
         /\ \A n \in Nat : ValueOf(outs, n + 1) = ValueOf(outs, n) + outs[n + 1].value
<1>1. ValueOf(outs, 0) = 0
  <2>1. PICK g : IsValues(g, outs, 0) /\ ValueOf(outs, 0) = g[0]
    BY ValueIs
  <2>. QED BY <2>1 DEF IsValues
<1>2. ASSUME NEW n \in Nat PROVE ValueOf(outs, n + 1) = ValueOf(outs, n) + outs[n + 1].value
  <2>1. PICK g : IsValues(g, outs, n + 1) /\ ValueOf(outs, n + 1) = g[n + 1]
    BY ValueIs
  <2>2. g[n] = ValueOf(outs, n)
    BY <2>1, ValuesAgree
  <2>3. g[n + 1] = g[n] + outs[n + 1].value
    BY <2>1 DEF IsValues
  <2>. QED BY <2>1, <2>2, <2>3
<1>. QED BY <1>1, <1>2

\* The value of outputs is a natural, and that of more of them no less.
LEMMA ValueGrows ==
  ASSUME NEW outs, NEW n \in Nat, \A v \in 1..n : outs[v].value \in Nat
  PROVE  \A k \in 0..n : ValueOf(outs, k) \in Nat /\ ValueOf(outs, k) <= ValueOf(outs, n)
<1>. DEFINE A == {k \in Nat : k <= n => ValueOf(outs, k) \in Nat}
            B == {d \in Nat : \A k \in 0..n : k + d = n =>
                     ValueOf(outs, k) \in Nat /\ ValueOf(outs, k) <= ValueOf(outs, n)}
<1>1. \A k \in Nat : k \in A
  <2>1. 0 \in A
    BY ValueStep
  <2>2. ASSUME NEW k \in Nat, k \in A PROVE k + 1 \in A
    BY <2>2, ValueStep
  <2>. HIDE DEF A
  <2>. QED BY <2>1, <2>2, NatSetInduction
<1>2. \A k \in 0..n : ValueOf(outs, k) \in Nat
  BY <1>1
<1>. HIDE DEF A
<1>3. \A d \in Nat : d \in B
  <2>1. 0 \in B
    BY <1>2
  <2>2. ASSUME NEW d \in Nat, d \in B PROVE d + 1 \in B
    <3>. SUFFICES ASSUME NEW k \in 0..n, k + (d + 1) = n
                  PROVE  ValueOf(outs, k) \in Nat /\ ValueOf(outs, k) <= ValueOf(outs, n)
      OBVIOUS
    <3>1. k + 1 \in 0..n /\ (k + 1) + d = n
      OBVIOUS
    <3>2. ValueOf(outs, k + 1) <= ValueOf(outs, n)
      BY <2>2, <3>1
    <3>3. ValueOf(outs, k + 1) = ValueOf(outs, k) + outs[k + 1].value /\ outs[k + 1].value \in Nat
      BY <3>1, ValueStep
    <3>. QED BY <1>2, <3>1, <3>2, <3>3
  <2>. HIDE DEF B
  <2>. QED BY <2>1, <2>2, NatSetInduction
<1>4. ASSUME NEW k \in 0..n PROVE ValueOf(outs, k) <= ValueOf(outs, n)
  <2>1. n - k \in Nat /\ k + (n - k) = n
    OBVIOUS
  <2>. QED BY <1>3, <2>1
<1>. QED BY <1>2, <1>4
\* The function of which SatsOf is the last value.
IsJoins(g, ins, n) == g = [i \in 0..n |-> IF i = 0 THEN << >> ELSE g[i - 1] \o ins[i].sats]

LEMMA JoinsExist ==
  ASSUME NEW ins, NEW n \in Nat
  PROVE  \E g : IsJoins(g, ins, n)
<1>. DEFINE S == {k \in Nat : \E g : IsJoins(g, ins, k)}
            more(x, i) == x \o ins[i].sats
<1>1. 0 \in S
  <2>1. IsJoins([i \in 0..0 |-> << >>], ins, 0)
    BY DEF IsJoins
  <2>. QED BY <2>1
<1>2. ASSUME NEW k \in Nat, k \in S PROVE k + 1 \in S
  <2>1. PICK g : IsJoins(g, ins, k)
    BY <1>2
  <2>2. g = [i \in 0..k |-> IF i = 0 THEN << >> ELSE more(g[i - 1], i)]
    BY <2>1 DEF IsJoins
  <2>. HIDE DEF more
  <2>. DEFINE h == [i \in 0..k + 1 |-> IF i = k + 1 THEN more(g[k], i) ELSE g[i]]
  <2>3. \A i \in 0..k + 1 : h[i] = IF i = 0 THEN << >> ELSE more(h[i - 1], i)
    <3>. SUFFICES ASSUME NEW i \in 0..k + 1
                  PROVE  h[i] = IF i = 0 THEN << >> ELSE more(h[i - 1], i)
      OBVIOUS
    <3>1. \A j \in 0..k : g[j] = IF j = 0 THEN << >> ELSE more(g[j - 1], j)
      BY <2>2
    <3>. QED BY <3>1
  <2>4. h = [i \in 0..k + 1 |-> IF i = 0 THEN << >> ELSE more(h[i - 1], i)]
    BY <2>3
  <2>. HIDE DEF h
  <2>5. IsJoins(h, ins, k + 1)
    BY <2>4 DEF IsJoins, more
  <2>. QED BY <2>5
<1>. HIDE DEF S
<1>3. n \in S
  BY <1>1, <1>2, NatSetInduction
<1>. QED BY <1>3 DEF S

LEMMA JoinIs ==
  ASSUME NEW ins, NEW n \in Nat
  PROVE  \E g : IsJoins(g, ins, n) /\ SatsOf(ins, n) = g[n]
<1>. DEFINE sats[i \in 0..n] == IF i = 0 THEN << >> ELSE sats[i - 1] \o ins[i].sats
<1>1. SatsOf(ins, n) = sats[n]
  BY DEF SatsOf
<1>2. IsJoins(sats, ins, n)
  <2>1. sats = CHOOSE g : IsJoins(g, ins, n)
    BY DEF IsJoins
  <2>. HIDE DEF sats
  <2>. QED BY <2>1, JoinsExist
<1>. QED BY <1>1, <1>2

LEMMA JoinsAt ==
  ASSUME NEW ins, NEW n \in Nat, NEW g, IsJoins(g, ins, n)
  PROVE  g[0] = << >> /\ \A i \in 1..n : g[i] = g[i - 1] \o ins[i].sats
<1>. DEFINE more(x, i) == x \o ins[i].sats
<1>1. g = [i \in 0..n |-> IF i = 0 THEN << >> ELSE more(g[i - 1], i)]
  BY DEF IsJoins
<1>. HIDE DEF more
<1>2. g[0] = << >> /\ \A i \in 1..n : g[i] = more(g[i - 1], i)
  BY <1>1
<1>. QED BY <1>2 DEF more

LEMMA JoinsAgree ==
  ASSUME NEW ins, NEW k \in Nat
  PROVE  \A n \in Nat : \A g : k <= n /\ IsJoins(g, ins, n) => g[k] = SatsOf(ins, k)
<1>. DEFINE S == {j \in Nat : \A n \in Nat : \A g : j <= n /\ IsJoins(g, ins, n)
                                                    => g[j] = SatsOf(ins, j)}
            more(x, i) == x \o ins[i].sats
<1>1. \A n \in Nat : \A g : IsJoins(g, ins, n) =>
        g[0] = << >> /\ \A i \in 1..n : g[i] = more(g[i - 1], i)
  BY JoinsAt
<1>. HIDE DEF more
<1>2. 0 \in S
  <2>1. SatsOf(ins, 0) = << >>
    BY <1>1, JoinIs
  <2>. QED BY <1>1, <2>1
<1>3. ASSUME NEW j \in Nat, j \in S PROVE j + 1 \in S
  <2>1. \A n \in Nat : \A g : j + 1 <= n /\ IsJoins(g, ins, n)
                              => g[j + 1] = more(SatsOf(ins, j), j + 1)
    <3>. SUFFICES ASSUME NEW n \in Nat, NEW g, j + 1 <= n, IsJoins(g, ins, n)
                  PROVE  g[j + 1] = more(SatsOf(ins, j), j + 1)
      OBVIOUS
    <3>1. g[j] = SatsOf(ins, j)
      BY <1>3
    <3>2. g[j + 1] = more(g[j], j + 1)
      <4>1. j + 1 \in 1..n /\ (j + 1) - 1 = j
        OBVIOUS
      <4>. QED BY <1>1, <4>1
    <3>. QED BY <3>1, <3>2
  <2>2. SatsOf(ins, j + 1) = more(SatsOf(ins, j), j + 1)
    BY <2>1, JoinIs
  <2>. QED BY <2>1, <2>2
<1>. HIDE DEF S
<1>4. k \in S
  BY <1>2, <1>3, NatSetInduction
<1>. QED BY <1>4 DEF S

LEMMA SatsStep ==
  ASSUME NEW ins
  PROVE  /\ SatsOf(ins, 0) = << >>
         /\ \A n \in Nat : SatsOf(ins, n + 1) = SatsOf(ins, n) \o ins[n + 1].sats
<1>1. SatsOf(ins, 0) = << >>
  <2>1. PICK g : IsJoins(g, ins, 0) /\ SatsOf(ins, 0) = g[0]
    BY JoinIs
  <2>. QED BY <2>1, JoinsAt
<1>2. ASSUME NEW n \in Nat PROVE SatsOf(ins, n + 1) = SatsOf(ins, n) \o ins[n + 1].sats
  <2>1. PICK g : IsJoins(g, ins, n + 1) /\ SatsOf(ins, n + 1) = g[n + 1]
    BY JoinIs
  <2>2. g[n] = SatsOf(ins, n)
    BY <2>1, JoinsAgree
  <2>3. n + 1 \in 1..n + 1 /\ (n + 1) - 1 = n
    OBVIOUS
  <2>. DEFINE more(x, i) == x \o ins[i].sats
  <2>4. g[n + 1] = more(g[n], n + 1)
    <3>1. \A m \in Nat : \A f : IsJoins(f, ins, m) => \A i \in 1..m : f[i] = more(f[i - 1], i)
      BY JoinsAt
    <3>. HIDE DEF more
    <3>. QED BY <2>1, <2>3, <3>1
  <2>. QED BY <2>1, <2>2, <2>4
<1>. QED BY <1>1, <1>2

LEMMA SatsAreSeq ==
  ASSUME NEW ins, NEW n \in Nat, \A i \in 1..n : IsSeq(ins[i].sats)
  PROVE  \A k \in 0..n : /\ IsSeq(SatsOf(ins, k))
                         /\ k < n => IsConcat(SatsOf(ins, k + 1), SatsOf(ins, k), ins[k + 1].sats)
<1>. DEFINE A == {k \in Nat : k <= n => IsSeq(SatsOf(ins, k))}
<1>1. 0 \in A
  BY SatsStep, NothingSeq
<1>2. ASSUME NEW k \in Nat, k \in A, k + 1 <= n
      PROVE  IsConcat(SatsOf(ins, k + 1), SatsOf(ins, k), ins[k + 1].sats)
  <2>0. k <= n /\ k + 1 \in 1..n
    BY <1>2
  <2>1. IsSeq(SatsOf(ins, k)) /\ IsSeq(ins[k + 1].sats)
    BY <1>2, <2>0
  <2>2. SatsOf(ins, k + 1) = SatsOf(ins, k) \o ins[k + 1].sats
    BY SatsStep
  <2>. HIDE DEF A
  <2>. QED BY <2>1, <2>2, ConcatSeq
<1>3. ASSUME NEW k \in Nat, k \in A PROVE k + 1 \in A
  BY <1>2, <1>3 DEF IsConcat
<1>4. \A k \in Nat : k \in A
  <2>. HIDE DEF A
  <2>. QED BY <1>1, <1>3, NatSetInduction
<1>. QED BY <1>2, <1>4
-----------------------------------------------------------------------------
(* Lists of what floats                                                      *)

LEMMA EmptyLists ==
  /\ Flotsams(<< >>) /\ Landed(<< >>) /\ IsSeq(<< >>) /\ Len(<< >>) = 0
  /\ \A v : Ready(<< >>, v)
<1>. DEFINE e == << >>
<1>1. IsSeq(e) /\ Len(e) = 0 /\ DOMAIN e = {}
  BY NothingSeq
<1>. HIDE DEF e
<1>2. Flotsams(e) /\ Landed(e) /\ \A v : Ready(e, v)
  BY <1>1 DEF Flotsams, Landed, Ready
<1>. QED BY <1>1, <1>2 DEF e

LEMMA AppendFlotsam ==
  ASSUME NEW s, Flotsams(s), NEW f, FlotsamOK(f)
  PROVE  Flotsams(Append(s, f)) /\ IsAppend(Append(s, f), s, f)
<1>1. IsSeq(s)
  BY DEF Flotsams
<1>2. IsAppend(Append(s, f), s, f)
  BY <1>1, AppendSeq
<1>3. ASSUME NEW r, IsAppend(r, s, f) PROVE Flotsams(r)
  <2>1. /\ Len(s) \in Nat /\ DOMAIN s = 1..Len(s) /\ DOMAIN r = 1..Len(s) + 1 /\ IsSeq(r)
        /\ \A i \in 1..Len(s) : r[i] = s[i]
        /\ r[Len(s) + 1] = f
    BY <1>1, <1>3, SeqFacts DEF IsAppend
  <2>2. \A i \in DOMAIN r : FlotsamOK(r[i])
    BY <2>1 DEF Flotsams
  <2>. QED BY <2>1, <2>2 DEF Flotsams
<1>. QED BY <1>2, <1>3

LEMMA AppendLanded ==
  ASSUME NEW s, Landed(s), NEW l, LocationOK(l)
  PROVE  Landed(Append(s, l)) /\ IsAppend(Append(s, l), s, l)
<1>1. IsSeq(s)
  BY DEF Landed
<1>2. IsAppend(Append(s, l), s, l)
  BY <1>1, AppendSeq
<1>3. ASSUME NEW r, IsAppend(r, s, l) PROVE Landed(r)
  <2>1. /\ Len(s) \in Nat /\ DOMAIN s = 1..Len(s) /\ DOMAIN r = 1..Len(s) + 1 /\ IsSeq(r)
        /\ \A i \in 1..Len(s) : r[i] = s[i]
        /\ r[Len(s) + 1] = l
    BY <1>1, <1>3, SeqFacts DEF IsAppend
  <2>2. \A i \in DOMAIN r : LocationOK(r[i])
    BY <2>1 DEF Landed
  <2>. QED BY <2>1, <2>2 DEF Landed
<1>. QED BY <1>2, <1>3

LEMMA ConcatFlotsams ==
  ASSUME NEW s, Flotsams(s), NEW t, Flotsams(t)
  PROVE  Flotsams(s \o t) /\ IsConcat(s \o t, s, t)
<1>1. IsSeq(s) /\ IsSeq(t)
  BY DEF Flotsams
<1>2. IsConcat(s \o t, s, t)
  BY <1>1, ConcatSeq
<1>3. ASSUME NEW r, IsConcat(r, s, t) PROVE Flotsams(r)
  <2>1. /\ Len(s) \in Nat /\ DOMAIN s = 1..Len(s) /\ Len(t) \in Nat /\ DOMAIN t = 1..Len(t)
        /\ DOMAIN r = 1..Len(s) + Len(t) /\ IsSeq(r)
        /\ \A i \in 1..Len(s) : r[i] = s[i]
        /\ \A i \in 1..Len(t) : r[Len(s) + i] = t[i]
    BY <1>1, <1>3, SeqFacts DEF IsConcat
  <2>2. ASSUME NEW i \in DOMAIN r PROVE FlotsamOK(r[i])
    <3>1. CASE i <= Len(s)
      BY <2>1, <3>1 DEF Flotsams
    <3>2. CASE i > Len(s)
      <4>1. i - Len(s) \in 1..Len(t) /\ Len(s) + (i - Len(s)) = i
        BY <2>1, <3>2
      <4>. QED BY <2>1, <4>1 DEF Flotsams
    <3>. QED BY <2>1, <3>1, <3>2
  <2>. QED BY <2>1, <2>2 DEF Flotsams
<1>. QED BY <1>2, <1>3

\* The first of what floats leaves the others.
LEMMA TailReady ==
  ASSUME NEW q, NEW v, Ready(q, v), q # << >>
  PROVE  /\ IsTail(Tail(q), q) /\ Head(q) = q[1]
         /\ Ready(Tail(q), v)
         /\ FlotsamOK(q[1]) /\ v <= q[1].offset
         /\ \A i \in DOMAIN q : q[1].offset <= q[i].offset
<1>1. IsSeq(q)
  BY DEF Ready, Flotsams
<1>2. IsTail(Tail(q), q) /\ Head(q) = q[1]
  BY <1>1, TailSeq
<1>3. ASSUME NEW r, IsTail(r, q)
      PROVE  /\ Ready(r, v)
             /\ FlotsamOK(q[1]) /\ v <= q[1].offset
             /\ \A i \in DOMAIN q : q[1].offset <= q[i].offset
  <2>1. /\ Len(q) \in Nat /\ DOMAIN q = 1..Len(q) /\ Len(q) >= 1 /\ IsSeq(r)
        /\ DOMAIN r = 1..Len(q) - 1
        /\ \A i \in 1..Len(q) - 1 : r[i] = q[i + 1]
    BY <1>1, <1>3, SeqFacts DEF IsTail
  <2>2. /\ \A i \in 1..Len(q) : FlotsamOK(q[i]) /\ v <= q[i].offset
        /\ \A i, j \in 1..Len(q) : i <= j => q[i].offset <= q[j].offset
    BY <2>1 DEF Ready, Flotsams
  <2>3. \A i \in 1..Len(q) - 1 : i + 1 \in 1..Len(q)
    BY <2>1
  <2>4. \A i \in DOMAIN r : FlotsamOK(r[i]) /\ v <= r[i].offset
    BY <2>1, <2>2, <2>3
  <2>5. \A i, j \in DOMAIN r : i <= j => r[i].offset <= r[j].offset
    BY <2>1, <2>2, <2>3
  <2>6. 1 \in 1..Len(q)
    BY <2>1
  <2>7. Ready(r, v)
    BY <2>1, <2>4, <2>5 DEF Ready, Flotsams
  <2>. QED BY <2>1, <2>2, <2>6, <2>7
<1>. QED BY <1>2, <1>3

\* What floats from v on and first at w or later, floats from w on.
LEMMA ReadyLater ==
  ASSUME NEW q, NEW v, Ready(q, v), NEW w \in Nat,
         q # << >> => w <= Head(q).offset
  PROVE  Ready(q, w)
<1>1. CASE q = << >>
  BY <1>1, EmptyLists
<1>2. CASE q # << >>
  <2>1. \A i \in DOMAIN q : Head(q).offset <= q[i].offset
    BY <1>2, TailReady
  <2>2. \A i \in DOMAIN q : q[i].offset \in Nat
    BY DEF Ready, Flotsams, FlotsamOK
  <2>3. Head(q).offset \in Nat
    BY <1>2, TailReady DEF FlotsamOK
  <2>4. \A i \in DOMAIN q : w <= q[i].offset
    BY <1>2, <2>1, <2>2, <2>3
  <2>. QED BY <2>4 DEF Ready
<1>. QED BY <1>1, <1>2

LEMMA SortedReady ==
  ASSUME NEW s, Flotsams(s)
  PROVE  LET q == Sorted(s, [i \in DOMAIN s |-> s[i].offset])
         IN /\ Ready(q, 0) /\ Len(q) = Len(s)
            /\ s = << >> => q = << >>
            /\ \E p : /\ p \in [DOMAIN s -> DOMAIN s]
                      /\ \A k \in DOMAIN s : \E i \in DOMAIN s : p[i] = k
                      /\ \A i, j \in DOMAIN s : p[i] = p[j] => i = j
                      /\ DOMAIN q = DOMAIN s /\ \A i \in DOMAIN s : q[i] = s[p[i]]
<1>. DEFINE key == [i \in DOMAIN s |-> s[i].offset]
            q == Sorted(s, key)
            n == Len(s)
<1>1. IsSeq(s) /\ n \in Nat /\ DOMAIN s = 1..n
  BY SeqFacts DEF Flotsams
<1>2. \A i \in 1..n : FlotsamOK(s[i]) /\ key[i] = s[i].offset /\ key[i] \in Nat
  BY <1>1 DEF Flotsams, FlotsamOK
<1>3. DOMAIN key = 1..n
  BY <1>1
<1>. HIDE DEF key, n
<1>4. PICK p : Sorts(p, key, n) /\ q = [i \in 1..n |-> s[p[i]]]
  <2>1. \A i \in DOMAIN s : key[i] \in Int
    BY <1>1, <1>2
  <2>. QED BY <1>1, <2>1, SortedIs DEF n
<1>. HIDE DEF q
<1>5. /\ p \in [1..n -> 1..n]
      /\ \A k \in 1..n : \E i \in 1..n : p[i] = k
      /\ \A i, j \in 1..n : i < j => Precedes(key, p[i], p[j])
  BY <1>4 DEF Sorts
<1>6. \A i \in 1..n : p[i] \in 1..n /\ q[i] = s[p[i]]
  BY <1>4, <1>5
<1>7. IsSeq(q) /\ Len(q) = n /\ DOMAIN q = 1..n
  <2>1. q = [i \in 1..n |-> q[i]]
    BY <1>4
  <2>. QED BY <1>1, <1>4, <2>1, FcnSeq, SeqFacts
<1>8. \A i, j \in 1..n : i < j => key[p[i]] <= key[p[j]] /\ p[i] # p[j]
  <2>. SUFFICES ASSUME NEW i \in 1..n, NEW j \in 1..n, i < j
                PROVE  key[p[i]] <= key[p[j]] /\ p[i] # p[j]
    OBVIOUS
  <2>1. key[p[i]] \in Nat /\ key[p[j]] \in Nat /\ p[i] \in Nat /\ p[j] \in Nat
    BY <1>2, <1>6
  <2>2. Precedes(key, p[i], p[j])
    BY <1>5
  <2>. QED BY <2>1, <2>2 DEF Precedes
<1>9. \A i, j \in 1..n : p[i] = p[j] => i = j
  BY <1>1, <1>8
<1>10. \A i \in 1..n : FlotsamOK(q[i]) /\ q[i].offset = key[p[i]] /\ q[i].offset \in Nat
  BY <1>2, <1>6
<1>11. \A i, j \in 1..n : i <= j => q[i].offset <= q[j].offset
  <2>. SUFFICES ASSUME NEW i \in 1..n, NEW j \in 1..n, i <= j
                PROVE  q[i].offset <= q[j].offset
    OBVIOUS
  <2>1. CASE i = j
    BY <1>10, <2>1
  <2>2. CASE i < j
    BY <1>8, <1>10, <2>2
  <2>. QED BY <1>1, <2>1, <2>2
<1>12. Ready(q, 0)
  BY <1>7, <1>10, <1>11 DEF Ready, Flotsams
<1>13. s = << >> => q = << >>
  <2>1. n = 0 => q = << >>
    BY <1>4
  <2>. QED BY <2>1 DEF n
<1>14. /\ Ready(q, 0) /\ Len(q) = n
       /\ s = << >> => q = << >>
       /\ p \in [DOMAIN s -> DOMAIN s]
       /\ \A k \in DOMAIN s : \E i \in DOMAIN s : p[i] = k
       /\ \A i, j \in DOMAIN s : p[i] = p[j] => i = j
       /\ DOMAIN q = DOMAIN s /\ \A i \in DOMAIN s : q[i] = s[p[i]]
  BY <1>1, <1>5, <1>6, <1>7, <1>9, <1>12, <1>13
<1>. QED BY <1>14 DEF q, key, n
-----------------------------------------------------------------------------
(* The blocks                                                                *)

\* The ids of the transactions of a block and of the first n blocks.
TxIds(b) == {Content[b][i].id : i \in DOMAIN Content[b]}
Known(n) == UNION {TxIds(chain[i]) : i \in 1..n}

LEMMA OrderFacts ==
  ASSUME NEW b \in Blocks
  PROVE  /\ Len(Content[b]) \in Nat /\ Len(Content[b]) >= 1
         /\ DOMAIN Content[b] = 1..Len(Content[b])
         /\ IsSeq(InOrder(b)) /\ Len(InOrder(b)) = Len(Content[b])
         /\ DOMAIN InOrder(b) = 1..Len(Content[b])
         /\ \A i \in 1..Len(Content[b]) - 1 : InOrder(b)[i] = Content[b][i + 1]
         /\ InOrder(b)[Len(Content[b])] = Content[b][1]
<1>1. IsSeq(Content[b]) /\ Content[b] # << >>
  BY ContentAssumption DEF IsSeq
<1>. QED BY <1>1, RotateSeq DEF InOrder

\* The transactions of a block have different ids, and none of a block below.
LEMMA DifferentIds ==
  ASSUME NEW b \in Blocks
  PROVE  /\ \A i, j \in 1..Len(InOrder(b)) : InOrder(b)[i].id = InOrder(b)[j].id => i = j
         /\ TxIds(b) = {InOrder(b)[i].id : i \in 1..Len(InOrder(b))}
         /\ \A a \in Lineage[b] : a # b => TxIds(a) \cap TxIds(b) = {}
<1>. DEFINE n == Len(Content[b])
            r == InOrder(b)
            c == Content[b]
<1>1. b \in Lineage[b]
  BY LineageAssumption
<1>2. /\ n \in Nat /\ n >= 1 /\ DOMAIN c = 1..n /\ Len(r) = n
      /\ \A i \in 1..n - 1 : r[i] = c[i + 1]
      /\ r[n] = c[1]
  BY OrderFacts
<1>3. \A i, j \in 1..n : c[i].id = c[j].id => i = j
  <2>1. \A i, j \in DOMAIN c : c[i].id = c[j].id => i = j
    BY <1>1, IdAssumption
  <2>. QED BY <1>2, <2>1
<1>. HIDE DEF n, r, c
<1>4. \A i, j \in 1..n : r[i].id = r[j].id => i = j
  <2>. SUFFICES ASSUME NEW i \in 1..n, NEW j \in 1..n, r[i].id = r[j].id PROVE i = j
    OBVIOUS
  <2>1. CASE i = n /\ j = n
    BY <2>1
  <2>2. CASE i = n /\ j # n
    <3>1. r[i] = c[1] /\ r[j] = c[j + 1] /\ j + 1 \in 1..n /\ 1 \in 1..n
      BY <1>2, <2>2
    <3>. QED BY <1>3, <3>1
  <2>3. CASE i # n /\ j = n
    <3>1. r[j] = c[1] /\ r[i] = c[i + 1] /\ i + 1 \in 1..n /\ 1 \in 1..n
      BY <1>2, <2>3
    <3>. QED BY <1>3, <3>1
  <2>4. CASE i # n /\ j # n
    <3>1. r[j] = c[j + 1] /\ r[i] = c[i + 1] /\ i + 1 \in 1..n /\ j + 1 \in 1..n
      BY <1>2, <2>4
    <3>. QED BY <1>3, <3>1
  <2>. QED BY <2>1, <2>2, <2>3, <2>4
<1>5. {c[i].id : i \in 1..n} = {r[i].id : i \in 1..n}
  <2>1. \A k \in 1..n : \E i \in 1..n : r[i] = c[k]
    <3>. SUFFICES ASSUME NEW k \in 1..n PROVE \E i \in 1..n : r[i] = c[k]
      OBVIOUS
    <3>1. CASE k = 1
      BY <1>2, <3>1
    <3>2. CASE k # 1
      <4>1. k - 1 \in 1..n - 1 /\ k - 1 \in 1..n /\ (k - 1) + 1 = k
        BY <1>2, <3>2
      <4>. QED BY <1>2, <4>1
    <3>. QED BY <3>1, <3>2
  <2>2. \A i \in 1..n : \E k \in 1..n : r[i] = c[k]
    BY <1>2
  <2>. QED BY <2>1, <2>2
<1>6. \A a \in Lineage[b] : a # b => TxIds(a) \cap TxIds(b) = {}
  BY <1>1, IdAssumption DEF TxIds
<1>. QED BY <1>2, <1>4, <1>5, <1>6 DEF n, r, c, TxIds

\* What ContentAssumption says of a transaction.
ContentOK(t) ==
  /\ IsSeq(t.ins) /\ IsSeq(t.outs) /\ IsSeq(t.envs)
  /\ \A v \in DOMAIN t.outs : t.outs[v].value \in Nat
  /\ \A k \in DOMAIN t.envs : /\ t.envs[k].input \in Nat
                              /\ t.envs[k].pointer = None \/ t.envs[k].pointer \in Nat

LEMMA ContentFacts ==
  ASSUME NEW b \in Blocks
  PROVE  \A i \in 1..Len(InOrder(b)) : ContentOK(InOrder(b)[i])
<1>1. /\ Len(Content[b]) \in Nat /\ Len(Content[b]) >= 1
      /\ DOMAIN Content[b] = 1..Len(Content[b]) /\ Len(InOrder(b)) = Len(Content[b])
      /\ \A i \in 1..Len(Content[b]) - 1 : InOrder(b)[i] = Content[b][i + 1]
      /\ InOrder(b)[Len(Content[b])] = Content[b][1]
  BY OrderFacts
<1>2. ASSUME NEW t \in ToSet(Content[b]) PROVE ContentOK(t)
  <2>1. /\ t.ins \in Seq(ToSet(t.ins))
        /\ t.outs \in Seq([value : Nat, burn : BOOLEAN])
        /\ t.envs \in Seq(ToSet(t.envs))
        /\ \A e \in ToSet(t.envs) : e.input \in Nat /\ (e.pointer = None \/ e.pointer \in Nat)
    BY ContentAssumption
  <2>2. IsSeq(t.ins) /\ IsSeq(t.envs) /\ IsSeq(t.outs)
    BY <2>1, SeqOver DEF IsSeq
  <2>3. \A v \in DOMAIN t.outs : t.outs[v].value \in Nat
    <3>. DEFINE O == t.outs
                R == [value : Nat, burn : BOOLEAN]
    <3>1. O \in Seq(R)
      BY <2>1
    <3>. HIDE DEF O, R
    <3>2. \A v \in DOMAIN O : O[v] \in R
      BY <3>1
    <3>. USE DEF R
    <3>3. \A v \in DOMAIN O : O[v].value \in Nat
      BY <3>2
    <3>. QED BY <3>3 DEF O
  <2>4. \A k \in DOMAIN t.envs : t.envs[k] \in ToSet(t.envs)
    BY DEF ToSet
  <2>. QED BY <2>1, <2>2, <2>3, <2>4 DEF ContentOK
<1>3. \A k \in 1..Len(Content[b]) : ContentOK(Content[b][k])
  BY <1>1, <1>2 DEF ToSet
<1>. DEFINE n == Len(Content[b])
<1>. HIDE DEF n
<1>4. ASSUME NEW i \in 1..n PROVE ContentOK(InOrder(b)[i])
  <2>1. CASE i = n
    <3>1. 1 \in 1..n
      BY <1>1 DEF n
    <3>. QED BY <1>1, <1>3, <2>1, <3>1 DEF n
  <2>2. CASE i # n
    <3>1. i \in 1..n - 1 /\ i + 1 \in 1..n
      BY <1>1, <2>2 DEF n
    <3>. QED BY <1>1, <1>3, <3>1 DEF n
  <2>. QED BY <2>1, <2>2
<1>. QED BY <1>1, <1>4 DEF n

\* The transactions of the block in progress.
LEMMA TxsFacts ==
  ASSUME Linked, block # None
  PROVE  /\ block \in Blocks /\ H = Len(chain) /\ H \in Nat
         /\ IsSeq(Txs) /\ Len(Txs) \in Nat /\ Len(Txs) >= 1 /\ DOMAIN Txs = 1..Len(Txs)
         /\ \A i, j \in 1..Len(Txs) : Txs[i].id = Txs[j].id => i = j
         /\ \A i \in 1..Len(Txs) : ContentOK(Txs[i])
         /\ TxIds(block) = {Txs[i].id : i \in 1..Len(Txs)}
         /\ Known(Len(chain)) \cap TxIds(block) = {}
<1>1. block \in Blocks /\ H = Len(chain) /\ H \in Nat
  BY DEF Linked, H
<1>2. \A i \in 1..Len(chain) : chain[i] \in Lineage[block] /\ chain[i] # block
  BY <1>1 DEF Linked, H
<1>3. Known(Len(chain)) \cap TxIds(block) = {}
  BY <1>1, <1>2, DifferentIds DEF Known
<1>. QED BY <1>1, <1>3, OrderFacts, DifferentIds, ContentFacts DEF Txs

LEMMA PaidFacts ==
  ASSUME NEW t, ContentOK(t)
  PROVE  /\ Len(t.outs) \in Nat /\ DOMAIN t.outs = 1..Len(t.outs) /\ ValueOf(t.outs, 0) = 0
         /\ \A n \in 0..Len(t.outs) : /\ ValueOf(t.outs, n) \in Nat
                                      /\ ValueOf(t.outs, n) <= ValueOf(t.outs, Len(t.outs))
         /\ \A n \in 1..Len(t.outs) : /\ t.outs[n].value \in Nat
                                      /\ ValueOf(t.outs, n) = ValueOf(t.outs, n - 1) + t.outs[n].value
<1>1. /\ Len(t.outs) \in Nat /\ DOMAIN t.outs = 1..Len(t.outs)
      /\ \A n \in 1..Len(t.outs) : t.outs[n].value \in Nat
  BY SeqFacts DEF ContentOK
<1>2. ASSUME NEW n \in 1..Len(t.outs)
      PROVE  ValueOf(t.outs, n) = ValueOf(t.outs, n - 1) + t.outs[n].value
  <2>1. n - 1 \in Nat /\ (n - 1) + 1 = n
    BY <1>1
  <2>2. ValueOf(t.outs, (n - 1) + 1) = ValueOf(t.outs, n - 1) + t.outs[(n - 1) + 1].value
    BY <2>1, ValueStep
  <2>. QED BY <2>1, <2>2
<1>. QED BY <1>1, <1>2, ValueStep, ValueGrows

-----------------------------------------------------------------------------
(* Bounded sets of numbers                                                   *)

LEMMA BoundedSubset ==
  ASSUME NEW n \in Nat, NEW S \in SUBSET (0..n)
  PROVE  Bounded(S)
<1>. DEFINE U == {m \in Nat : S \subseteq 0..m}
<1>1. U \in SUBSET Nat /\ n \in U
  OBVIOUS
<1>2. PICK m \in U : \A k \in U : m <= k
  <2>. HIDE DEF U
  <2>. QED BY <1>1, LeastExists
<1>3. m \in {0} \cup S
  <2>. SUFFICES ASSUME m # 0, m \notin S PROVE FALSE
    OBVIOUS
  <2>1. m - 1 \in Nat /\ S \subseteq 0..m - 1
    OBVIOUS
  <2>2. m - 1 \in U
    BY <2>1
  <2>. QED BY <1>2, <2>2
<1>. QED BY <1>3 DEF Bounded

LEMMA BoundedFacts ==
  /\ \A S, R : Bounded(S) /\ R \subseteq S => Bounded(R)
  /\ \A S : \A x \in Nat : Bounded(S) => Bounded(S \cup {x})
  /\ \A S : Bounded(S) /\ S # {} => /\ Max(S) \in S /\ Max(S) \in Nat
                                    /\ \A x \in S : x \in Nat /\ x <= Max(S)
<1>1. ASSUME NEW S, NEW R, Bounded(S), R \subseteq S PROVE Bounded(R)
  <2>1. PICK n \in Nat : S \subseteq 0..n
    BY <1>1 DEF Bounded
  <2>. QED BY <1>1, <2>1, BoundedSubset
<1>2. ASSUME NEW S, NEW x \in Nat, Bounded(S) PROVE Bounded(S \cup {x})
  <2>1. PICK n \in Nat : S \subseteq 0..n
    BY <1>2 DEF Bounded
  <2>2. n + x \in Nat /\ S \cup {x} \subseteq 0..n + x
    BY <2>1
  <2>. QED BY <2>2, BoundedSubset
<1>3. ASSUME NEW S, Bounded(S), S # {}
      PROVE  /\ Max(S) \in S /\ Max(S) \in Nat
             /\ \A x \in S : x \in Nat /\ x <= Max(S)
  <2>1. PICK n \in {0} \cup S : n \in Nat /\ S \subseteq 0..n
    BY <1>3 DEF Bounded
  <2>2. \E m \in S : \A y \in S : m >= y
    <3>1. CASE n \in S
      BY <2>1, <3>1
    <3>2. CASE n \notin S
      <4>1. n = 0 /\ S \subseteq 0..0
        BY <2>1, <3>2
      <4>2. PICK x : x \in S
        BY <1>3
      <4>3. x = 0
        BY <4>1, <4>2
      <4>. QED BY <3>2, <4>1, <4>2, <4>3
    <3>. QED BY <3>1, <3>2
  <2>3. Max(S) \in S /\ \A y \in S : Max(S) >= y
    <3>. DEFINE Q(m) == m \in S /\ \A y \in S : m >= y
    <3>1. Max(S) = CHOOSE m : Q(m)
      BY DEF Max
    <3>2. \E m : Q(m)
      BY <2>2
    <3>3. Q(Max(S))
      <4>. HIDE DEF Q
      <4>. QED BY <3>1, <3>2
    <3>. QED BY <3>3
  <2>4. \A x \in S : x \in Nat
    BY <2>1
  <2>. HIDE DEF Max
  <2>. QED BY <2>3, <2>4
<1>. QED BY <1>1, <1>2, <1>3
-----------------------------------------------------------------------------
(* The frame at the beginning and in the middle of a transaction             *)

LEMMA InitFrame == ASSUME Init PROVE Frame
<1>0. Bounded({})
  BY BoundedSubset
<1>1. Types
  <2>1. DOMAIN tab.entries = {} /\ DOMAIN tab.utxo = {}
    BY DEF Init, NoTables
  <2>2. TabOK(tab)
    BY <1>0, <2>1 DEF Init, TabOK, TabShape, NoTables, NoStats, StatsOK, EntriesOK
  <2>3. StagedOK(staged)
    BY DEF Init, StagedOK, StagedShape, NoStaged, RecordOK, RecordShape, NoRecord, NoStats, StatsOK, EntriesOK
  <2>4. SavedOK(saved)
    BY DEF Init, SavedOK, SavedShape, NoSaved
  <2>5. CursorOK(cursor) /\ PastOK(past)
    BY DEF Init, CursorOK, NoCursor, PastOK
  <2>. QED BY <2>2, <2>3, <2>4, <2>5 DEF Init, Types
<1>2. Linked
  BY DEF Init, Linked
<1>3. Control
  BY DEF Init, Control, NoStaged, NoSaved, Indexing, InTx
<1>4. Pending
  BY DEF Init, Pending, NoSaved, InTx
<1>5. Counts
  BY DEF Init, Counts, NoSaved, InTx
<1>6. Balanced
  BY DEF Init, Balanced, Indexing
<1>. QED BY <1>1, <1>2, <1>3, <1>4, <1>5, <1>6 DEF Frame

\* Most steps leave the chain alone.
LEMMA LinkedStays ==
  ASSUME Linked, UNCHANGED <<chain, block, records>>, DOMAIN past.tab = (DOMAIN past.tab)'
  PROVE  Linked' /\ Txs' = Txs /\ H' = H
  BY DEF Linked, Txs, InOrder, H

\* In the middle of a transaction.
LEMMA InTxFacts ==
  ASSUME Frame, tx # Absent
  PROVE  /\ run # Absent /\ TxOK(tx) /\ RunOK(run) /\ Indexing /\ InTx /\ block # None
         /\ At = run /\ Work = tx /\ Accounts = run
         /\ This = T /\ (IsLast <=> Coinbase) /\ InputCount = Inputs
         /\ Len(Txs) \in Nat /\ run.tx \in 1..Len(Txs) /\ ContentOK(T)
<1>1. run # Absent /\ Indexing /\ InTx
  BY DEF Frame, Control, InTx
<1>2. TxOK(tx) /\ RunOK(run)
  BY <1>1 DEF Frame, Types
<1>3. At = run /\ Work = tx /\ Accounts = run
  BY <1>1 DEF At, Work, Accounts
<1>4. This = T /\ (IsLast <=> Coinbase) /\ InputCount = Inputs
  BY <1>3 DEF This, T, IsLast, Coinbase, InputCount, Inputs
<1>5. block # None
  BY <1>1 DEF Indexing
<1>6. Len(Txs) \in Nat /\ \A i \in 1..Len(Txs) : ContentOK(Txs[i])
  BY <1>5, TxsFacts DEF Frame
<1>7. run.tx \in 1..Len(Txs)
  BY <1>1, <1>2, <1>3, <1>6 DEF Frame, Control, RunOK
<1>. QED BY <1>1, <1>2, <1>3, <1>4, <1>5, <1>6, <1>7 DEF T

\* A step within a transaction, seen from the state after it.
LEMMA InTxAfter ==
  ASSUME UNCHANGED <<chain, block>>, staged'.state = staged.state, run' # Absent, tx' # Absent, run'.tx = run.tx,
         run # Absent, tx # Absent
  PROVE  /\ InTx' /\ At' = run' /\ Work' = tx' /\ Accounts' = run' /\ Indexing' = Indexing
         /\ Txs' = Txs /\ This' = T /\ (IsLast' <=> Coinbase) /\ InputCount' = Inputs
         /\ PaidOut' = ValueOf(T.outs, Len(T.outs))
         /\ \A n : Paid(n)' = ValueOf(T.outs, n)
  BY DEF InTx, At, Work, Accounts, Indexing, Txs, InOrder, This, T, IsLast, Coinbase,
         InputCount, Inputs, PaidOut, Paid

-----------------------------------------------------------------------------
(* Outputs                                                                   *)

LEMMA PlaceFrame == ASSUME Frame, Place PROVE Frame'
<1>1. /\ tx # Absent /\ tx.phase = "outputs" /\ tx.queue # << >>
      /\ tx' = [tx EXCEPT !.located = Append(tx.located, [flotsam |-> Head(tx.queue), out |-> tx.out,
                              offset |-> Head(tx.queue).offset - tx.outValue]),
                          !.queue = Tail(tx.queue)]
      /\ UNCHANGED <<chain, tab, records, block, cursor, staged, saved, run, past>>
  BY DEF Place, Placeable, AtOutputs
<1>2. /\ run # Absent /\ TxOK(tx) /\ RunOK(run) /\ Indexing /\ InTx /\ block # None
      /\ At = run /\ Work = tx /\ Accounts = run
      /\ This = T /\ (IsLast <=> Coinbase) /\ InputCount = Inputs
      /\ Len(Txs) \in Nat /\ run.tx \in 1..Len(Txs) /\ ContentOK(T)
  BY <1>1, InTxFacts
<1>3. Ready(tx.queue, tx.outValue)
  BY <1>1 DEF Frame, Counts
<1>4. /\ Head(tx.queue) = tx.queue[1] /\ Ready(Tail(tx.queue), tx.outValue)
      /\ FlotsamOK(tx.queue[1]) /\ tx.outValue <= tx.queue[1].offset
  BY <1>1, <1>3, TailReady
<1>. DEFINE l == [flotsam |-> Head(tx.queue), out |-> tx.out,
                  offset |-> Head(tx.queue).offset - tx.outValue]
            located == Append(tx.located, l)
            queue == Tail(tx.queue)
<1>5. LocationOK(l)
  <2>1. tx.outValue \in Nat /\ tx.queue[1].offset \in Nat
    BY <1>2, <1>4 DEF TxOK, FlotsamOK
  <2>. QED BY <1>4, <2>1 DEF LocationOK
<1>. HIDE DEF l
<1>6. Landed(located)
  BY <1>2, <1>5, AppendLanded DEF TxOK
<1>7. Ready(queue, tx.outValue) /\ Flotsams(queue)
  BY <1>4 DEF Ready
<1>8. tx' = [tx EXCEPT !.located = located, !.queue = queue]
  BY <1>1 DEF l
<1>. HIDE DEF located, queue
<1>9. /\ TxOK(tx') /\ tx' # Absent
      /\ tx'.phase = "outputs" /\ tx'.ins = tx.ins /\ tx'.outs = tx.outs
      /\ tx'.inSats = tx.inSats /\ tx'.inValue = tx.inValue /\ tx'.outValue = tx.outValue
      /\ tx'.out = tx.out /\ tx'.loc = tx.loc /\ tx'.queue = queue /\ tx'.located = located
  <2>1. TxShape(tx)
    BY <1>2 DEF TxOK
  <2>2. /\ TxShape(tx') /\ "phase" \in DOMAIN tx'
        /\ tx'.phase = tx.phase /\ tx'.ins = tx.ins /\ tx'.outs = tx.outs
        /\ tx'.inSats = tx.inSats /\ tx'.inValue = tx.inValue /\ tx'.outValue = tx.outValue
        /\ tx'.floating = tx.floating /\ tx'.offsets = tx.offsets /\ tx'.id = tx.id
        /\ tx'.out = tx.out /\ tx'.loc = tx.loc /\ tx'.queue = queue /\ tx'.located = located
    BY <1>8, <2>1 DEF TxShape
  <2>3. tx' # Absent
    BY <2>2, HasFields
  <2>. QED BY <1>1, <1>2, <1>6, <1>7, <2>2, <2>3 DEF TxOK, WorkOK
<1>10. /\ InTx' /\ At' = run /\ Work' = tx' /\ Accounts' = run /\ Indexing' = Indexing
       /\ Txs' = Txs /\ This' = T /\ (IsLast' <=> Coinbase) /\ InputCount' = Inputs
       /\ PaidOut' = ValueOf(T.outs, Len(T.outs))
       /\ \A n : Paid(n)' = ValueOf(T.outs, n)
  BY <1>1, <1>2, <1>9, InTxAfter
<1>11. Types'
  BY <1>1, <1>9 DEF Frame, Types
<1>12. Linked'
  BY <1>1, LinkedStays DEF Frame
<1>13. Control'
  BY <1>1, <1>2, <1>9, <1>10 DEF Frame, Control, Resumes
<1>14. Pending'
  BY <1>1, <1>2, <1>9, <1>10 DEF Frame, Pending, Resumes
<1>15. Counts'
  BY <1>1, <1>2, <1>7, <1>9, <1>10 DEF Frame, Counts, Resumes, PaidOut, Paid
<1>16. Balanced'
  BY <1>1, <1>2, <1>9, <1>10 DEF Frame, Balanced, PaidOut, Paid
<1>. QED BY <1>11, <1>12, <1>13, <1>14, <1>15, <1>16 DEF Frame
LEMMA NextOutputFrame == ASSUME Frame, NextOutput PROVE Frame'
<1>. DEFINE w == tx.outValue + T.outs[tx.out].value
<1>1. /\ run # Absent /\ tx # Absent /\ tx.phase = "outputs" /\ tx.out <= Len(T.outs) /\ ~Placeable
      /\ tx' = [tx EXCEPT !.outValue = w, !.out = tx.out + 1]
      /\ UNCHANGED <<chain, tab, records, block, cursor, staged, saved, run, past>>
  BY DEF NextOutput, AtOutputs
<1>2. /\ run # Absent /\ TxOK(tx) /\ RunOK(run) /\ Indexing /\ InTx /\ block # None
      /\ At = run /\ Work = tx /\ Accounts = run
      /\ This = T /\ (IsLast <=> Coinbase) /\ InputCount = Inputs
      /\ Len(Txs) \in Nat /\ run.tx \in 1..Len(Txs) /\ ContentOK(T)
  BY <1>1, InTxFacts
<1>3. /\ Ready(tx.queue, tx.outValue) /\ tx.out \in 1..Len(T.outs)
      /\ tx.outValue = ValueOf(T.outs, tx.out - 1)
  <2>1. /\ Ready(tx.queue, tx.outValue) /\ tx.out \in 1..Len(T.outs) + 1
        /\ tx.outValue = ValueOf(T.outs, tx.out - 1)
    BY <1>1, <1>2 DEF Frame, Counts, Paid
  <2>2. Len(T.outs) \in Nat
    BY <1>2, PaidFacts
  <2>. QED BY <1>1, <2>1, <2>2
<1>4. w = ValueOf(T.outs, tx.out) /\ w \in Nat
  BY <1>2, <1>3, PaidFacts
<1>5. Ready(tx.queue, w)
  <2>1. tx.queue # << >> => ~(Head(tx.queue).offset < w)
    BY <1>1 DEF Placeable, AtOutputs
  <2>2. tx.queue # << >> => Head(tx.queue).offset \in Nat
    BY <1>3, TailReady DEF FlotsamOK
  <2>. HIDE DEF w
  <2>3. tx.queue # << >> => w <= Head(tx.queue).offset
    BY <1>4, <2>1, <2>2
  <2>. QED BY <1>3, <1>4, <2>3, ReadyLater
<1>. HIDE DEF w
<1>6. /\ TxOK(tx') /\ tx' # Absent
      /\ tx'.phase = "outputs" /\ tx'.ins = tx.ins /\ tx'.outs = tx.outs
      /\ tx'.inSats = tx.inSats /\ tx'.inValue = tx.inValue /\ tx'.outValue = w
      /\ tx'.out = tx.out + 1 /\ tx'.loc = tx.loc /\ tx'.queue = tx.queue
      /\ tx'.located = tx.located
  <2>1. TxShape(tx)
    BY <1>2 DEF TxOK
  <2>2. /\ TxShape(tx') /\ "phase" \in DOMAIN tx'
        /\ tx'.phase = tx.phase /\ tx'.ins = tx.ins /\ tx'.outs = tx.outs
        /\ tx'.inSats = tx.inSats /\ tx'.inValue = tx.inValue /\ tx'.outValue = w
        /\ tx'.floating = tx.floating /\ tx'.offsets = tx.offsets /\ tx'.id = tx.id
        /\ tx'.out = tx.out + 1 /\ tx'.loc = tx.loc /\ tx'.queue = tx.queue
        /\ tx'.located = tx.located
    BY <1>1, <2>1 DEF TxShape
  <2>3. tx' # Absent
    BY <2>2, HasFields
  <2>. QED BY <1>1, <1>2, <1>4, <2>2, <2>3 DEF TxOK, WorkOK
<1>7. /\ InTx' /\ At' = run /\ Work' = tx' /\ Accounts' = run /\ Indexing' = Indexing
      /\ Txs' = Txs /\ This' = T /\ (IsLast' <=> Coinbase) /\ InputCount' = Inputs
      /\ PaidOut' = ValueOf(T.outs, Len(T.outs))
      /\ \A n : Paid(n)' = ValueOf(T.outs, n)
  BY <1>1, <1>2, <1>6, InTxAfter
<1>8. tx'.out \in 1..Len(T.outs) + 1 /\ tx'.outValue = ValueOf(T.outs, tx'.out - 1)
  <2>1. Len(T.outs) \in Nat /\ tx'.out - 1 = tx.out
    BY <1>2, <1>3, <1>6, PaidFacts
  <2>. QED BY <1>3, <1>4, <1>6, <2>1
<1>11. Types'
  BY <1>1, <1>6 DEF Frame, Types
<1>12. Linked'
  BY <1>1, LinkedStays DEF Frame
<1>13. Control'
  BY <1>1, <1>2, <1>6, <1>7 DEF Frame, Control, Resumes
<1>14. Pending'
  BY <1>1, <1>2, <1>6, <1>7 DEF Frame, Pending, Resumes
<1>15. Counts'
  BY <1>1, <1>2, <1>5, <1>6, <1>7, <1>8 DEF Frame, Counts, Resumes, PaidOut, Paid
<1>16. Balanced'
  BY <1>1, <1>2, <1>6, <1>7 DEF Frame, Balanced, PaidOut, Paid
<1>. QED BY <1>11, <1>12, <1>13, <1>14, <1>15, <1>16 DEF Frame

LEMMA FinishOutputsFrame == ASSUME Frame, FinishOutputs PROVE Frame'
<1>1. /\ run # Absent /\ tx # Absent /\ tx.phase = "outputs" /\ tx.out > Len(T.outs)
      /\ tx' = IF saved.in3 = Absent THEN [tx EXCEPT !.phase = "locations"]
               ELSE [tx EXCEPT !.phase = "locations", !.located = saved.in3.located,
                               !.outValue = saved.in3.outValue, !.inValue = saved.in3.inValue,
                               !.queue = saved.in3.queue, !.loc = saved.in3.loc]
      /\ saved' = [saved EXCEPT !.in2 = Absent]
      /\ UNCHANGED <<chain, tab, records, block, cursor, staged, run, past>>
  BY DEF FinishOutputs, AtOutputs
<1>2. /\ run # Absent /\ TxOK(tx) /\ RunOK(run) /\ Indexing /\ InTx /\ block # None
      /\ At = run /\ Work = tx /\ Accounts = run
      /\ This = T /\ (IsLast <=> Coinbase) /\ InputCount = Inputs
      /\ Len(Txs) \in Nat /\ run.tx \in 1..Len(Txs) /\ ContentOK(T)
  BY <1>1, InTxFacts
<1>3. SavedOK(saved) /\ SavedShape(saved)
  BY DEF Frame, Types, SavedOK
<1>4. /\ SavedOK(saved') /\ saved'.block = saved.block /\ saved'.tx = saved.tx
      /\ saved'.in1 = saved.in1 /\ saved'.in2 = Absent /\ saved'.in3 = saved.in3
  <2>1. /\ SavedShape(saved') /\ saved'.block = saved.block /\ saved'.tx = saved.tx
        /\ saved'.in1 = saved.in1 /\ saved'.in2 = Absent /\ saved'.in3 = saved.in3
    BY <1>1, <1>3 DEF SavedShape
  <2>. QED BY <1>3, <2>1 DEF SavedOK
<1>5. /\ TxShape(tx') /\ "phase" \in DOMAIN tx'
      /\ tx'.phase = "locations" /\ tx'.ins = tx.ins /\ tx'.outs = tx.outs
      /\ tx'.inSats = tx.inSats /\ tx'.floating = tx.floating /\ tx'.id = tx.id
      /\ IF saved.in3 = Absent
         THEN /\ tx'.inValue = tx.inValue /\ tx'.outValue = tx.outValue /\ tx'.loc = tx.loc
              /\ tx'.queue = tx.queue /\ tx'.located = tx.located
         ELSE /\ tx'.inValue = saved.in3.inValue /\ tx'.outValue = saved.in3.outValue
              /\ tx'.loc = saved.in3.loc
              /\ tx'.queue = saved.in3.queue /\ tx'.located = saved.in3.located
  BY <1>1, <1>2 DEF TxOK, TxShape
<1>6. PaidOut = ValueOf(T.outs, Len(T.outs)) /\ PaidOut \in Nat /\ Len(T.outs) \in Nat
  <2>1. PaidOut = ValueOf(T.outs, Len(T.outs)) /\ Len(T.outs) \in Nat
    BY <1>2, PaidFacts DEF PaidOut, Paid
  <2>. QED BY <1>2, <2>1, PaidFacts
<1>7. /\ tx'.outValue = ValueOf(T.outs, Len(T.outs)) /\ Ready(tx'.queue, tx'.outValue)
      /\ ~Coinbase => tx'.inValue = Len(tx.inSats)
      /\ Landed(tx'.located) /\ tx'.inValue \in Nat /\ tx'.loc \in Nat \ {0}
  <2>1. CASE saved.in3 = Absent
    <3>1. tx.out = Len(T.outs) + 1 /\ tx.outValue = ValueOf(T.outs, tx.out - 1)
      BY <1>1, <1>2, <1>6 DEF Frame, Counts, Paid
    <3>2. tx.outValue = ValueOf(T.outs, Len(T.outs))
      BY <1>6, <3>1
    <3>. QED BY <1>1, <1>2, <1>5, <2>1, <3>2 DEF Frame, Counts, TxOK
  <2>2. CASE saved.in3 # Absent
    BY <1>2, <1>3, <1>5, <1>6, <2>2 DEF Frame, Counts, SavedOK
  <2>. QED BY <2>1, <2>2
<1>8. TxOK(tx') /\ tx' # Absent
  <2>1. tx' # Absent
    BY <1>5, HasFields
  <2>. QED BY <1>2, <1>5, <1>6, <1>7, <2>1 DEF TxOK, WorkOK, Ready
<1>9. /\ InTx' /\ At' = run /\ Work' = tx' /\ Accounts' = run /\ Indexing' = Indexing
      /\ Txs' = Txs /\ This' = T /\ (IsLast' <=> Coinbase) /\ InputCount' = Inputs
      /\ PaidOut' = ValueOf(T.outs, Len(T.outs))
      /\ \A n : Paid(n)' = ValueOf(T.outs, n)
  BY <1>1, <1>2, <1>8, InTxAfter
<1>11. Types'
  BY <1>1, <1>4, <1>8 DEF Frame, Types
<1>12. Linked'
  BY <1>1, LinkedStays DEF Frame
<1>13. Control'
  BY <1>1, <1>2, <1>4, <1>5, <1>8, <1>9 DEF Frame, Control, Resumes
<1>14. Pending'
  BY <1>1, <1>2, <1>4, <1>5, <1>8, <1>9 DEF Frame, Pending, Resumes
<1>15. Counts'
  BY <1>1, <1>2, <1>4, <1>5, <1>7, <1>8, <1>9 DEF Frame, Counts, Resumes, PaidOut, Paid
<1>16. Balanced'
  BY <1>1, <1>2, <1>5, <1>9 DEF Frame, Balanced, PaidOut, Paid
<1>. QED BY <1>11, <1>12, <1>13, <1>14, <1>15, <1>16 DEF Frame

LEMMA FinishLocationsFrame == ASSUME Frame, FinishLocations PROVE Frame'
<1>1. /\ run # Absent /\ tx # Absent /\ tx.phase = "locations"
      /\ tx' = [tx EXCEPT !.phase = "rest"]
      /\ saved' = [saved EXCEPT !.in3 = Absent]
      /\ UNCHANGED <<chain, tab, records, block, cursor, staged, run, past>>
  BY DEF FinishLocations, AtLocations
<1>2. /\ run # Absent /\ TxOK(tx) /\ RunOK(run) /\ Indexing /\ InTx /\ block # None
      /\ At = run /\ Work = tx /\ Accounts = run
      /\ This = T /\ (IsLast <=> Coinbase) /\ InputCount = Inputs
      /\ Len(Txs) \in Nat /\ run.tx \in 1..Len(Txs) /\ ContentOK(T)
  BY <1>1, InTxFacts
<1>3. SavedOK(saved) /\ SavedShape(saved)
  BY DEF Frame, Types, SavedOK
<1>4. /\ SavedOK(saved') /\ saved'.block = saved.block /\ saved'.tx = saved.tx
      /\ saved'.in1 = saved.in1 /\ saved'.in2 = saved.in2 /\ saved'.in3 = Absent
  <2>1. /\ SavedShape(saved') /\ saved'.block = saved.block /\ saved'.tx = saved.tx
        /\ saved'.in1 = saved.in1 /\ saved'.in2 = saved.in2 /\ saved'.in3 = Absent
    BY <1>1, <1>3 DEF SavedShape
  <2>. QED BY <1>3, <2>1 DEF SavedOK
<1>5. /\ TxShape(tx') /\ "phase" \in DOMAIN tx'
      /\ tx'.phase = "rest" /\ tx'.ins = tx.ins /\ tx'.outs = tx.outs
      /\ tx'.inSats = tx.inSats /\ tx'.floating = tx.floating /\ tx'.id = tx.id
      /\ tx'.inValue = tx.inValue /\ tx'.outValue = tx.outValue /\ tx'.loc = tx.loc
      /\ tx'.queue = tx.queue /\ tx'.located = tx.located
  BY <1>1, <1>2 DEF TxOK, TxShape
<1>8. TxOK(tx') /\ tx' # Absent
  <2>1. tx' # Absent
    BY <1>5, HasFields
  <2>. QED BY <1>2, <1>5, <2>1 DEF TxOK, WorkOK
<1>9. /\ InTx' /\ At' = run /\ Work' = tx' /\ Accounts' = run /\ Indexing' = Indexing
      /\ Txs' = Txs /\ This' = T /\ (IsLast' <=> Coinbase) /\ InputCount' = Inputs
      /\ PaidOut' = ValueOf(T.outs, Len(T.outs))
      /\ \A n : Paid(n)' = ValueOf(T.outs, n)
  BY <1>1, <1>2, <1>8, InTxAfter
<1>11. Types'
  BY <1>1, <1>4, <1>8 DEF Frame, Types
<1>12. Linked'
  BY <1>1, LinkedStays DEF Frame
<1>13. Control'
  BY <1>1, <1>2, <1>4, <1>5, <1>8, <1>9 DEF Frame, Control, Resumes
<1>14. Pending'
  BY <1>1, <1>2, <1>4, <1>5, <1>8, <1>9 DEF Frame, Pending, Resumes
<1>15. Counts'
  BY <1>1, <1>2, <1>4, <1>5, <1>8, <1>9 DEF Frame, Counts, Resumes, PaidOut, Paid
<1>16. Balanced'
  BY <1>1, <1>2, <1>5, <1>9 DEF Frame, Balanced, PaidOut, Paid
<1>. QED BY <1>11, <1>12, <1>13, <1>14, <1>15, <1>16 DEF Frame
-----------------------------------------------------------------------------
(* Inputs                                                                    *)

LEMMA SortedSame ==
  ASSUME NEW S, NEW s, IsSeq(s), \A i \in DOMAIN s : s[i] \in S,
         NEW key, \A i \in DOMAIN s : key[i] \in Int
  PROVE  Sorted(s, key) \in Seq(S)
<1>2. PICK p : Sorts(p, key, Len(s)) /\ Sorted(s, key) = [i \in 1..Len(s) |-> s[p[i]]]
  BY SortedIs
<1>. DEFINE n == Len(s)
            q == Sorted(s, key)
<1>1. n \in Nat /\ DOMAIN s = 1..n
  BY SeqFacts
<1>3. Sorts(p, key, n) /\ q = [i \in 1..n |-> s[p[i]]]
  BY <1>2
<1>. HIDE DEF q, n
<1>4. \A i \in 1..n : s[p[i]] \in S
  BY <1>1, <1>3 DEF Sorts
<1>5. q \in [1..n -> S]
  BY <1>3, <1>4
<1>6. q \in Seq(S)
  BY <1>1, <1>5, SeqDef
<1>. QED BY <1>6 DEF q

LEMMA SortedPairs ==
  ASSUME NEW s \in Seq(Nat \X Nat)
  PROVE  Sorted(s, [i \in DOMAIN s |-> s[i][1]]) \in Seq(Nat \X Nat)
<1>. DEFINE key == [i \in DOMAIN s |-> s[i][1]]
            S == Nat \X Nat
<1>1. IsSeq(s) /\ (\A i \in DOMAIN s : s[i] \in S) /\ (\A i \in DOMAIN s : key[i] \in Int)
  BY SeqOver
<1>. HIDE DEF key, S
<1>2. Sorted(s, key) \in Seq(S)
  BY <1>1, SortedSame
<1>. QED BY <1>2 DEF key, S

\* At an input of a transaction.
LEMMA AtInputFacts ==
  ASSUME Frame, AtInput
  PROVE  /\ ~Resumes /\ run.input \in 1..Inputs /\ Inputs \in Nat
         /\ Moved \in Seq(Nat \X Nat)
         /\ ~Coinbase => /\ Len(tx.ins) = Inputs /\ EntryOK(tx.ins[run.input])
                         /\ tx.inValue = Len(SatsOf(tx.ins, run.input - 1))
<1>1. run # Absent /\ tx # Absent /\ tx.phase = "inputs" /\ run.input <= Inputs
  BY DEF AtInput
<1>2. /\ TxOK(tx) /\ RunOK(run) /\ InTx /\ At = run /\ Work = tx
      /\ This = T /\ (IsLast <=> Coinbase) /\ InputCount = Inputs /\ ContentOK(T)
  BY <1>1, InTxFacts
<1>3. Len(T.ins) \in Nat /\ Inputs \in Nat
  BY <1>2, SeqFacts DEF ContentOK, Inputs
<1>4. ~Resumes
  BY <1>1, <1>2, <1>3 DEF Frame, Control, RunOK
<1>5. run.input \in 1..Inputs
  BY <1>1, <1>2, <1>3 DEF RunOK
<1>6. ASSUME ~Coinbase
      PROVE  /\ Len(tx.ins) = Inputs /\ EntryOK(tx.ins[run.input])
             /\ tx.inValue = Len(SatsOf(tx.ins, run.input - 1))
  <2>1. Len(tx.ins) = Len(T.ins) /\ Inputs = Len(T.ins)
    BY <1>2, <1>6 DEF Frame, Counts, Inputs
  <2>2. DOMAIN tx.ins = 1..Len(tx.ins)
    BY <1>2, SeqFacts DEF TxOK, WorkOK
  <2>3. EntryOK(tx.ins[run.input])
    BY <1>2, <1>5, <2>1, <2>2 DEF TxOK, WorkOK
  <2>4. tx.inValue = Len(SatsOf(tx.ins, run.input - 1))
    BY <1>1, <1>2, <1>4, <1>6 DEF Frame, Counts
  <2>. QED BY <2>1, <2>3, <2>4
<1>7. Moved \in Seq(Nat \X Nat)
  <2>1. CASE Coinbase
    BY <2>1 DEF Moved
  <2>2. CASE ~Coinbase
    <3>. DEFINE ins == tx.ins[run.input].ins
    <3>1. ins \in Seq(Nat \X Nat)
      BY <1>6, <2>2 DEF EntryOK
    <3>2. Moved = Sorted(ins, [i \in DOMAIN ins |-> ins[i][1]])
      BY <2>2 DEF Moved
    <3>. HIDE DEF ins
    <3>. QED BY <3>1, <3>2, SortedPairs
  <2>. QED BY <2>1, <2>2
<1>. QED BY <1>3, <1>4, <1>5, <1>6, <1>7

LEMMA TakeFrame == ASSUME Frame, Take PROVE Frame'
<1>. DEFINE m == Moved[run.inscription]
            f == [id |-> tab.entries[m[1]].id, offset |-> tx.inValue + m[2],
                  seq |-> m[1], new |-> Absent]
            floating == Append(tx.floating, f)
            offsets == Counted(tx.offsets, tx.inValue + m[2], tab.entries[m[1]].id)
<1>1. /\ AtInput /\ run.inscription <= Len(Moved) /\ m[1] \in DOMAIN tab.entries
      /\ tx' = [tx EXCEPT !.floating = floating, !.offsets = offsets]
      /\ run' = [run EXCEPT !.inscription = run.inscription + 1]
      /\ UNCHANGED <<chain, tab, records, block, cursor, staged, saved, past>>
  BY DEF Take
<1>2. /\ run # Absent /\ TxOK(tx) /\ RunOK(run) /\ Indexing /\ InTx /\ block # None
      /\ At = run /\ Work = tx /\ Accounts = run
      /\ This = T /\ (IsLast <=> Coinbase) /\ InputCount = Inputs
      /\ Len(Txs) \in Nat /\ run.tx \in 1..Len(Txs) /\ ContentOK(T)
      /\ tx # Absent /\ tx.phase = "inputs"
  BY <1>1, InTxFacts DEF AtInput
<1>3. ~Resumes /\ m \in Nat \X Nat
  <2>1. ~Resumes /\ Moved \in Seq(Nat \X Nat)
    BY <1>1, AtInputFacts
  <2>2. run.inscription \in 1..Len(Moved)
    BY <1>1, <1>2, <2>1 DEF RunOK
  <2>3. \A i \in 1..Len(Moved) : Moved[i] \in Nat \X Nat
    BY <2>1
  <2>. QED BY <2>1, <2>2, <2>3
<1>. HIDE DEF m, offsets
<1>4. FlotsamOK(f)
  <2>1. tx.inValue \in Nat /\ m[1] \in Nat /\ m[2] \in Nat
    BY <1>2, <1>3 DEF TxOK
  <2>2. tx.inValue + m[2] \in Nat
    BY <2>1
  <2>. QED BY <2>1, <2>2 DEF FlotsamOK
<1>. HIDE DEF f
<1>5. Flotsams(floating)
  BY <1>2, <1>4, AppendFlotsam DEF TxOK
<1>. HIDE DEF floating
<1>6. /\ TxOK(tx') /\ tx' # Absent
      /\ tx'.phase = tx.phase /\ tx'.ins = tx.ins /\ tx'.outs = tx.outs
      /\ tx'.inSats = tx.inSats /\ tx'.inValue = tx.inValue /\ tx'.outValue = tx.outValue
      /\ tx'.floating = floating
      /\ tx'.out = tx.out /\ tx'.loc = tx.loc /\ tx'.queue = tx.queue
      /\ tx'.located = tx.located
  <2>1. TxShape(tx)
    BY <1>2 DEF TxOK
  <2>2. /\ TxShape(tx') /\ "phase" \in DOMAIN tx'
        /\ tx'.phase = tx.phase /\ tx'.ins = tx.ins /\ tx'.outs = tx.outs
        /\ tx'.inSats = tx.inSats /\ tx'.inValue = tx.inValue /\ tx'.outValue = tx.outValue
        /\ tx'.floating = floating /\ tx'.id = tx.id
        /\ tx'.out = tx.out /\ tx'.loc = tx.loc /\ tx'.queue = tx.queue
        /\ tx'.located = tx.located
    BY <1>1, <2>1 DEF TxShape
  <2>3. tx' # Absent
    BY <2>2, HasFields
  <2>. QED BY <1>2, <1>5, <2>2, <2>3 DEF TxOK, WorkOK
<1>7. /\ RunOK(run') /\ run' # Absent
      /\ run'.tx = run.tx /\ run'.input = run.input /\ run'.flotsam = run.flotsam
      /\ run'.reward = run.reward /\ run'.fees = run.fees
  <2>1. RunShape(run)
    BY <1>2 DEF RunOK
  <2>2. /\ RunShape(run') /\ "tx" \in DOMAIN run'
        /\ run'.tx = run.tx /\ run'.input = run.input
        /\ run'.inscription = run.inscription + 1 /\ run'.next = run.next
        /\ run'.stats = run.stats /\ run'.flotsam = run.flotsam
        /\ run'.reward = run.reward /\ run'.fees = run.fees /\ run'.lost = run.lost
    BY <1>1, <2>1 DEF RunShape
  <2>3. run' # Absent
    BY <2>2, HasFields
  <2>. QED BY <1>2, <2>2, <2>3 DEF RunOK, AccountsOK
<1>8. /\ InTx' /\ At' = run' /\ Work' = tx' /\ Accounts' = run' /\ Indexing' = Indexing
      /\ Txs' = Txs /\ This' = T /\ (IsLast' <=> Coinbase) /\ InputCount' = Inputs
      /\ PaidOut' = ValueOf(T.outs, Len(T.outs))
      /\ \A n : Paid(n)' = ValueOf(T.outs, n)
  BY <1>1, <1>2, <1>6, <1>7, InTxAfter
<1>11. Types'
  BY <1>1, <1>6, <1>7 DEF Frame, Types
<1>12. Linked'
  BY <1>1, LinkedStays DEF Frame
<1>13. Control'
  BY <1>1, <1>2, <1>6, <1>7, <1>8 DEF Frame, Control, Resumes
<1>14. Pending'
  BY <1>1, <1>2, <1>3, <1>6, <1>7, <1>8 DEF Frame, Pending, Resumes
<1>15. Counts'
  BY <1>1, <1>2, <1>6, <1>7, <1>8 DEF Frame, Counts, Resumes, PaidOut, Paid
<1>16. Balanced'
  BY <1>1, <1>2, <1>6, <1>7, <1>8 DEF Frame, Balanced, PaidOut, Paid
<1>. QED BY <1>11, <1>12, <1>13, <1>14, <1>15, <1>16 DEF Frame
\* The envelopes of an input, in the code's order.
EnvelopesHere == IF Coinbase THEN << >> ELSE T.envs
IsReveals(g, n, at, value) ==
  g = [k \in 0..n |->
         IF k = 0 THEN tx
         ELSE IF EnvelopesHere[k].input = run.input
         THEN Reveal(g[k - 1], EnvelopesHere[k], at, value) ELSE g[k - 1]]

LEMMA RevealsExist ==
  ASSUME NEW n \in Nat, NEW at, NEW value
  PROVE  \E g : IsReveals(g, n, at, value)
<1>. DEFINE S == {k \in Nat : \E g : IsReveals(g, k, at, value)}
            step(t, k) == IF EnvelopesHere[k].input = run.input
                          THEN Reveal(t, EnvelopesHere[k], at, value) ELSE t
<1>0. \A g : \A k : IsReveals(g, k, at, value)
                      <=> g = [i \in 0..k |-> IF i = 0 THEN tx ELSE step(g[i - 1], i)]
  BY DEF IsReveals
<1>. HIDE DEF step
<1>1. 0 \in S
  <2>. DEFINE g == [i \in 0..0 |-> tx]
  <2>1. \A i \in 0..0 : g[i] = IF i = 0 THEN tx ELSE step(g[i - 1], i)
    OBVIOUS
  <2>2. g = [i \in 0..0 |-> IF i = 0 THEN tx ELSE step(g[i - 1], i)]
    BY <2>1
  <2>. HIDE DEF g
  <2>3. IsReveals(g, 0, at, value)
    BY <1>0, <2>2
  <2>. QED BY <2>3
<1>2. ASSUME NEW k \in Nat, k \in S PROVE k + 1 \in S
  <2>1. PICK g : IsReveals(g, k, at, value)
    BY <1>2
  <2>. DEFINE h == [i \in 0..k + 1 |-> IF i = k + 1 THEN step(g[k], i) ELSE g[i]]
  <2>2. \A i \in 0..k + 1 : h[i] = IF i = 0 THEN tx ELSE step(h[i - 1], i)
    <3>. SUFFICES ASSUME NEW i \in 0..k + 1
                  PROVE  h[i] = IF i = 0 THEN tx ELSE step(h[i - 1], i)
      OBVIOUS
    <3>1. \A j \in 0..k : g[j] = IF j = 0 THEN tx ELSE step(g[j - 1], j)
      BY <1>0, <2>1
    <3>. QED BY <3>1
  <2>3. h = [i \in 0..k + 1 |-> IF i = 0 THEN tx ELSE step(h[i - 1], i)]
    BY <2>2
  <2>. HIDE DEF h
  <2>4. IsReveals(h, k + 1, at, value)
    BY <1>0, <2>3
  <2>. QED BY <2>4
<1>. HIDE DEF S
<1>3. n \in S
  BY <1>1, <1>2, NatSetInduction
<1>. QED BY <1>3 DEF S

LEMMA RevealedIs ==
  ASSUME NEW at, NEW value, NEW n \in Nat, n = Len(EnvelopesHere)
  PROVE  \E g : IsReveals(g, n, at, value) /\ Revealed(at, value) = g[n]
<1>. DEFINE after[k \in 0..n] ==
              IF k = 0 THEN tx
              ELSE IF EnvelopesHere[k].input = run.input
              THEN Reveal(after[k - 1], EnvelopesHere[k], at, value) ELSE after[k - 1]
<1>1. Revealed(at, value) = after[n]
  BY DEF Revealed, EnvelopesHere
<1>2. IsReveals(after, n, at, value)
  <2>1. after = CHOOSE g : IsReveals(g, n, at, value)
    BY DEF IsReveals
  <2>. HIDE DEF after
  <2>. QED BY <2>1, RevealsExist
<1>. QED BY <1>1, <1>2

\* What u has floating more than t: new inscriptions, with the ids that follow.
Reveals(t, u) ==
  /\ TxShape(u)
  /\ u.phase = t.phase /\ u.ins = t.ins /\ u.outs = t.outs /\ u.inSats = t.inSats
  /\ u.inValue = t.inValue /\ u.located = t.located /\ u.outValue = t.outValue
  /\ u.out = t.out /\ u.queue = t.queue /\ u.loc = t.loc
  /\ u.id \in Nat /\ t.id <= u.id
  /\ Flotsams(u.floating) /\ Len(u.floating) = Len(t.floating) + (u.id - t.id)
  /\ \A i \in 1..Len(t.floating) : u.floating[i] = t.floating[i]
  /\ \A k \in t.id..u.id - 1 : LET f == u.floating[Len(t.floating) + 1 + (k - t.id)]
                               IN f.new # Absent /\ f.id = <<T.id, k>>

LEMMA RevealOne ==
  ASSUME NEW t, t.id \in Nat, NEW u, Reveals(t, u), Len(t.floating) \in Nat,
         NEW e, e.pointer = None \/ e.pointer \in Nat, NEW at \in Nat, NEW value
  PROVE  Reveals(t, Reveal(u, e, at, value))
<1>. DEFINE to == IF e.pointer # None /\ e.pointer < ValueOf(T.outs, Len(T.outs))
                  THEN e.pointer ELSE at
            id == <<T.id, u.id>>
            curse == \/ e.flaw # "none" \/ e.input # 1 \/ e.pointer # None
                     \/ Reinscribes(u.offsets, at)
            new == [cursed |-> curse /\ H < Jubilee, vindicated |-> curse /\ H >= Jubilee,
                    unbound |-> value = 0 \/ e.flaw = "even",
                    reinscription |-> to \in DOMAIN u.offsets, parents |-> e.parents]
            f == [id |-> id, offset |-> to, seq |-> None, new |-> new]
            floating == Append(u.floating, f)
            offsets == Counted(u.offsets, to, id)
            w == Reveal(u, e, at, value)
<1>1. w = [u EXCEPT !.floating = floating, !.offsets = offsets, !.id = u.id + 1]
  BY DEF Reveal
<1>2. to \in Nat
  OBVIOUS
<1>. HIDE DEF to, curse
<1>3. NewOK(new) /\ "parents" \in DOMAIN new
  BY DEF NewOK
<1>. HIDE DEF new, id, w
<1>4. FlotsamOK(f) /\ f.new # Absent /\ f.id = id
  <2>1. new # Absent
    BY <1>3, HasFields
  <2>. QED BY <1>2, <1>3, <2>1 DEF FlotsamOK
<1>. HIDE DEF f, offsets
<1>5. Flotsams(floating) /\ IsAppend(floating, u.floating, f)
  BY <1>4, AppendFlotsam DEF Reveals
<1>. HIDE DEF floating
<1>6. /\ TxShape(w)
      /\ w.phase = u.phase /\ w.ins = u.ins /\ w.outs = u.outs /\ w.inSats = u.inSats
      /\ w.inValue = u.inValue /\ w.located = u.located /\ w.outValue = u.outValue
      /\ w.out = u.out /\ w.queue = u.queue /\ w.loc = u.loc
      /\ w.id = u.id + 1 /\ w.floating = floating
  <2>1. TxShape(u)
    BY DEF Reveals
  <2>. QED BY <1>1, <2>1 DEF TxShape
<1>. DEFINE n == Len(t.floating)
            d == u.id - t.id
<1>7. /\ u.id \in Nat /\ t.id <= u.id /\ Len(u.floating) = n + d
      /\ \A i \in 1..n : u.floating[i] = t.floating[i]
      /\ \A k \in t.id..u.id - 1 : u.floating[n + 1 + (k - t.id)].new # Absent
                                   /\ u.floating[n + 1 + (k - t.id)].id = <<T.id, k>>
  BY DEF Reveals
<1>8. /\ Len(floating) = n + d + 1 /\ floating[n + d + 1] = f
      /\ \A i \in 1..n + d : floating[i] = u.floating[i]
  BY <1>5, <1>7 DEF IsAppend
<1>9. /\ w.id \in Nat /\ t.id <= w.id /\ Len(w.floating) = n + (w.id - t.id)
      /\ \A i \in 1..n : w.floating[i] = t.floating[i]
  <2>1. w.id \in Nat /\ t.id <= w.id
    BY <1>6, <1>7
  <2>2. Len(w.floating) = n + (w.id - t.id)
    BY <1>6, <1>7, <1>8
  <2>3. ASSUME NEW i \in 1..n PROVE w.floating[i] = t.floating[i]
    <3>1. n \in Nat /\ d \in Nat
      BY <1>7
    <3>. HIDE DEF n, d
    <3>2. i \in 1..n + d
      BY <2>3, <3>1
    <3>3. w.floating[i] = floating[i] /\ u.floating[i] = t.floating[i]
      BY <1>6, <1>7, <2>3
    <3>. QED BY <1>8, <3>2, <3>3
  <2>. QED BY <2>1, <2>2, <2>3
<1>10. ASSUME NEW k \in t.id..w.id - 1
       PROVE  w.floating[n + 1 + (k - t.id)].new # Absent
              /\ w.floating[n + 1 + (k - t.id)].id = <<T.id, k>>
  <2>1. CASE k = u.id
    <3>1. n + 1 + (k - t.id) = n + d + 1
      BY <1>7, <2>1
    <3>. QED BY <1>4, <1>6, <1>8, <2>1, <3>1 DEF id
  <2>2. CASE k # u.id
    <3>1. k \in t.id..u.id - 1
      <4>1. w.id = u.id + 1 /\ u.id \in Nat
        BY <1>6, <1>7
      <4>2. k \in Int /\ t.id <= k /\ k < u.id
        BY <1>10, <2>2, <4>1
      <4>. QED BY <1>7, <1>10, <4>1, <4>2
    <3>2. k - t.id \in Nat /\ k - t.id < d /\ d \in Int /\ n \in Nat
      BY <1>7, <3>1
    <3>3. n + 1 + (k - t.id) \in 1..n + d
      <4>. HIDE DEF n, d
      <4>. QED BY <3>2
    <3>. QED BY <1>6, <1>7, <1>8, <3>1, <3>3
  <2>. QED BY <2>1, <2>2
<1>. QED BY <1>5, <1>6, <1>9, <1>10 DEF Reveals, w

LEMMA RevealedReveals ==
  ASSUME TxOK(tx), ContentOK(T), NEW at \in Nat, NEW value
  PROVE  Reveals(tx, Revealed(at, value))
<1>. DEFINE n == Len(EnvelopesHere)
            envs == EnvelopesHere
<1>1. /\ n \in Nat /\ DOMAIN envs = 1..n
      /\ \A k \in 1..n : envs[k].pointer = None \/ envs[k].pointer \in Nat
  <2>1. CASE Coinbase
    <3>1. EnvelopesHere = << >>
      BY <2>1 DEF EnvelopesHere
    <3>2. Len(EnvelopesHere) = 0 /\ DOMAIN EnvelopesHere = {}
      BY <3>1, NothingSeq
    <3>. QED BY <3>2
  <2>2. CASE ~Coinbase
    BY <2>2, SeqFacts DEF ContentOK, EnvelopesHere
  <2>. QED BY <2>1, <2>2
<1>. HIDE DEF n, envs
<1>2. PICK g : IsReveals(g, n, at, value) /\ Revealed(at, value) = g[n]
  BY <1>1, RevealedIs DEF n
<1>3. /\ g[0] = tx
      /\ \A k \in 1..n : g[k] = IF envs[k].input = run.input
                                THEN Reveal(g[k - 1], envs[k], at, value) ELSE g[k - 1]
  BY <1>1, <1>2 DEF IsReveals, envs
<1>4. tx.id \in Nat /\ Len(tx.floating) \in Nat /\ Reveals(tx, tx)
  <2>1. tx.id \in Nat /\ Len(tx.floating) \in Nat /\ TxShape(tx) /\ Flotsams(tx.floating)
    BY SeqFacts DEF TxOK, Flotsams
  <2>2. Len(tx.floating) = Len(tx.floating) + (tx.id - tx.id)
    BY <2>1
  <2>3. \A k \in tx.id..tx.id - 1 : FALSE
    BY <2>1
  <2>. QED BY <2>1, <2>2, <2>3 DEF Reveals
<1>. DEFINE S == {k \in Nat : k <= n => Reveals(tx, g[k])}
<1>5. 0 \in S
  BY <1>3, <1>4
<1>6. ASSUME NEW k \in Nat, k \in S PROVE k + 1 \in S
  <2>. SUFFICES ASSUME k + 1 <= n PROVE Reveals(tx, g[k + 1])
    OBVIOUS
  <2>1. k + 1 \in 1..n /\ (k + 1) - 1 = k /\ k <= n
    BY <1>1
  <2>2. Reveals(tx, g[k])
    BY <1>6, <2>1
  <2>3. g[k + 1] = IF envs[k + 1].input = run.input
                   THEN Reveal(g[k], envs[k + 1], at, value) ELSE g[k]
    BY <1>3, <2>1
  <2>4. envs[k + 1].pointer = None \/ envs[k + 1].pointer \in Nat
    BY <1>1, <2>1
  <2>5. Reveals(tx, Reveal(g[k], envs[k + 1], at, value))
    BY <1>4, <2>2, <2>4, RevealOne
  <2>. QED BY <2>2, <2>3, <2>5
<1>. HIDE DEF S
<1>7. n \in S
  BY <1>1, <1>5, <1>6, NatSetInduction
<1>. QED BY <1>1, <1>2, <1>7 DEF S

LEMMA FinishInputFrame == ASSUME Frame, FinishInput PROVE Frame'
<1>. DEFINE value == IF Coinbase THEN Subsidy ELSE Len(tx.ins[run.input].sats)
            w == Revealed(tx.inValue, value)
<1>1. /\ AtInput /\ run.inscription > Len(Moved)
      /\ tx' = [w EXCEPT !.inValue = w.inValue + value]
      /\ run' = [run EXCEPT !.input = run.input + 1, !.inscription = 1]
      /\ UNCHANGED <<chain, tab, records, block, cursor, staged, saved, past>>
  BY DEF FinishInput
<1>2. /\ run # Absent /\ TxOK(tx) /\ RunOK(run) /\ Indexing /\ InTx /\ block # None
      /\ At = run /\ Work = tx /\ Accounts = run
      /\ This = T /\ (IsLast <=> Coinbase) /\ InputCount = Inputs
      /\ Len(Txs) \in Nat /\ run.tx \in 1..Len(Txs) /\ ContentOK(T)
      /\ tx # Absent /\ tx.phase = "inputs"
  BY <1>1, InTxFacts DEF AtInput
<1>3. /\ ~Resumes /\ run.input \in 1..Inputs /\ Inputs \in Nat
      /\ ~Coinbase => /\ Len(tx.ins) = Inputs /\ EntryOK(tx.ins[run.input])
                      /\ tx.inValue = Len(SatsOf(tx.ins, run.input - 1))
  BY <1>1, AtInputFacts
<1>4. value \in Nat /\ (~Coinbase => value = Len(tx.ins[run.input].sats))
  <2>1. ~Coinbase => Len(tx.ins[run.input].sats) \in Nat
    BY <1>3, SeqFacts DEF EntryOK
  <2>2. Subsidy \in Nat
    BY SubsidyAssumption
  <2>. QED BY <2>1, <2>2
<1>. HIDE DEF value
<1>5. ~Coinbase => tx.inValue + value = Len(SatsOf(tx.ins, run.input))
  <2>. SUFFICES ASSUME ~Coinbase
                PROVE  tx.inValue + value = Len(SatsOf(tx.ins, run.input))
    OBVIOUS
  <2>1. \A i \in 1..Inputs : IsSeq(tx.ins[i].sats)
    <3>1. DOMAIN tx.ins = 1..Inputs
      BY <1>2, <1>3, SeqFacts DEF TxOK, WorkOK
    <3>. QED BY <1>2, <3>1 DEF TxOK, WorkOK, EntryOK
  <2>. DEFINE k == run.input - 1
  <2>2. k \in 0..Inputs /\ k < Inputs /\ k + 1 = run.input
    BY <1>3
  <2>3. IsConcat(SatsOf(tx.ins, k + 1), SatsOf(tx.ins, k), tx.ins[k + 1].sats)
    <3>. HIDE DEF k
    <3>. QED BY <1>3, <2>1, <2>2, SatsAreSeq
  <2>. QED BY <1>3, <1>4, <2>2, <2>3 DEF IsConcat
<1>6. Reveals(tx, w)
  <2>1. tx.inValue \in Nat
    BY <1>2 DEF TxOK
  <2>. QED BY <1>2, <2>1, RevealedReveals
<1>. HIDE DEF w
<1>7. /\ TxOK(tx') /\ tx' # Absent
      /\ tx'.phase = tx.phase /\ tx'.ins = tx.ins /\ tx'.outs = tx.outs
      /\ tx'.inSats = tx.inSats /\ tx'.inValue = tx.inValue + value /\ tx'.outValue = tx.outValue
      /\ tx'.floating = w.floating
      /\ tx'.out = tx.out /\ tx'.loc = tx.loc /\ tx'.queue = tx.queue
      /\ tx'.located = tx.located
  <2>1. /\ TxShape(w) /\ Flotsams(w.floating) /\ w.id \in Nat
        /\ w.phase = tx.phase /\ w.ins = tx.ins /\ w.outs = tx.outs /\ w.inSats = tx.inSats
        /\ w.inValue = tx.inValue /\ w.located = tx.located /\ w.outValue = tx.outValue
        /\ w.out = tx.out /\ w.queue = tx.queue /\ w.loc = tx.loc
    BY <1>6 DEF Reveals
  <2>2. /\ TxShape(tx') /\ "phase" \in DOMAIN tx'
        /\ tx'.phase = w.phase /\ tx'.ins = w.ins /\ tx'.outs = w.outs
        /\ tx'.inSats = w.inSats /\ tx'.inValue = w.inValue + value /\ tx'.outValue = w.outValue
        /\ tx'.floating = w.floating /\ tx'.id = w.id
        /\ tx'.out = w.out /\ tx'.loc = w.loc /\ tx'.queue = w.queue
        /\ tx'.located = w.located
    BY <1>1, <2>1 DEF TxShape
  <2>3. tx' # Absent
    BY <2>2, HasFields
  <2>4. tx.inValue + value \in Nat
    BY <1>2, <1>4 DEF TxOK
  <2>. QED BY <1>2, <2>1, <2>2, <2>3, <2>4 DEF TxOK, WorkOK
<1>8. /\ RunOK(run') /\ run' # Absent
      /\ run'.tx = run.tx /\ run'.input = run.input + 1 /\ run'.flotsam = run.flotsam
      /\ run'.reward = run.reward /\ run'.fees = run.fees
  <2>1. RunShape(run)
    BY <1>2 DEF RunOK
  <2>2. /\ RunShape(run') /\ "tx" \in DOMAIN run'
        /\ run'.tx = run.tx /\ run'.input = run.input + 1
        /\ run'.inscription = 1 /\ run'.next = run.next
        /\ run'.stats = run.stats /\ run'.flotsam = run.flotsam
        /\ run'.reward = run.reward /\ run'.fees = run.fees /\ run'.lost = run.lost
    BY <1>1, <2>1 DEF RunShape
  <2>3. run' # Absent
    BY <2>2, HasFields
  <2>. QED BY <1>2, <2>2, <2>3 DEF RunOK, AccountsOK
<1>9. /\ InTx' /\ At' = run' /\ Work' = tx' /\ Accounts' = run' /\ Indexing' = Indexing
      /\ Txs' = Txs /\ This' = T /\ (IsLast' <=> Coinbase) /\ InputCount' = Inputs
      /\ PaidOut' = ValueOf(T.outs, Len(T.outs))
      /\ \A n : Paid(n)' = ValueOf(T.outs, n)
  BY <1>1, <1>2, <1>7, <1>8, InTxAfter
<1>11. Types'
  BY <1>1, <1>7, <1>8 DEF Frame, Types
<1>12. Linked'
  BY <1>1, LinkedStays DEF Frame
<1>13. Control'
  <2>1. run'.input <= Inputs + 1 /\ run'.input # 1
    BY <1>3, <1>8
  <2>2. ~Resumes'
    BY <1>1, <1>3 DEF Resumes
  <2>. QED BY <1>1, <1>2, <1>7, <1>8, <1>9, <2>1, <2>2 DEF Frame, Control
<1>14. Pending'
  BY <1>1, <1>2, <1>3, <1>7, <1>8, <1>9 DEF Frame, Pending, Resumes
<1>15. Counts'
  <2>1. ~Coinbase => tx'.inValue = Len(SatsOf(tx'.ins, run'.input - 1))
    <3>1. (run.input + 1) - 1 = run.input
      BY <1>3
    <3>. QED BY <1>5, <1>7, <1>8, <3>1
  <2>. QED BY <1>1, <1>2, <1>3, <1>7, <1>8, <1>9, <2>1 DEF Frame, Counts, Resumes, PaidOut, Paid
<1>16. Balanced'
  BY <1>1, <1>2, <1>7, <1>8, <1>9 DEF Frame, Balanced, PaidOut, Paid
<1>. QED BY <1>11, <1>12, <1>13, <1>14, <1>15, <1>16 DEF Frame

\* What floats of the transaction's own, with the parents that are present.
Own(s, present) ==
  [i \in DOMAIN s |-> IF s[i].new = Absent THEN s[i]
                      ELSE [s[i] EXCEPT !.new.parents = @ \cap present]]

LEMMA OwnFlotsams ==
  ASSUME NEW s, Flotsams(s), NEW present
  PROVE  Flotsams(Own(s, present)) /\ (s = << >> => Own(s, present) = << >>)
<1>. DEFINE own == Own(s, present)
<1>0. own = [i \in DOMAIN s |-> IF s[i].new = Absent THEN s[i]
                                ELSE [s[i] EXCEPT !.new.parents = @ \cap present]]
  BY DEF Own
<1>. HIDE DEF own
<1>1. IsSeq(s) /\ Len(s) \in Nat /\ DOMAIN s = 1..Len(s)
  BY SeqFacts DEF Flotsams
<1>2. ASSUME NEW f, FlotsamOK(f), f.new # Absent
      PROVE  FlotsamOK([f EXCEPT !.new.parents = @ \cap present])
  <2>. DEFINE p == f.new.parents \cap present
              n == [f.new EXCEPT !.parents = p]
              g == [f EXCEPT !.new = n]
  <2>1. [f EXCEPT !.new.parents = @ \cap present] = g
    BY <1>2 DEF FlotsamOK
  <2>. HIDE DEF p
  <2>2. NewOK(n) /\ "parents" \in DOMAIN n
    BY <1>2 DEF FlotsamOK, NewOK
  <2>. HIDE DEF n
  <2>3. n # Absent
    BY <2>2, HasFields
  <2>4. FlotsamOK(g)
    BY <1>2, <2>2, <2>3 DEF FlotsamOK
  <2>. QED BY <2>1, <2>4
<1>3. \A i \in DOMAIN s : FlotsamOK(own[i])
  BY <1>0, <1>2 DEF Flotsams
<1>4. IsSeq(own) /\ Len(own) = Len(s) /\ DOMAIN own = DOMAIN s
  <2>1. own = [i \in 1..Len(s) |-> own[i]]
    BY <1>0, <1>1
  <2>. QED BY <1>1, <2>1, FcnSeq, SeqFacts
<1>5. s = << >> => own = << >>
  <2>. SUFFICES ASSUME s = << >> PROVE own = << >>
    OBVIOUS
  <2>1. Len(own) = 0
    BY <1>4, NothingSeq
  <2>. QED BY <1>4, <2>1, EmptySeq DEF IsSeq
<1>6. \A i \in DOMAIN own : FlotsamOK(own[i])
  BY <1>3, <1>4
<1>7. Flotsams(own)
  BY <1>4, <1>6 DEF Flotsams
<1>. QED BY <1>5, <1>7 DEF own

LEMMA FinishInputsFrame == ASSUME Frame, FinishInputs PROVE Frame'
<1>. DEFINE present == {tx.floating[i].id : i \in DOMAIN tx.floating}
            own == Own(tx.floating, present)
            fees == IF Coinbase THEN run.flotsam ELSE << >>
            all == own \o fees
            queue == Sorted(all, [i \in DOMAIN all |-> all[i].offset])
            flotsam == IF Coinbase THEN << >> ELSE run.flotsam
<1>1. /\ run # Absent /\ tx # Absent /\ tx.phase = "inputs" /\ run.input > Inputs
      /\ tx' = IF saved.in2 # Absent
               THEN [tx EXCEPT !.phase = "outputs", !.located = saved.in2.located,
                               !.outValue = saved.in2.outValue,
                               !.inValue = saved.in2.inValue,
                               !.out = saved.in2.out, !.queue = saved.in2.queue]
               ELSE [tx EXCEPT !.phase = "outputs", !.queue = queue]
      /\ run' = [run EXCEPT !.input = 1, !.flotsam = flotsam]
      /\ saved' = [saved EXCEPT !.in1 = Absent]
      /\ UNCHANGED <<chain, tab, records, block, cursor, staged, past>>
  BY DEF FinishInputs, Own
<1>. HIDE DEF present
<1>2. /\ run # Absent /\ TxOK(tx) /\ RunOK(run) /\ Indexing /\ InTx /\ block # None
      /\ At = run /\ Work = tx /\ Accounts = run
      /\ This = T /\ (IsLast <=> Coinbase) /\ InputCount = Inputs
      /\ Len(Txs) \in Nat /\ run.tx \in 1..Len(Txs) /\ ContentOK(T)
  BY <1>1, InTxFacts
<1>3. Flotsams(own) /\ (tx.floating = << >> => own = << >>)
  BY <1>2, OwnFlotsams DEF TxOK
<1>4. Flotsams(fees) /\ Flotsams(flotsam) /\ (Coinbase => flotsam = << >>)
      /\ (saved.in3 # Absent => fees = << >>)
  <2>1. Coinbase /\ saved.in3 # Absent => run.flotsam = << >>
    BY <1>2 DEF Frame, Pending, Resumes
  <2>. QED BY <1>2, <2>1, EmptyLists DEF RunOK, AccountsOK
<1>. HIDE DEF own, fees, flotsam
<1>5. Flotsams(all) /\ (saved.in3 # Absent => all = << >>)
  <2>1. saved.in3 # Absent => own = << >> /\ fees = << >>
    BY <1>1, <1>3, <1>4 DEF Frame, Pending, Resumes
  <2>2. own = << >> /\ fees = << >> => all = << >>
    OBVIOUS
  <2>. QED BY <1>3, <1>4, <2>1, <2>2, ConcatFlotsams
<1>. HIDE DEF all
<1>6. Ready(queue, 0) /\ Flotsams(queue) /\ (saved.in3 # Absent => queue = << >>)
  BY <1>5, SortedReady DEF Ready
<1>. HIDE DEF queue
<1>7. SavedOK(saved) /\ SavedShape(saved)
  BY DEF Frame, Types, SavedOK
<1>8. /\ SavedOK(saved') /\ saved'.block = saved.block /\ saved'.tx = saved.tx
      /\ saved'.in1 = Absent /\ saved'.in2 = saved.in2 /\ saved'.in3 = saved.in3
  <2>1. /\ SavedShape(saved') /\ saved'.block = saved.block /\ saved'.tx = saved.tx
        /\ saved'.in1 = Absent /\ saved'.in2 = saved.in2 /\ saved'.in3 = saved.in3
    BY <1>1, <1>7 DEF SavedShape
  <2>. QED BY <1>7, <2>1 DEF SavedOK
<1>9. /\ RunOK(run') /\ run' # Absent
      /\ run'.tx = run.tx /\ run'.input = 1 /\ run'.flotsam = flotsam
      /\ run'.reward = run.reward /\ run'.fees = run.fees
  <2>1. RunShape(run)
    BY <1>2 DEF RunOK
  <2>2. /\ RunShape(run') /\ "tx" \in DOMAIN run'
        /\ run'.tx = run.tx /\ run'.input = 1
        /\ run'.inscription = run.inscription /\ run'.next = run.next
        /\ run'.stats = run.stats /\ run'.flotsam = flotsam
        /\ run'.reward = run.reward /\ run'.fees = run.fees /\ run'.lost = run.lost
    BY <1>1, <2>1 DEF RunShape
  <2>3. run' # Absent
    BY <2>2, HasFields
  <2>. QED BY <1>2, <1>4, <2>2, <2>3 DEF RunOK, AccountsOK
<1>10. /\ TxShape(tx') /\ "phase" \in DOMAIN tx'
       /\ tx'.phase = "outputs" /\ tx'.ins = tx.ins /\ tx'.outs = tx.outs
       /\ tx'.inSats = tx.inSats /\ tx'.floating = tx.floating /\ tx'.id = tx.id
       /\ tx'.loc = tx.loc
       /\ IF saved.in2 = Absent
          THEN /\ tx'.inValue = tx.inValue /\ tx'.outValue = tx.outValue /\ tx'.out = tx.out
               /\ tx'.queue = queue /\ tx'.located = tx.located
          ELSE /\ tx'.inValue = saved.in2.inValue /\ tx'.outValue = saved.in2.outValue
               /\ tx'.out = saved.in2.out
               /\ tx'.queue = saved.in2.queue /\ tx'.located = saved.in2.located
  BY <1>1, <1>2 DEF TxOK, TxShape
<1>17. Len(T.outs) \in Nat /\ \A n \in 0..Len(T.outs) : ValueOf(T.outs, n) \in Nat
  BY <1>2, PaidFacts
<1>18. saved.in2 # Absent => saved.in3 = Absent
  BY DEF Frame, Control
<1>19. tx.outValue = 0 /\ tx.out = 1 /\ tx.located = << >> /\ tx.loc = 1
  BY <1>1 DEF Frame, Pending
<1>20. /\ tx'.out \in 1..Len(T.outs) + 1 /\ tx'.outValue = ValueOf(T.outs, tx'.out - 1)
       /\ Ready(tx'.queue, tx'.outValue) /\ Flotsams(tx'.queue)
       /\ Landed(tx'.located) /\ tx'.inValue \in Nat /\ tx'.outValue \in Nat
       /\ saved.in3 # Absent => tx'.queue = << >> /\ tx'.located = << >>
  <2>1. CASE saved.in2 = Absent
    <3>1. 1 - 1 = 0 /\ 1 \in 1..Len(T.outs) + 1 /\ ValueOf(T.outs, 0) = 0
      BY <1>2, <1>17, PaidFacts
    <3>. QED BY <1>2, <1>6, <1>10, <1>19, <2>1, <3>1, EmptyLists DEF TxOK
  <2>2. CASE saved.in2 # Absent
    <3>1. /\ saved.in2.out \in 1..Len(T.outs) + 1
          /\ saved.in2.outValue = ValueOf(T.outs, saved.in2.out - 1)
          /\ Ready(saved.in2.queue, saved.in2.outValue)
      BY <1>2, <2>2 DEF Frame, Counts, Paid
    <3>2. saved.in2.out - 1 \in 0..Len(T.outs)
      BY <1>17, <3>1
    <3>. QED BY <1>7, <1>10, <1>17, <1>18, <2>2, <3>1, <3>2 DEF SavedOK, Ready
  <2>. QED BY <2>1, <2>2
<1>21. saved.in3 = Absent /\ ~Coinbase => tx'.inValue = Len(tx.inSats)
  <2>. SUFFICES ASSUME saved.in3 = Absent, ~Coinbase PROVE tx'.inValue = Len(tx.inSats)
    OBVIOUS
  <2>1. CASE saved.in2 = Absent
    <3>1. run.input - 1 = Len(tx.ins)
      <4>1. Inputs = Len(T.ins) /\ Len(T.ins) = Len(tx.ins)
        BY <1>2 DEF Inputs, Frame, Counts
      <4>2. run.input <= Inputs + 1
        BY <1>1, <1>2, <2>1 DEF Frame, Control, Resumes
      <4>3. Inputs \in Nat /\ run.input \in Nat
        BY <1>2, <4>1, SeqFacts DEF ContentOK, RunOK
      <4>. QED BY <1>1, <4>1, <4>2, <4>3
    <3>2. tx.inValue = Len(SatsOf(tx.ins, run.input - 1))
      BY <1>1, <1>2, <2>1 DEF Frame, Counts, Resumes
    <3>3. tx.inSats = SatsOf(tx.ins, Len(tx.ins))
      BY <1>2 DEF Frame, Balanced
    <3>. QED BY <1>10, <2>1, <3>1, <3>2, <3>3
  <2>2. CASE saved.in2 # Absent
    BY <1>2, <1>10, <2>2 DEF Frame, Counts
  <2>. QED BY <2>1, <2>2
<1>22. TxOK(tx') /\ tx' # Absent
  <2>1. tx' # Absent
    BY <1>10, HasFields
  <2>. QED BY <1>2, <1>10, <1>20, <2>1 DEF TxOK, WorkOK
<1>23. /\ InTx' /\ At' = run' /\ Work' = tx' /\ Accounts' = run' /\ Indexing' = Indexing
       /\ Txs' = Txs /\ This' = T /\ (IsLast' <=> Coinbase) /\ InputCount' = Inputs
       /\ PaidOut' = ValueOf(T.outs, Len(T.outs))
       /\ \A n : Paid(n)' = ValueOf(T.outs, n)
  BY <1>1, <1>2, <1>9, <1>22, InTxAfter
<1>11. Types'
  BY <1>1, <1>8, <1>9, <1>22 DEF Frame, Types
<1>12. Linked'
  BY <1>1, LinkedStays DEF Frame
<1>13. Control'
  BY <1>1, <1>2, <1>8, <1>9, <1>10, <1>22, <1>23 DEF Frame, Control, Resumes
<1>14. Pending'
  BY <1>1, <1>2, <1>4, <1>8, <1>9, <1>10, <1>19, <1>20, <1>22, <1>23 DEF Frame, Pending, Resumes
<1>15. Counts'
  BY <1>1, <1>2, <1>8, <1>10, <1>20, <1>21, <1>22, <1>23 DEF Frame, Counts, Resumes, PaidOut, Paid
<1>16. Balanced'
  BY <1>1, <1>2, <1>9, <1>10, <1>23 DEF Frame, Balanced, PaidOut, Paid
<1>. QED BY <1>11, <1>12, <1>13, <1>14, <1>15, <1>16 DEF Frame

LEMMA ContinueFrame == ASSUME Frame, Continue PROVE Frame'
<1>1. /\ run # Absent /\ tx = Absent /\ run.tx <= Len(Txs) /\ saved.tx # Absent
      /\ tx' = IF saved.in1 = Absent THEN Fresh(saved.tx.ins, saved.tx.outs, saved.tx.inSats)
               ELSE [Fresh(saved.tx.ins, saved.tx.outs, saved.tx.inSats)
                       EXCEPT !.floating = saved.in1.floating, !.offsets = saved.in1.offsets,
                              !.id = saved.in1.id, !.inValue = saved.in1.inValue]
      /\ UNCHANGED <<chain, tab, records, block, cursor, staged, saved, run, past>>
  BY DEF Continue
<1>2. /\ InTx /\ At = run /\ Work = saved.tx /\ Accounts = run /\ Indexing
  BY <1>1 DEF InTx, At, Work, Accounts, Frame, Control
<1>3. /\ TxShape(tx') /\ "phase" \in DOMAIN tx'
      /\ tx'.phase = "inputs" /\ tx'.ins = saved.tx.ins /\ tx'.outs = saved.tx.outs
      /\ tx'.inSats = saved.tx.inSats /\ tx'.located = << >> /\ tx'.outValue = 0
      /\ tx'.out = 1 /\ tx'.queue = << >> /\ tx'.loc = 1
      /\ IF saved.in1 = Absent THEN tx'.floating = << >> /\ tx'.id = 0 /\ tx'.inValue = 0
         ELSE /\ tx'.floating = saved.in1.floating /\ tx'.id = saved.in1.id
              /\ tx'.inValue = saved.in1.inValue
  BY <1>1 DEF Fresh, TxShape
<1>4. SavedOK(saved) /\ WorkOK(saved.tx)
  BY <1>1 DEF Frame, Types, SavedOK
<1>5. TxOK(tx') /\ tx' # Absent
  <2>1. tx' # Absent
    BY <1>3, HasFields
  <2>. QED BY <1>3, <1>4, <2>1, EmptyLists DEF TxOK, WorkOK, SavedOK
<1>6. /\ InTx' /\ At' = run /\ Work' = tx' /\ Accounts' = run /\ Indexing'
      /\ Txs' = Txs /\ This' = This /\ (IsLast' <=> IsLast) /\ InputCount' = InputCount
      /\ PaidOut' = PaidOut /\ \A n : Paid(n)' = Paid(n)
  BY <1>1, <1>2, <1>5
     DEF InTx, At, Work, Accounts, Indexing, Txs, InOrder, This, IsLast, InputCount, PaidOut, Paid
<1>7. saved.in1 # Absent => ~Resumes
  BY DEF Frame, Control, Resumes
<1>11. Types'
  BY <1>1, <1>5 DEF Frame, Types
<1>12. Linked'
  BY <1>1, LinkedStays DEF Frame
<1>13. Control'
  BY <1>1, <1>2, <1>3, <1>5, <1>6 DEF Frame, Control, Resumes
<1>14. Pending'
  BY <1>1, <1>2, <1>3, <1>5, <1>6, <1>7 DEF Frame, Pending, Resumes
<1>15. Counts'
  <2>1. ~Resumes => saved.in1 # Absent
    BY <1>1, <1>2 DEF Frame, Control
  <2>2. ~Resumes => tx'.inValue = Len(SatsOf(tx'.ins, run.input - 1))
    BY <1>1, <1>2, <1>3, <2>1 DEF Frame, Counts
  <2>3. Resumes' = Resumes
    BY <1>1 DEF Resumes
  <2>. QED BY <1>1, <1>2, <1>3, <1>5, <1>6, <2>2, <2>3 DEF Frame, Counts
<1>16. Balanced'
  BY <1>1, <1>2, <1>3, <1>6 DEF Frame, Balanced
<1>. QED BY <1>11, <1>12, <1>13, <1>14, <1>15, <1>16 DEF Frame

LEMMA NewBlockOK == ASSUME H \in Nat PROVE AccountsOK(NewBlock) /\ NewBlock.reward = Len(NewBlock.fees)
<1>. DEFINE fees == [i \in 1..Subsidy |-> H * Subsidy + i - 1]
<1>1. /\ NewBlock.flotsam = << >> /\ NewBlock.reward = Subsidy /\ NewBlock.lost = << >>
      /\ NewBlock.fees = fees
  BY DEF NewBlock
<1>2. IsSeq(fees) /\ Len(fees) = Subsidy
  <2>1. fees = [i \in 1..Subsidy |-> fees[i]]
    OBVIOUS
  <2>. HIDE DEF fees
  <2>. QED BY <2>1, SubsidyAssumption, FcnSeq
<1>. QED BY <1>1, <1>2, SubsidyAssumption, EmptyLists DEF AccountsOK

LEMMA BeginFrame == ASSUME Frame, Begin PROVE Frame'
<1>1. /\ block # None /\ staged.state = "Index" /\ run = Absent
      /\ run' = [tx |-> cursor.tx, input |-> cursor.input, inscription |-> cursor.inscription,
                 next |-> NextSequence, stats |-> tab.stats, flotsam |-> Kept.flotsam,
                 reward |-> Kept.reward, fees |-> Kept.fees, lost |-> Kept.lost]
      /\ UNCHANGED <<chain, tab, records, block, cursor, staged, saved, tx, past>>
  BY DEF Begin
<1>2. /\ tx = Absent /\ Indexing /\ At = cursor /\ Accounts = Kept
  BY <1>1 DEF Frame, Control, Indexing, At, Accounts
<1>3. /\ run'.tx = cursor.tx /\ run'.input = cursor.input
      /\ run'.inscription = cursor.inscription /\ run'.next = NextSequence
      /\ run'.stats = tab.stats /\ run'.flotsam = Kept.flotsam
      /\ run'.reward = Kept.reward /\ run'.fees = Kept.fees /\ run'.lost = Kept.lost
      /\ RunShape(run') /\ "tx" \in DOMAIN run'
  BY <1>1 DEF RunShape
<1>4. AccountsOK(Kept)
  <2>1. H \in Nat
    BY <1>1, TxsFacts DEF Frame
  <2>. QED BY <2>1, NewBlockOK DEF Kept, Frame, Types, SavedOK
<1>5. NextSequence \in Nat
  <2>1. Bounded(DOMAIN tab.entries)
    BY DEF Frame, Types, TabOK
  <2>. QED BY <2>1, BoundedFacts DEF NextSequence
<1>6. RunOK(run') /\ run' # Absent
  <2>1. run' # Absent
    BY <1>3, HasFields
  <2>2. cursor.tx \in Nat \ {0} /\ cursor.input \in Nat \ {0} /\ cursor.inscription \in Nat \ {0}
    BY DEF Frame, Types, CursorOK
  <2>3. StatsOK(tab.stats)
    BY DEF Frame, Types, TabOK
  <2>. QED BY <1>3, <1>4, <1>5, <2>1, <2>2, <2>3 DEF RunOK, AccountsOK
<1>7. /\ (InTx' <=> InTx) /\ At' = run' /\ Work' = Work /\ Accounts' = run' /\ Indexing'
      /\ Txs' = Txs /\ This' = This /\ (IsLast' <=> IsLast) /\ InputCount' = InputCount
      /\ PaidOut' = PaidOut /\ \A n : Paid(n)' = Paid(n)
  BY <1>1, <1>2, <1>3, <1>6
     DEF InTx, At, Work, Accounts, Indexing, Txs, InOrder, This, IsLast, InputCount, PaidOut, Paid
<1>11. Types'
  BY <1>1, <1>6 DEF Frame, Types
<1>12. Linked'
  BY <1>1, LinkedStays DEF Frame
<1>13. Control'
  BY <1>1, <1>2, <1>3, <1>6, <1>7 DEF Frame, Control, Resumes
<1>14. Pending'
  BY <1>1, <1>2, <1>3, <1>7 DEF Frame, Pending, Resumes
<1>15. Counts'
  BY <1>1, <1>2, <1>3, <1>7 DEF Frame, Counts, Resumes
<1>16. Balanced'
  BY <1>1, <1>2, <1>3, <1>7 DEF Frame, Balanced
<1>. QED BY <1>11, <1>12, <1>13, <1>14, <1>15, <1>16 DEF Frame

\* What the end of a message in a transaction leaves.
LEMMA SuspendFacts ==
  ASSUME Frame, tx # Absent,
         NEW input \in Nat \ {0}, NEW inscription \in Nat \ {0}, NEW kept,
         Suspend(input, inscription, kept), SavedOK(kept)
  PROVE  /\ UNCHANGED <<chain, records, block, staged, past>>
         /\ run' = Absent /\ tx' = Absent /\ Types' /\ Linked'
         /\ saved'.in1 = kept.in1 /\ saved'.in2 = kept.in2 /\ saved'.in3 = kept.in3
         /\ saved'.tx # Absent /\ saved'.tx = Work'
         /\ Work'.ins = tx.ins /\ Work'.inSats = tx.inSats
         /\ Accounts'.flotsam = run.flotsam /\ Accounts'.reward = run.reward
         /\ Accounts'.fees = run.fees
         /\ InTx' /\ Indexing' /\ At' = cursor' /\ cursor'.tx = run.tx
         /\ cursor'.input = input
         /\ Txs' = Txs /\ This' = T /\ (IsLast' <=> Coinbase) /\ InputCount' = Inputs
         /\ PaidOut' = ValueOf(T.outs, Len(T.outs))
         /\ \A n : Paid(n)' = ValueOf(T.outs, n)
         /\ Work'.outs = tx.outs /\ cursor'.inscription = inscription
         /\ tab'.utxo = tab.utxo /\ tab'.entries = tab.entries /\ tab'.ids = tab.ids
<1>. DEFINE b == [flotsam |-> run.flotsam, reward |-> run.reward,
                  fees |-> run.fees, lost |-> run.lost]
            t == [ins |-> tx.ins, outs |-> tx.outs, inSats |-> tx.inSats]
            stats == [run.stats EXCEPT !.lost = tab.stats.lost]
            last == Put(tab.last, H, run.next)
<1>1. /\ cursor' = [tx |-> run.tx, input |-> input, inscription |-> inscription]
      /\ saved' = [kept EXCEPT !.block = b, !.tx = t]
      /\ tab' = [tab EXCEPT !.last = last, !.stats = stats]
      /\ run' = Absent /\ tx' = Absent
      /\ UNCHANGED <<chain, records, block, staged, past>>
  BY DEF Suspend
<1>2. /\ run # Absent /\ TxOK(tx) /\ RunOK(run) /\ Indexing /\ InTx /\ block # None
      /\ At = run /\ Work = tx /\ Accounts = run
      /\ This = T /\ (IsLast <=> Coinbase) /\ InputCount = Inputs
      /\ Len(Txs) \in Nat /\ run.tx \in 1..Len(Txs) /\ ContentOK(T)
  BY InTxFacts
<1>3. AccountsOK(b) /\ b # Absent /\ WorkOK(t) /\ t # Absent
  <2>1. b # Absent /\ t # Absent
    <3>1. "fees" \in DOMAIN b /\ "ins" \in DOMAIN t
      OBVIOUS
    <3>. HIDE DEF b, t
    <3>. QED BY <3>1, HasFields
  <2>. QED BY <1>2, <2>1 DEF AccountsOK, WorkOK, RunOK, TxOK
<1>4. StatsOK(stats)
  BY <1>2 DEF Frame, Types, TabOK, RunOK, StatsOK
<1>5. b.flotsam = run.flotsam /\ b.reward = run.reward /\ b.fees = run.fees
      /\ t.ins = tx.ins /\ t.inSats = tx.inSats /\ t.outs = tx.outs
  OBVIOUS
<1>. HIDE DEF b, t, stats, last
<1>6. /\ SavedOK(saved') /\ saved'.block = b /\ saved'.tx = t
      /\ saved'.in1 = kept.in1 /\ saved'.in2 = kept.in2 /\ saved'.in3 = kept.in3
  <2>1. /\ SavedShape(saved') /\ saved'.block = b /\ saved'.tx = t
        /\ saved'.in1 = kept.in1 /\ saved'.in2 = kept.in2 /\ saved'.in3 = kept.in3
    BY <1>1 DEF SavedOK, SavedShape
  <2>. QED BY <1>3, <2>1 DEF SavedOK
<1>7. /\ TabOK(tab') /\ tab'.utxo = tab.utxo /\ tab'.entries = tab.entries
      /\ tab'.ids = tab.ids
  <2>1. TabShape(tab)
    BY DEF Frame, Types, TabOK
  <2>2. /\ TabShape(tab') /\ tab'.entries = tab.entries /\ tab'.utxo = tab.utxo
        /\ tab'.ids = tab.ids /\ tab'.stats = stats
    BY <1>1, <2>1 DEF TabShape
  <2>. QED BY <1>4, <2>2 DEF Frame, Types, TabOK
<1>8. CursorOK(cursor') /\ cursor'.tx = run.tx /\ cursor'.input = input
      /\ cursor'.inscription = inscription
  BY <1>1, <1>2 DEF CursorOK, RunOK
<1>9. Types'
  BY <1>1, <1>6, <1>7, <1>8 DEF Frame, Types
<1>10. Linked'
  BY <1>1, LinkedStays DEF Frame
<1>11. /\ InTx' /\ Indexing' /\ At' = cursor' /\ Work' = t /\ Accounts' = b
  BY <1>1, <1>2, <1>3, <1>6 DEF InTx, Indexing, At, Work, Accounts, Kept
<1>12. /\ Txs' = Txs /\ This' = T /\ (IsLast' <=> Coinbase) /\ InputCount' = Inputs
       /\ PaidOut' = ValueOf(T.outs, Len(T.outs))
       /\ \A n : Paid(n)' = ValueOf(T.outs, n)
  <2>1. Txs' = Txs /\ At'.tx = run.tx
    BY <1>1, <1>8, <1>11 DEF Txs, InOrder
  <2>2. This' = T /\ (IsLast' <=> Coinbase)
    BY <2>1 DEF This, T, IsLast, Coinbase
  <2>3. InputCount' = Inputs
    BY <2>2 DEF InputCount, Inputs
  <2>. QED BY <2>1, <2>2, <2>3 DEF PaidOut, Paid
<1>. QED BY <1>1, <1>3, <1>5, <1>6, <1>7, <1>8, <1>9, <1>10, <1>11, <1>12

LEMMA BreakInputsFrame == ASSUME Frame, BreakInputs PROVE Frame'
<1>. DEFINE in1 == [floating |-> tx.floating, offsets |-> tx.offsets,
                    id |-> tx.id, inValue |-> tx.inValue]
            kept == [saved EXCEPT !.in1 = in1]
<1>1. AtInput /\ ~Coinbase /\ Suspend(run.input, run.inscription, kept)
  BY DEF BreakInputs
<1>2. /\ run # Absent /\ TxOK(tx) /\ RunOK(run) /\ Indexing /\ InTx /\ block # None
      /\ At = run /\ Work = tx /\ Accounts = run
      /\ This = T /\ (IsLast <=> Coinbase) /\ InputCount = Inputs
      /\ Len(Txs) \in Nat /\ run.tx \in 1..Len(Txs) /\ ContentOK(T)
      /\ tx # Absent /\ tx.phase = "inputs"
  BY <1>1, InTxFacts DEF AtInput
<1>3. /\ ~Resumes /\ run.input \in 1..Inputs /\ Inputs \in Nat
      /\ tx.inValue = Len(SatsOf(tx.ins, run.input - 1))
  BY <1>1, AtInputFacts
<1>4. Flotsams(in1.floating) /\ in1.id \in Nat /\ in1.inValue \in Nat
      /\ in1.inValue = tx.inValue /\ in1 # Absent
  <2>1. in1 # Absent
    <3>1. "floating" \in DOMAIN in1
      OBVIOUS
    <3>. HIDE DEF in1
    <3>. QED BY <3>1, HasFields
  <2>. QED BY <1>2, <2>1 DEF TxOK
<1>. HIDE DEF in1
<1>5. SavedOK(kept) /\ kept.in1 = in1 /\ kept.in2 = Absent /\ kept.in3 = Absent
  <2>1. SavedOK(saved) /\ SavedShape(saved)
    BY DEF Frame, Types, SavedOK
  <2>2. /\ SavedShape(kept) /\ kept.block = saved.block /\ kept.tx = saved.tx
        /\ kept.in1 = in1 /\ kept.in2 = saved.in2 /\ kept.in3 = saved.in3
    BY <2>1 DEF SavedShape
  <2>. HIDE DEF kept
  <2>. QED BY <1>3, <1>4, <2>1, <2>2 DEF SavedOK, Resumes
<1>. HIDE DEF kept
<1>6. /\ UNCHANGED <<chain, records, block, staged, past>>
      /\ run' = Absent /\ tx' = Absent /\ Types' /\ Linked'
      /\ saved'.in1 = in1 /\ saved'.in2 = Absent /\ saved'.in3 = Absent
      /\ saved'.tx # Absent /\ saved'.tx = Work'
      /\ Work'.ins = tx.ins /\ Work'.inSats = tx.inSats
      /\ Accounts'.flotsam = run.flotsam /\ Accounts'.reward = run.reward
      /\ Accounts'.fees = run.fees
      /\ InTx' /\ Indexing' /\ At' = cursor' /\ cursor'.tx = run.tx
      /\ cursor'.input = run.input
      /\ Txs' = Txs /\ This' = T /\ (IsLast' <=> Coinbase) /\ InputCount' = Inputs
      /\ PaidOut' = ValueOf(T.outs, Len(T.outs))
      /\ \A n : Paid(n)' = ValueOf(T.outs, n)
  BY <1>1, <1>2, <1>5, SuspendFacts DEF RunOK
<1>13. Control'
  BY <1>1, <1>2, <1>3, <1>4, <1>6 DEF Frame, Control, Resumes
<1>14. Pending'
  BY <1>1, <1>6 DEF Pending
<1>15. Counts'
  BY <1>1, <1>2, <1>3, <1>4, <1>6 DEF Frame, Counts
<1>16. Balanced'
  BY <1>1, <1>2, <1>6 DEF Frame, Balanced, PaidOut, Paid
<1>. QED BY <1>6, <1>13, <1>14, <1>15, <1>16 DEF Frame

LEMMA BreakOutputsFrame == ASSUME Frame, BreakOutputs PROVE Frame'
<1>. DEFINE in2 == [located |-> tx.located, outValue |-> tx.outValue,
                    inValue |-> tx.inValue, out |-> tx.out, queue |-> tx.queue]
            kept == [saved EXCEPT !.in2 = in2]
<1>1. Placeable /\ Suspend(Inputs + 1, 1, kept)
  BY DEF BreakOutputs
<1>2. /\ run # Absent /\ TxOK(tx) /\ RunOK(run) /\ Indexing /\ InTx /\ block # None
      /\ At = run /\ Work = tx /\ Accounts = run
      /\ This = T /\ (IsLast <=> Coinbase) /\ InputCount = Inputs
      /\ Len(Txs) \in Nat /\ run.tx \in 1..Len(Txs) /\ ContentOK(T)
      /\ tx # Absent /\ tx.phase = "outputs" /\ tx.queue # << >>
  BY <1>1, InTxFacts DEF Placeable, AtOutputs
<1>3. /\ saved.in1 = Absent /\ saved.in3 = Absent /\ Inputs + 1 \in Nat \ {0}
  <2>1. Inputs \in Nat
    BY <1>2, SeqFacts DEF ContentOK, Inputs
  <2>. QED BY <1>2, <2>1 DEF Frame, Control, Pending
<1>4. /\ Landed(in2.located) /\ in2.inValue \in Nat /\ in2 # Absent
      /\ in2.out = tx.out /\ in2.outValue = tx.outValue /\ in2.queue = tx.queue
      /\ in2.inValue = tx.inValue
  <2>1. in2 # Absent
    <3>1. "located" \in DOMAIN in2
      OBVIOUS
    <3>. HIDE DEF in2
    <3>. QED BY <3>1, HasFields
  <2>. QED BY <1>2, <2>1 DEF TxOK
<1>. HIDE DEF in2
<1>5. SavedOK(kept) /\ kept.in1 = Absent /\ kept.in2 = in2 /\ kept.in3 = Absent
  <2>1. SavedOK(saved) /\ SavedShape(saved)
    BY DEF Frame, Types, SavedOK
  <2>2. /\ SavedShape(kept) /\ kept.block = saved.block /\ kept.tx = saved.tx
        /\ kept.in1 = saved.in1 /\ kept.in2 = in2 /\ kept.in3 = saved.in3
    BY <2>1 DEF SavedShape
  <2>. HIDE DEF kept
  <2>. QED BY <1>3, <1>4, <2>1, <2>2 DEF SavedOK
<1>. HIDE DEF kept
<1>6. /\ UNCHANGED <<chain, records, block, staged, past>>
      /\ run' = Absent /\ tx' = Absent /\ Types' /\ Linked'
      /\ saved'.in1 = Absent /\ saved'.in2 = in2 /\ saved'.in3 = Absent
      /\ saved'.tx # Absent /\ saved'.tx = Work'
      /\ Work'.ins = tx.ins /\ Work'.inSats = tx.inSats
      /\ Accounts'.flotsam = run.flotsam /\ Accounts'.reward = run.reward
      /\ Accounts'.fees = run.fees
      /\ InTx' /\ Indexing' /\ At' = cursor' /\ cursor'.tx = run.tx
      /\ cursor'.input = Inputs + 1
      /\ Txs' = Txs /\ This' = T /\ (IsLast' <=> Coinbase) /\ InputCount' = Inputs
      /\ PaidOut' = ValueOf(T.outs, Len(T.outs))
      /\ \A n : Paid(n)' = ValueOf(T.outs, n)
  BY <1>1, <1>2, <1>3, <1>5, SuspendFacts
<1>13. Control'
  BY <1>1, <1>2, <1>3, <1>4, <1>6 DEF Frame, Control, Resumes
<1>14. Pending'
  BY <1>1, <1>2, <1>6 DEF Frame, Pending
<1>15. Counts'
  <2>1. ~Coinbase => tx.inValue = Len(tx.inSats)
    BY <1>2, <1>3 DEF Frame, Counts
  <2>. QED BY <1>1, <1>2, <1>3, <1>4, <1>6, <2>1 DEF Frame, Counts, Paid
<1>16. Balanced'
  BY <1>1, <1>2, <1>6 DEF Frame, Balanced, PaidOut, Paid
<1>. QED BY <1>6, <1>13, <1>14, <1>15, <1>16 DEF Frame

LEMMA BreakLocationsFrame == ASSUME Frame, BreakLocations PROVE Frame'
<1>. DEFINE in3 == [located |-> tx.located, outValue |-> tx.outValue,
                    inValue |-> tx.inValue, queue |-> tx.queue, loc |-> tx.loc]
            kept == [saved EXCEPT !.in3 = in3]
<1>1. AtLocations /\ Suspend(Inputs + 1, 1, kept)
  BY DEF BreakLocations
<1>2. /\ run # Absent /\ TxOK(tx) /\ RunOK(run) /\ Indexing /\ InTx /\ block # None
      /\ At = run /\ Work = tx /\ Accounts = run
      /\ This = T /\ (IsLast <=> Coinbase) /\ InputCount = Inputs
      /\ Len(Txs) \in Nat /\ run.tx \in 1..Len(Txs) /\ ContentOK(T)
      /\ tx # Absent /\ tx.phase = "locations"
  BY <1>1, InTxFacts DEF AtLocations
<1>3. /\ saved.in1 = Absent /\ saved.in2 = Absent /\ Inputs + 1 \in Nat \ {0}
  <2>1. Inputs \in Nat
    BY <1>2, SeqFacts DEF ContentOK, Inputs
  <2>. QED BY <1>2, <2>1 DEF Frame, Control
<1>4. /\ Landed(in3.located) /\ in3.inValue \in Nat /\ in3.loc \in Nat \ {0} /\ in3 # Absent
      /\ in3.outValue = tx.outValue /\ in3.queue = tx.queue /\ in3.inValue = tx.inValue
  <2>1. in3 # Absent
    <3>1. "located" \in DOMAIN in3
      OBVIOUS
    <3>. HIDE DEF in3
    <3>. QED BY <3>1, HasFields
  <2>. QED BY <1>2, <2>1 DEF TxOK
<1>. HIDE DEF in3
<1>5. SavedOK(kept) /\ kept.in1 = Absent /\ kept.in2 = Absent /\ kept.in3 = in3
  <2>1. SavedOK(saved) /\ SavedShape(saved)
    BY DEF Frame, Types, SavedOK
  <2>2. /\ SavedShape(kept) /\ kept.block = saved.block /\ kept.tx = saved.tx
        /\ kept.in1 = saved.in1 /\ kept.in2 = saved.in2 /\ kept.in3 = in3
    BY <2>1 DEF SavedShape
  <2>. HIDE DEF kept
  <2>. QED BY <1>3, <1>4, <2>1, <2>2 DEF SavedOK
<1>. HIDE DEF kept
<1>6. /\ UNCHANGED <<chain, records, block, staged, past>>
      /\ run' = Absent /\ tx' = Absent /\ Types' /\ Linked'
      /\ saved'.in1 = Absent /\ saved'.in2 = Absent /\ saved'.in3 = in3
      /\ saved'.tx # Absent /\ saved'.tx = Work'
      /\ Work'.ins = tx.ins /\ Work'.inSats = tx.inSats
      /\ Accounts'.flotsam = run.flotsam /\ Accounts'.reward = run.reward
      /\ Accounts'.fees = run.fees
      /\ InTx' /\ Indexing' /\ At' = cursor' /\ cursor'.tx = run.tx
      /\ cursor'.input = Inputs + 1
      /\ Txs' = Txs /\ This' = T /\ (IsLast' <=> Coinbase) /\ InputCount' = Inputs
      /\ PaidOut' = ValueOf(T.outs, Len(T.outs))
      /\ \A n : Paid(n)' = ValueOf(T.outs, n)
  BY <1>1, <1>2, <1>3, <1>5, SuspendFacts
<1>13. Control'
  BY <1>1, <1>2, <1>3, <1>4, <1>6 DEF Frame, Control, Resumes
<1>14. Pending'
  BY <1>1, <1>2, <1>6 DEF Frame, Pending
<1>15. Counts'
  <2>1. /\ ~Coinbase => tx.inValue = Len(tx.inSats)
        /\ tx.outValue = ValueOf(T.outs, Len(T.outs)) /\ Ready(tx.queue, tx.outValue)
    BY <1>2, <1>3 DEF Frame, Counts, PaidOut, Paid
  <2>. QED BY <1>1, <1>2, <1>3, <1>4, <1>6, <2>1 DEF Frame, Counts
<1>16. Balanced'
  BY <1>1, <1>2, <1>6 DEF Frame, Balanced, PaidOut, Paid
<1>. QED BY <1>6, <1>13, <1>14, <1>15, <1>16 DEF Frame

\* An inscription is pushed to an entry.
Pushed(entry, place) == [entry EXCEPT !.ins = Append(@, place)]

LEMMA PushOK ==
  ASSUME NEW e, EntryOK(e), NEW place \in Nat \X Nat
  PROVE  EntryOK(Pushed(e, place))
<1>. DEFINE S == Nat \X Nat
            ins == Append(e.ins, place)
<1>1. ins \in Seq(S)
  <2>1. e.ins \in Seq(S) /\ place \in S
    BY DEF EntryOK
  <2>. HIDE DEF S
  <2>. QED BY <2>1
<1>2. Pushed(e, place) = [e EXCEPT !.ins = ins]
  BY DEF Pushed
<1>. HIDE DEF ins
<1>. QED BY <1>1, <1>2 DEF EntryOK

LEMMA NoEntryOK == EntryOK(NoEntry)
<1>1. NoEntry.sats = << >> /\ NoEntry.ins = << >> /\ NoEntry = [sats |-> << >>, ins |-> << >>]
  BY DEF NoEntry
<1>2. << >> \in Seq(Nat \X Nat)
  OBVIOUS
<1>. QED BY <1>1, <1>2, EmptyLists DEF EntryOK

\* Where a flotsam that comes down goes.
LEMMA SettleFacts ==
  ASSUME TabOK(tab), StagedOK(staged), RunOK(run),
         NEW t, TxShape(t), EntriesOK(t.outs),
         NEW f, FlotsamOK(f), NEW o, NEW offset \in Nat, NEW burn,
         Settle(t, f, o, offset, burn)
  PROVE  /\ TabOK(tab') /\ StagedOK(staged') /\ staged'.state = staged.state
         /\ RunOK(run') /\ run' # Absent
         /\ run'.tx = run.tx /\ run'.input = run.input /\ run'.flotsam = run.flotsam
         /\ run'.reward = run.reward /\ run'.fees = run.fees
         /\ TxShape(tx') /\ "phase" \in DOMAIN tx' /\ EntriesOK(tx'.outs)
         /\ tx'.phase = t.phase /\ tx'.ins = t.ins /\ tx'.inSats = t.inSats
         /\ tx'.floating = t.floating /\ tx'.offsets = t.offsets /\ tx'.id = t.id
         /\ tx'.inValue = t.inValue /\ tx'.located = t.located /\ tx'.outValue = t.outValue
         /\ tx'.out = t.out /\ tx'.queue = t.queue /\ tx'.loc = t.loc
<1>. DEFINE unbound == IF f.new = Absent THEN FALSE ELSE f.new.unbound
            to == IF unbound THEN Unbound ELSE o
            place == <<IF f.new = Absent THEN f.seq ELSE run.next,
                       IF unbound THEN run.stats.unbound ELSE offset>>
            cache == IF to \in Special
                     THEN Put(staged.cache, to, Pushed(Cached(staged.cache, to), place))
                     ELSE staged.cache
            outs == [t.outs EXCEPT ![to[2]] = Pushed(t.outs[to[2]], place)]
<1>1. /\ IF f.new = Absent THEN Transfer(f, burn, cache) ELSE Inscribe(f, o, burn, cache)
      /\ tx' = IF to \in Special THEN t ELSE [t EXCEPT !.outs = outs]
  BY DEF Settle, Pushed
<1>2. place \in Nat \X Nat
  <2>1. run.next \in Nat /\ run.stats.unbound \in Nat
    BY DEF RunOK, StatsOK
  <2>2. f.new = Absent => f.seq \in Nat
    BY DEF FlotsamOK
  <2>. QED BY <2>1, <2>2
<1>. HIDE DEF place, to, unbound
<1>3. EntriesOK(cache)
  <2>1. EntriesOK(staged.cache)
    BY DEF StagedOK
  <2>2. EntryOK(Cached(staged.cache, to))
    BY <2>1, NoEntryOK DEF Cached, EntriesOK
  <2>3. EntryOK(Pushed(Cached(staged.cache, to), place))
    BY <1>2, <2>2, PushOK
  <2>. DEFINE e == Pushed(Cached(staged.cache, to), place)
  <2>. HIDE DEF e
  <2>4. EntryOK(e)
    BY <2>3 DEF e
  <2>5. EntriesOK(Put(staged.cache, to, e))
    <3>1. /\ Put(staged.cache, to, e)
               = [x \in DOMAIN Put(staged.cache, to, e) |-> Put(staged.cache, to, e)[x]]
          /\ DOMAIN Put(staged.cache, to, e) = DOMAIN staged.cache \cup {to}
          /\ Put(staged.cache, to, e)[to] = e
          /\ \A x \in DOMAIN staged.cache : x # to => Put(staged.cache, to, e)[x] = staged.cache[x]
      BY DEF Put
    <3>. QED BY <2>1, <2>4, <3>1 DEF EntriesOK
  <2>. QED BY <2>1, <2>5 DEF e
<1>4. EntriesOK(outs)
  <2>. DEFINE e == Pushed(t.outs[to[2]], place)
  <2>1. to[2] \in DOMAIN t.outs => EntryOK(e)
    BY <1>2, PushOK DEF EntriesOK
  <2>. HIDE DEF e
  <2>2. outs = [t.outs EXCEPT ![to[2]] = e]
    BY DEF e
  <2>. HIDE DEF outs
  <2>. QED BY <2>1, <2>2 DEF EntriesOK
<1>. HIDE DEF cache, outs
<1>5. /\ TxShape(tx') /\ "phase" \in DOMAIN tx' /\ EntriesOK(tx'.outs)
      /\ tx'.phase = t.phase /\ tx'.ins = t.ins /\ tx'.inSats = t.inSats
      /\ tx'.floating = t.floating /\ tx'.offsets = t.offsets /\ tx'.id = t.id
      /\ tx'.inValue = t.inValue /\ tx'.located = t.located /\ tx'.outValue = t.outValue
      /\ tx'.out = t.out /\ tx'.queue = t.queue /\ tx'.loc = t.loc
  BY <1>1, <1>4 DEF TxShape
<1>6. run # Absent
  <2>1. "tx" \in DOMAIN run
    BY DEF RunOK, RunShape
  <2>. QED BY <2>1, HasFields
<1>7. CASE f.new = Absent
  <2>. DEFINE entries == [tab.entries EXCEPT ![f.seq].charms = @ \cup {"Burned"}]
              listed == IF burn THEN staged.record.entries \cup {f.seq} ELSE staged.record.entries
  <2>1. /\ tab' = IF burn THEN [tab EXCEPT !.entries = entries] ELSE tab
        /\ staged' = [staged EXCEPT !.cache = cache, !.record.entries = listed]
        /\ run' = run
    BY <1>1, <1>7 DEF Transfer
  <2>2. DOMAIN entries = DOMAIN tab.entries
    OBVIOUS
  <2>. HIDE DEF entries, listed
  <2>3. TabOK(tab')
    BY <2>1, <2>2 DEF TabOK, TabShape
  <2>4. StagedOK(staged') /\ staged'.state = staged.state
    <3>. DEFINE record == [staged.record EXCEPT !.entries = listed]
    <3>1. staged' = [staged EXCEPT !.cache = cache, !.record = record]
      BY <2>1 DEF StagedOK, StagedShape
    <3>2. RecordOK(record)
      BY DEF StagedOK, RecordOK, RecordShape
    <3>. HIDE DEF record
    <3>. QED BY <1>3, <3>1, <3>2 DEF StagedOK, StagedShape
  <2>. QED BY <1>5, <1>6, <2>1, <2>3, <2>4
<1>8. CASE f.new # Absent
  <2>. DEFINE seq == run.next
              number == IF f.new.cursed THEN -(run.stats.cursed + 1) ELSE run.stats.blessed
              sats == IF f.new.unbound THEN {} ELSE {tx.inSats[f.offset + 1]}
              parents == {tab.ids[p] : p \in f.new.parents}
              entry == [id |-> f.id, number |-> number, height |-> H, sat |-> sats,
                        charms |-> Charms(f.new, o, burn), parents |-> parents]
              cursed == IF f.new.cursed THEN run.stats.cursed + 1 ELSE run.stats.cursed
              blessed == IF f.new.cursed THEN run.stats.blessed ELSE run.stats.blessed + 1
              unb == IF f.new.unbound THEN run.stats.unbound + 1 ELSE run.stats.unbound
  <2>1. /\ tab' = [tab EXCEPT !.numbers = Put(@, number, seq),
                           !.satSeqs = AddTo(@, sats, seq),
                           !.children = AddTo(@, parents, seq),
                           !.entries = Put(tab.entries, seq, entry),
                           !.ids = Put(@, f.id, seq)]
        /\ staged' = [staged EXCEPT !.cache = cache,
                     !.record.numbers = @ \cup {number},
                     !.record.satSeqs = @ \cup (sats \X {seq}),
                     !.record.children = @ \cup (parents \X {seq}),
                     !.record.entries = @ \cup {seq},
                     !.record.ids = @ \cup {f.id}]
        /\ run' = [run EXCEPT !.next = run.next + 1, !.stats.cursed = cursed,
                              !.stats.blessed = blessed, !.stats.unbound = unb]
    BY <1>1, <1>8 DEF Inscribe
  <2>. DEFINE number1 == staged.record.numbers \cup {number}
              satSeqs1 == staged.record.satSeqs \cup (sats \X {seq})
              children1 == staged.record.children \cup (parents \X {seq})
              entries1 == staged.record.entries \cup {seq}
              ids1 == staged.record.ids \cup {f.id}
  <2>2. seq \in Nat /\ cursed \in Nat /\ blessed \in Nat /\ unb \in Nat /\ run.next + 1 \in Nat
    BY DEF RunOK, StatsOK
  <2>. HIDE DEF entry, number, sats, parents, cursed, blessed, unb
  <2>3. TabOK(tab')
    <3>1. TabShape(tab') /\ tab'.entries = Put(tab.entries, seq, entry)
          /\ tab'.utxo = tab.utxo /\ tab'.stats = tab.stats
      BY <2>1 DEF TabOK, TabShape
    <3>2. Bounded(DOMAIN tab'.entries)
      <4>1. DOMAIN tab'.entries = DOMAIN tab.entries \cup {seq}
        BY <3>1 DEF Put
      <4>2. Bounded(DOMAIN tab.entries)
        BY DEF TabOK
      <4>. QED BY <2>2, <4>1, <4>2, BoundedFacts
    <3>. QED BY <3>1, <3>2 DEF TabOK
  <2>4. StagedOK(staged') /\ staged'.state = staged.state
    <3>. DEFINE record == [staged.record EXCEPT !.numbers = number1, !.satSeqs = satSeqs1,
                     !.children = children1, !.entries = entries1, !.ids = ids1]
    <3>1. staged' = [staged EXCEPT !.cache = cache, !.record = record]
      BY <2>1 DEF StagedOK, StagedShape
    <3>. HIDE DEF number1, satSeqs1, children1, entries1, ids1
    <3>2. RecordOK(record)
      <4>1. RecordOK(staged.record) /\ RecordShape(staged.record)
        BY DEF StagedOK, RecordOK
      <4>0. record = [staged.record EXCEPT !.numbers = number1, !.satSeqs = satSeqs1,
                     !.children = children1, !.entries = entries1, !.ids = ids1]
        OBVIOUS
      <4>. HIDE DEF record
      <4>2. /\ RecordShape(record) /\ record.removed = staged.record.removed
            /\ record.stats = staged.record.stats
        BY <4>0, <4>1 DEF RecordShape
      <4>. QED BY <4>1, <4>2 DEF RecordOK
    <3>. HIDE DEF record
    <3>. QED BY <1>3, <3>1, <3>2 DEF StagedOK, StagedShape
  <2>5. /\ RunOK(run') /\ "tx" \in DOMAIN run'
        /\ run'.tx = run.tx /\ run'.input = run.input /\ run'.flotsam = run.flotsam
        /\ run'.reward = run.reward /\ run'.fees = run.fees
    <3>. DEFINE stats == [run.stats EXCEPT !.cursed = cursed, !.blessed = blessed, !.unbound = unb]
    <3>1. run' = [run EXCEPT !.next = run.next + 1, !.stats = stats]
      BY <2>1 DEF RunOK, RunShape
    <3>2. StatsOK(stats)
      BY <2>2 DEF RunOK, StatsOK
    <3>. HIDE DEF stats
    <3>. QED BY <2>2, <3>1, <3>2 DEF RunOK, RunShape, AccountsOK
  <2>6. run' # Absent
    BY <2>5, HasFields
  <2>. QED BY <1>5, <2>3, <2>4, <2>5, <2>6
<1>. QED BY <1>7, <1>8

LEMMA LocateFrame == ASSUME Frame, Locate PROVE Frame'
<1>. DEFINE l == tx.located[tx.loc]
            t == [tx EXCEPT !.loc = tx.loc + 1]
<1>1. /\ run # Absent /\ tx # Absent /\ tx.phase = "locations" /\ tx.loc <= Len(tx.located)
      /\ Settle(t, l.flotsam, <<T.id, l.out>>, l.offset, T.outs[l.out].burn)
      /\ UNCHANGED <<chain, records, block, cursor, saved, past>>
  BY DEF Locate, AtLocations
<1>2. /\ run # Absent /\ TxOK(tx) /\ RunOK(run) /\ Indexing /\ InTx /\ block # None
      /\ At = run /\ Work = tx /\ Accounts = run
      /\ This = T /\ (IsLast <=> Coinbase) /\ InputCount = Inputs
      /\ Len(Txs) \in Nat /\ run.tx \in 1..Len(Txs) /\ ContentOK(T)
  BY <1>1, InTxFacts
<1>3. LocationOK(l)
  <2>1. tx.loc \in DOMAIN tx.located
    BY <1>1, <1>2, SeqFacts DEF TxOK, Landed
  <2>. QED BY <1>2, <2>1 DEF TxOK, Landed
<1>4. /\ TxShape(t) /\ EntriesOK(t.outs)
      /\ t.phase = tx.phase /\ t.ins = tx.ins /\ t.inSats = tx.inSats
      /\ t.floating = tx.floating /\ t.id = tx.id
      /\ t.inValue = tx.inValue /\ t.located = tx.located /\ t.outValue = tx.outValue
      /\ t.out = tx.out /\ t.queue = tx.queue /\ t.loc = tx.loc + 1
  BY <1>2 DEF TxOK, TxShape, WorkOK
<1>. HIDE DEF t, l
<1>5. /\ TabOK(tab') /\ StagedOK(staged') /\ staged'.state = staged.state
      /\ RunOK(run') /\ run' # Absent
      /\ run'.tx = run.tx /\ run'.input = run.input /\ run'.flotsam = run.flotsam
      /\ run'.reward = run.reward /\ run'.fees = run.fees
      /\ TxShape(tx') /\ "phase" \in DOMAIN tx' /\ EntriesOK(tx'.outs)
      /\ tx'.phase = t.phase /\ tx'.ins = t.ins /\ tx'.inSats = t.inSats
      /\ tx'.floating = t.floating /\ tx'.id = t.id
      /\ tx'.inValue = t.inValue /\ tx'.located = t.located /\ tx'.outValue = t.outValue
      /\ tx'.out = t.out /\ tx'.queue = t.queue /\ tx'.loc = t.loc
  <2>1. FlotsamOK(l.flotsam) /\ l.offset \in Nat
    BY <1>3 DEF LocationOK
  <2>2. TabOK(tab) /\ StagedOK(staged)
    BY DEF Frame, Types
  <2>. QED BY <1>1, <1>2, <1>4, <2>1, <2>2, SettleFacts
<1>6. TxOK(tx') /\ tx' # Absent
  <2>1. tx' # Absent
    BY <1>5, HasFields
  <2>2. tx.loc + 1 \in Nat \ {0}
    BY <1>2 DEF TxOK
  <2>. QED BY <1>2, <1>4, <1>5, <2>1, <2>2 DEF TxOK, WorkOK
<1>9. /\ InTx' /\ At' = run' /\ Work' = tx' /\ Accounts' = run' /\ Indexing' = Indexing
      /\ Txs' = Txs /\ This' = T /\ (IsLast' <=> Coinbase) /\ InputCount' = Inputs
      /\ PaidOut' = ValueOf(T.outs, Len(T.outs))
      /\ \A n : Paid(n)' = ValueOf(T.outs, n)
  BY <1>1, <1>2, <1>5, <1>6, InTxAfter
<1>11. Types'
  BY <1>1, <1>5, <1>6 DEF Frame, Types
<1>12. Linked'
  BY <1>1, LinkedStays DEF Frame
<1>13. Control'
  BY <1>1, <1>2, <1>4, <1>5, <1>6, <1>9 DEF Frame, Control, Resumes, Indexing
<1>14. Pending'
  BY <1>1, <1>2, <1>4, <1>5, <1>6, <1>9 DEF Frame, Pending, Resumes
<1>15. Counts'
  BY <1>1, <1>2, <1>4, <1>5, <1>6, <1>9 DEF Frame, Counts, Resumes, PaidOut, Paid
<1>16. Balanced'
  BY <1>1, <1>2, <1>4, <1>5, <1>9 DEF Frame, Balanced, PaidOut, Paid
<1>. QED BY <1>11, <1>12, <1>13, <1>14, <1>15, <1>16 DEF Frame

LEMMA LoseFrame == ASSUME Frame, Lose PROVE Frame'
<1>. DEFINE f == Head(tx.queue)
            queue == Tail(tx.queue)
            t == [tx EXCEPT !.queue = queue]
            offset == run.stats.lost + f.offset - tx.outValue
<1>1. /\ run # Absent /\ tx # Absent /\ tx.phase = "rest" /\ Coinbase /\ tx.queue # << >>
      /\ Settle(t, f, Null, offset, FALSE)
      /\ UNCHANGED <<chain, records, block, cursor, saved, past>>
  BY DEF Lose
<1>2. /\ run # Absent /\ TxOK(tx) /\ RunOK(run) /\ Indexing /\ InTx /\ block # None
      /\ At = run /\ Work = tx /\ Accounts = run
      /\ This = T /\ (IsLast <=> Coinbase) /\ InputCount = Inputs
      /\ Len(Txs) \in Nat /\ run.tx \in 1..Len(Txs) /\ ContentOK(T)
  BY <1>1, InTxFacts
<1>3. /\ tx.outValue = ValueOf(T.outs, Len(T.outs)) /\ Ready(tx.queue, tx.outValue)
  BY <1>1, <1>2 DEF Frame, Counts, PaidOut, Paid
<1>4. /\ Ready(queue, tx.outValue) /\ Flotsams(queue) /\ FlotsamOK(f) /\ tx.outValue <= f.offset
  <2>1. Ready(queue, tx.outValue) /\ FlotsamOK(f) /\ tx.outValue <= f.offset
    BY <1>1, <1>3, TailReady
  <2>. QED BY <2>1 DEF Ready
<1>. HIDE DEF f, queue
<1>5. offset \in Nat
  <2>1. run.stats.lost \in Nat /\ f.offset \in Nat /\ tx.outValue \in Nat
    BY <1>2, <1>4 DEF RunOK, StatsOK, FlotsamOK, TxOK
  <2>. QED BY <1>4, <2>1
<1>. HIDE DEF offset
<1>6. /\ TxShape(t) /\ EntriesOK(t.outs)
      /\ t.phase = tx.phase /\ t.ins = tx.ins /\ t.inSats = tx.inSats
      /\ t.floating = tx.floating /\ t.id = tx.id
      /\ t.inValue = tx.inValue /\ t.located = tx.located /\ t.outValue = tx.outValue
      /\ t.out = tx.out /\ t.queue = queue /\ t.loc = tx.loc
  BY <1>2 DEF TxOK, TxShape, WorkOK
<1>. HIDE DEF t
<1>7. /\ TabOK(tab') /\ StagedOK(staged') /\ staged'.state = staged.state
      /\ RunOK(run') /\ run' # Absent
      /\ run'.tx = run.tx /\ run'.input = run.input /\ run'.flotsam = run.flotsam
      /\ run'.reward = run.reward /\ run'.fees = run.fees
      /\ TxShape(tx') /\ "phase" \in DOMAIN tx' /\ EntriesOK(tx'.outs)
      /\ tx'.phase = t.phase /\ tx'.ins = t.ins /\ tx'.inSats = t.inSats
      /\ tx'.floating = t.floating /\ tx'.id = t.id
      /\ tx'.inValue = t.inValue /\ tx'.located = t.located /\ tx'.outValue = t.outValue
      /\ tx'.out = t.out /\ tx'.queue = t.queue /\ tx'.loc = t.loc
  <2>2. TabOK(tab) /\ StagedOK(staged)
    BY DEF Frame, Types
  <2>. QED BY <1>1, <1>2, <1>4, <1>5, <1>6, <2>2, SettleFacts
<1>8. TxOK(tx') /\ tx' # Absent
  <2>1. tx' # Absent
    BY <1>7, HasFields
  <2>. QED BY <1>2, <1>4, <1>6, <1>7, <2>1 DEF TxOK, WorkOK
<1>9. /\ InTx' /\ At' = run' /\ Work' = tx' /\ Accounts' = run' /\ Indexing' = Indexing
      /\ Txs' = Txs /\ This' = T /\ (IsLast' <=> Coinbase) /\ InputCount' = Inputs
      /\ PaidOut' = ValueOf(T.outs, Len(T.outs))
      /\ \A n : Paid(n)' = ValueOf(T.outs, n)
  BY <1>1, <1>2, <1>7, <1>8, InTxAfter
<1>11. Types'
  BY <1>1, <1>7, <1>8 DEF Frame, Types
<1>12. Linked'
  BY <1>1, LinkedStays DEF Frame
<1>13. Control'
  BY <1>1, <1>2, <1>6, <1>7, <1>8, <1>9 DEF Frame, Control, Resumes, Indexing
<1>14. Pending'
  BY <1>1, <1>2, <1>6, <1>7, <1>8, <1>9 DEF Frame, Pending, Resumes
<1>15. Counts'
  BY <1>1, <1>2, <1>4, <1>6, <1>7, <1>8, <1>9 DEF Frame, Counts, Resumes, PaidOut, Paid
<1>16. Balanced'
  BY <1>1, <1>2, <1>6, <1>7, <1>9 DEF Frame, Balanced, PaidOut, Paid
<1>. QED BY <1>11, <1>12, <1>13, <1>14, <1>15, <1>16 DEF Frame

\* What the outputs of a transaction leave, behind what waits for the coinbase.
LEMMA RestFlotsams ==
  ASSUME NEW q, NEW v \in Nat, Ready(q, v), NEW reward \in Nat
  PROVE  LET rest == [i \in DOMAIN q |-> [q[i] EXCEPT !.offset = reward + q[i].offset - v]]
         IN Flotsams(rest)
<1>. DEFINE rest == [i \in DOMAIN q |-> [q[i] EXCEPT !.offset = reward + q[i].offset - v]]
<1>1. IsSeq(q) /\ Len(q) \in Nat /\ DOMAIN q = 1..Len(q)
  BY SeqFacts DEF Ready, Flotsams
<1>2. \A i \in DOMAIN q : FlotsamOK(rest[i])
  <2>. SUFFICES ASSUME NEW i \in DOMAIN q PROVE FlotsamOK(rest[i])
    OBVIOUS
  <2>. DEFINE d == reward + q[i].offset - v
              f == q[i]
  <2>1. FlotsamOK(f) /\ v <= f.offset
    BY DEF Ready, Flotsams
  <2>2. d \in Nat
    BY <2>1 DEF FlotsamOK
  <2>3. rest[i] = [f EXCEPT !.offset = d]
    OBVIOUS
  <2>. HIDE DEF d, f, rest
  <2>. QED BY <2>1, <2>2, <2>3 DEF FlotsamOK
<1>3. IsSeq(rest) /\ DOMAIN rest = DOMAIN q
  <2>1. rest = [i \in 1..Len(q) |-> rest[i]]
    BY <1>1
  <2>. HIDE DEF rest
  <2>. QED BY <1>1, <2>1, FcnSeq, SeqFacts
<1>. HIDE DEF rest
<1>4. Flotsams(rest)
  BY <1>2, <1>3 DEF Flotsams
<1>. QED BY <1>4 DEF rest

LEMMA FinishTransactionFrame == ASSUME Frame, FinishTransaction PROVE Frame'
<1>. DEFINE rest == [i \in DOMAIN tx.queue |->
                       [tx.queue[i] EXCEPT !.offset = run.reward + tx.queue[i].offset - tx.outValue]]
            flotsam == IF Coinbase THEN run.flotsam ELSE run.flotsam \o rest
            reward == IF Coinbase THEN run.reward ELSE run.reward + tx.inValue - tx.outValue
            lost == IF Coinbase THEN run.stats.lost + run.reward - tx.outValue ELSE run.stats.lost
            outs == [o \in {<<T.id, v>> : v \in DOMAIN tx.outs} |-> tx.outs[o[2]]]
            cache == PutAll(staged.cache, outs)
<1>1. /\ run # Absent /\ tx # Absent /\ tx.phase = "rest"
      /\ run' = IF Coinbase
                THEN [run EXCEPT !.tx = run.tx + 1, !.stats.lost = lost]
                ELSE [run EXCEPT !.tx = run.tx + 1, !.flotsam = flotsam, !.reward = reward]
      /\ staged' = [staged EXCEPT !.cache = cache]
      /\ saved' = [saved EXCEPT !.tx = Absent]
      /\ tx' = Absent
      /\ UNCHANGED <<chain, tab, records, block, cursor, past>>
  <2>1. RunShape(run)
    BY InTxFacts DEF FinishTransaction, RunOK
  <2>2. /\ run # Absent /\ tx # Absent /\ tx.phase = "rest"
        /\ run' = IF Coinbase
                  THEN [[run EXCEPT !.tx = @ + 1] EXCEPT !.stats.lost = @ + run.reward - tx.outValue]
                  ELSE [[run EXCEPT !.tx = @ + 1] EXCEPT !.flotsam = @ \o rest,
                                    !.reward = @ + tx.inValue - tx.outValue]
        /\ staged' = [staged EXCEPT !.cache = cache]
        /\ saved' = [saved EXCEPT !.tx = Absent]
        /\ tx' = Absent
        /\ UNCHANGED <<chain, tab, records, block, cursor, past>>
    BY DEF FinishTransaction
  <2>. HIDE DEF rest, cache
  <2>3. CASE Coinbase
    BY <2>1, <2>2, <2>3 DEF RunShape
  <2>4. CASE ~Coinbase
    <3>. DEFINE r == [run EXCEPT !.tx = @ + 1]
                fl == run.flotsam \o rest
    <3>1. r.flotsam = run.flotsam /\ r.reward = run.reward
      BY <2>1 DEF RunShape
    <3>2. run' = [r EXCEPT !.flotsam = fl, !.reward = run.reward + tx.inValue - tx.outValue]
      BY <2>2, <2>4, <3>1
    <3>. HIDE DEF fl
    <3>3. run' = [run EXCEPT !.tx = run.tx + 1, !.flotsam = fl, !.reward = run.reward + tx.inValue - tx.outValue]
      BY <2>1, <3>2 DEF RunShape
    <3>. QED BY <2>2, <2>4, <3>3 DEF fl
  <2>. QED BY <2>3, <2>4
<1>2. /\ run # Absent /\ TxOK(tx) /\ RunOK(run) /\ Indexing /\ InTx /\ block # None
      /\ At = run /\ Work = tx /\ Accounts = run
      /\ This = T /\ (IsLast <=> Coinbase) /\ InputCount = Inputs
      /\ Len(Txs) \in Nat /\ run.tx \in 1..Len(Txs) /\ ContentOK(T)
  BY <1>1, InTxFacts
<1>3. /\ tx.outValue = ValueOf(T.outs, Len(T.outs)) /\ Ready(tx.queue, tx.outValue)
      /\ ~Coinbase => tx.inValue = Len(tx.inSats)
      /\ run.reward \in Nat /\ tx.outValue \in Nat /\ tx.inValue \in Nat
  BY <1>1, <1>2 DEF Frame, Counts, PaidOut, Paid, TxOK, RunOK, AccountsOK
<1>4. /\ tx.outValue <= Len(tx.inSats)
      /\ Coinbase => tx.inSats = run.fees /\ Len(run.fees) = run.reward
      /\ ~Coinbase => Len(run.fees) + tx.outValue = run.reward + Len(tx.inSats)
  BY <1>1, <1>2, <1>3 DEF Frame, Balanced, PaidOut, Paid
<1>5. Flotsams(flotsam)
  <2>1. Flotsams(rest)
    BY <1>3, RestFlotsams
  <2>. HIDE DEF rest
  <2>2. Flotsams(run.flotsam)
    BY <1>2 DEF RunOK, AccountsOK
  <2>. QED BY <2>1, <2>2, ConcatFlotsams
<1>6. reward \in Nat /\ lost \in Nat /\ reward = Len(run.fees)
  <2>1. Len(run.fees) \in Nat /\ Len(tx.inSats) \in Nat /\ run.stats.lost \in Nat
    BY <1>2, SeqFacts DEF RunOK, AccountsOK, TxOK, WorkOK, StatsOK
  <2>2. CASE Coinbase
    <3>1. reward = run.reward /\ lost = run.stats.lost + run.reward - tx.outValue
      BY <2>2
    <3>2. tx.outValue <= run.reward /\ Len(run.fees) = run.reward
      BY <1>4, <2>2
    <3>. HIDE DEF reward, lost
    <3>. QED BY <1>3, <2>1, <3>1, <3>2
  <2>3. CASE ~Coinbase
    <3>1. reward = run.reward + tx.inValue - tx.outValue /\ lost = run.stats.lost
      BY <2>3
    <3>2. tx.inValue = Len(tx.inSats) /\ Len(run.fees) + tx.outValue = run.reward + Len(tx.inSats)
      BY <1>3, <1>4, <2>3
    <3>. HIDE DEF reward, lost
    <3>. DEFINE a == Len(run.fees)
                b == tx.outValue
                c == run.reward
                d == tx.inValue
    <3>3. a \in Nat /\ b \in Nat /\ c \in Nat /\ d \in Nat /\ a + b = c + d
      BY <1>3, <2>1, <3>2
    <3>4. run.reward + tx.inValue - tx.outValue = Len(run.fees)
      <4>. HIDE DEF a, b, c, d
      <4>1. c + d - b = a
        BY <3>3
      <4>. QED BY <4>1 DEF a, b, c, d
    <3>. QED BY <2>1, <3>1, <3>4
  <2>. QED BY <2>2, <2>3
<1>. HIDE DEF flotsam, lost, outs
<1>7. EntriesOK(cache)
  <2>1. EntriesOK(staged.cache)
    BY DEF Frame, Types, StagedOK
  <2>2. \A o \in DOMAIN outs : EntryOK(outs[o])
    BY <1>2 DEF outs, TxOK, WorkOK, EntriesOK
  <2>3. /\ cache = [o \in DOMAIN cache |-> cache[o]] /\ DOMAIN cache = DOMAIN outs \cup DOMAIN staged.cache
        /\ \A o \in DOMAIN cache : cache[o] = IF o \in DOMAIN outs THEN outs[o] ELSE staged.cache[o]
    BY DEF PutAll
  <2>. HIDE DEF cache
  <2>. QED BY <2>1, <2>2, <2>3 DEF EntriesOK
<1>. HIDE DEF cache, reward
<1>8. StagedOK(staged') /\ staged'.state = staged.state
  BY <1>1, <1>7 DEF Frame, Types, StagedOK, StagedShape
<1>9. /\ RunOK(run') /\ run' # Absent
      /\ run'.tx = run.tx + 1 /\ run'.input = run.input
      /\ run'.reward = reward /\ run'.fees = run.fees
  <2>1. RunShape(run) /\ RunOK(run)
    BY <1>2 DEF RunOK
  <2>. DEFINE stats == IF Coinbase THEN [run.stats EXCEPT !.lost = lost] ELSE run.stats
  <2>2. run' = IF Coinbase
               THEN [run EXCEPT !.tx = run.tx + 1, !.stats = stats]
               ELSE [run EXCEPT !.tx = run.tx + 1, !.flotsam = flotsam, !.reward = reward]
    BY <1>1, <2>1 DEF RunShape
  <2>3. StatsOK(stats)
    BY <1>6, <2>1 DEF RunOK, StatsOK
  <2>4. Coinbase => flotsam = run.flotsam /\ reward = run.reward
    BY DEF flotsam, reward
  <2>5. ~Coinbase => stats = run.stats
    OBVIOUS
  <2>. HIDE DEF stats
  <2>6. /\ RunShape(run') /\ "tx" \in DOMAIN run'
        /\ run'.tx = run.tx + 1 /\ run'.input = run.input
        /\ run'.inscription = run.inscription /\ run'.next = run.next
        /\ run'.stats = stats /\ run'.flotsam = flotsam
        /\ run'.reward = reward /\ run'.fees = run.fees /\ run'.lost = run.lost
    BY <2>1, <2>2, <2>4, <2>5 DEF RunShape
  <2>7. run' # Absent
    BY <2>6, HasFields
  <2>8. run.tx + 1 \in Nat \ {0}
    BY <1>2
  <2>. QED BY <1>5, <1>6, <2>1, <2>3, <2>6, <2>7, <2>8 DEF RunOK, AccountsOK
<1>10. /\ SavedOK(saved') /\ saved'.tx = Absent
       /\ saved'.in1 = Absent /\ saved'.in2 = Absent /\ saved'.in3 = Absent
  <2>1. SavedOK(saved) /\ SavedShape(saved)
    BY DEF Frame, Types, SavedOK
  <2>2. /\ SavedShape(saved') /\ saved'.block = saved.block /\ saved'.tx = Absent
        /\ saved'.in1 = saved.in1 /\ saved'.in2 = saved.in2 /\ saved'.in3 = saved.in3
    BY <1>1, <2>1 DEF SavedShape
  <2>3. saved.in1 = Absent /\ saved.in2 = Absent /\ saved.in3 = Absent
    BY <1>1 DEF Frame, Control
  <2>. QED BY <2>1, <2>2, <2>3 DEF SavedOK
<1>17. /\ ~InTx' /\ At' = run' /\ Accounts' = run' /\ Indexing'
       /\ Txs' = Txs
  BY <1>1, <1>2, <1>8, <1>9, <1>10 DEF InTx, At, Accounts, Indexing, Txs, InOrder
<1>11. Types'
  BY <1>1, <1>8, <1>9, <1>10 DEF Frame, Types
<1>12. Linked'
  BY <1>1, LinkedStays DEF Frame
<1>13. Control'
  <2>1. run.input = 1 /\ run.tx + 1 \in 1..Len(Txs) + 1
    BY <1>1, <1>2 DEF Frame, Control
  <2>2. block # None
    BY <1>2
  <2>. QED BY <1>1, <1>9, <1>10, <1>17, <2>1, <2>2 DEF Control, Resumes
<1>14. Pending'
  BY <1>1, <1>17 DEF Pending
<1>15. Counts'
  BY <1>1, <1>10, <1>17 DEF Counts
<1>16. Balanced'
  BY <1>6, <1>9, <1>17 DEF Balanced
<1>. QED BY <1>11, <1>12, <1>13, <1>14, <1>15, <1>16 DEF Frame

LEMMA MergedOK ==
  ASSUME NEW a, EntryOK(a), NEW b, EntryOK(b)
  PROVE  EntryOK(Merged(a, b))
<1>. DEFINE S == Nat \X Nat
            sats == a.sats \o b.sats
            ins == a.ins \o b.ins
<1>1. IsSeq(sats)
  BY ConcatSeq DEF EntryOK, IsConcat
<1>2. ins \in Seq(S)
  <2>1. a.ins \in Seq(S) /\ b.ins \in Seq(S)
    BY DEF EntryOK
  <2>. HIDE DEF S
  <2>. QED BY <2>1
<1>3. Merged(a, b) = [sats |-> sats, ins |-> ins]
  BY DEF Merged
<1>. HIDE DEF sats, ins
<1>. QED BY <1>1, <1>2, <1>3 DEF EntryOK

LEMMA CachedOK ==
  ASSUME NEW f, EntriesOK(f), NEW o
  PROVE  EntryOK(Cached(f, o))
  BY NoEntryOK DEF Cached, EntriesOK

LEMMA PutEntry ==
  ASSUME NEW f, EntriesOK(f), NEW o, NEW e, EntryOK(e)
  PROVE  EntriesOK(Put(f, o, e))
<1>1. /\ Put(f, o, e) = [x \in DOMAIN Put(f, o, e) |-> Put(f, o, e)[x]]
      /\ DOMAIN Put(f, o, e) = DOMAIN f \cup {o}
      /\ Put(f, o, e)[o] = e
      /\ \A x \in DOMAIN f : x # o => Put(f, o, e)[x] = f[x]
  BY DEF Put
<1>. QED BY <1>1 DEF EntriesOK

LEMMA DropEntries ==
  ASSUME NEW f, EntriesOK(f), NEW S
  PROVE  EntriesOK(Drop(f, S))
<1>1. /\ Drop(f, S) = [x \in DOMAIN Drop(f, S) |-> Drop(f, S)[x]]
      /\ DOMAIN Drop(f, S) \subseteq DOMAIN f
      /\ \A x \in DOMAIN Drop(f, S) : Drop(f, S)[x] = f[x]
  BY DEF Drop
<1>. QED BY <1>1 DEF EntriesOK

\* Between two transactions of a block.
LEMMA NotInTxFacts ==
  ASSUME Frame, Indexing, ~InTx
  PROVE  tx = Absent /\ saved.tx = Absent /\ saved.in1 = Absent
         /\ saved.in2 = Absent /\ saved.in3 = Absent
  BY DEF Frame, Control, InTx

LEMMA FinishBlockFrame == ASSUME Frame, FinishBlock PROVE Frame'
<1>. DEFINE rare == RareOn(Null, run.lost, tab.stats.lost)
            e == [sats |-> run.lost, ins |-> << >>]
            null == Merged(Cached(staged.cache, Null), e)
            last == Put(tab.last, H, run.next)
            satPoints == PutAll(tab.satPoints, rare)
            stats == [run.stats EXCEPT !.lost = tab.stats.lost + Len(run.lost)]
            cache == IF run.lost = << >> THEN staged.cache ELSE Put(staged.cache, Null, null)
            listed == staged.record.satPoints \cup DOMAIN rare
<1>1. /\ run # Absent /\ tx = Absent /\ run.tx > Len(Txs)
      /\ tab' = [tab EXCEPT !.last = last, !.satPoints = satPoints, !.stats = stats]
      /\ staged' = [staged EXCEPT !.state = "Commit", !.cache = cache,
                                  !.record.satPoints = listed, !.record.stats = tab.stats]
      /\ saved' = [saved EXCEPT !.block = Absent]
      /\ run' = Absent
      /\ UNCHANGED <<chain, records, block, cursor, tx, past>>
  BY DEF FinishBlock
<1>2. RunOK(run) /\ TabOK(tab) /\ StagedOK(staged) /\ Indexing /\ At = run /\ block # None
  BY <1>1 DEF Frame, Types, Control, At, Indexing
<1>3. ~InTx
  <2>1. InTx => run.tx <= Len(Txs)
    BY <1>2 DEF Frame, Control
  <2>2. Len(Txs) \in Nat /\ run.tx \in Nat
    BY <1>2, TxsFacts DEF Frame, RunOK
  <2>. QED BY <1>1, <2>1, <2>2
<1>4. saved' = NoSaved
  <2>1. SavedShape(saved)
    BY DEF Frame, Types, SavedOK
  <2>. QED BY <1>1, <1>2, <1>3, <2>1, NotInTxFacts DEF NoSaved, SavedShape
<1>. HIDE DEF last, satPoints, listed, rare
<1>5. EntriesOK(cache)
  <2>1. EntryOK(e)
    <3>1. << >> \in Seq(Nat \X Nat)
      OBVIOUS
    <3>. QED BY <1>2, <3>1 DEF EntryOK, RunOK, AccountsOK
  <2>. HIDE DEF e
  <2>2. EntriesOK(staged.cache)
    BY <1>2 DEF StagedOK
  <2>3. EntryOK(null)
    BY <2>1, <2>2, CachedOK, MergedOK
  <2>. HIDE DEF null
  <2>. QED BY <2>2, <2>3, PutEntry
<1>. HIDE DEF cache
<1>6. StatsOK(stats)
  <2>1. Len(run.lost) \in Nat
    BY <1>2, SeqFacts DEF RunOK, AccountsOK
  <2>. DEFINE n == tab.stats.lost + Len(run.lost)
  <2>2. n \in Nat
    BY <1>2, <2>1 DEF TabOK, StatsOK
  <2>. HIDE DEF n
  <2>3. StatsOK([run.stats EXCEPT !.lost = n])
    BY <1>2, <2>2 DEF RunOK, StatsOK
  <2>. QED BY <2>3 DEF n
<1>. HIDE DEF stats
<1>7. TabOK(tab')
  <2>1. /\ TabShape(tab') /\ tab'.entries = tab.entries /\ tab'.utxo = tab.utxo
        /\ tab'.stats = stats
    BY <1>1, <1>2 DEF TabOK, TabShape
  <2>. QED BY <1>2, <1>6, <2>1 DEF TabOK
<1>8. StagedOK(staged') /\ staged'.state = "Commit"
  <2>. DEFINE record == [staged.record EXCEPT !.satPoints = listed, !.stats = tab.stats]
  <2>1. staged' = [staged EXCEPT !.state = "Commit", !.cache = cache, !.record = record]
    BY <1>1, <1>2 DEF StagedOK, StagedShape
  <2>2. record = [staged.record EXCEPT !.satPoints = listed, !.stats = tab.stats]
    OBVIOUS
  <2>. HIDE DEF record
  <2>3. RecordOK(record)
    <3>1. RecordOK(staged.record) /\ RecordShape(staged.record)
      BY <1>2 DEF StagedOK, RecordOK
    <3>2. /\ RecordShape(record) /\ record.removed = staged.record.removed
          /\ record.stats = tab.stats
      BY <2>2, <3>1 DEF RecordShape
    <3>. QED BY <1>2, <3>1, <3>2 DEF RecordOK, TabOK
  <2>. QED BY <1>2, <1>5, <2>1, <2>3 DEF StagedOK, StagedShape
<1>9. SavedOK(saved')
  BY <1>4 DEF SavedOK, SavedShape, NoSaved
<1>10. ~InTx' /\ ~Indexing' /\ tx' = Absent /\ run' = Absent
  BY <1>1, <1>4, <1>8 DEF InTx, Indexing, NoSaved
<1>11. Types'
  BY <1>1, <1>7, <1>8, <1>9 DEF Frame, Types
<1>12. Linked'
  BY <1>1, LinkedStays DEF Frame
<1>13. Control'
  BY <1>1, <1>2, <1>4, <1>10 DEF Frame, Control, NoSaved
<1>14. Pending'
  BY <1>10 DEF Pending
<1>15. Counts'
  BY <1>4, <1>10 DEF Counts, NoSaved
<1>16. Balanced'
  BY <1>10 DEF Balanced
<1>. QED BY <1>11, <1>12, <1>13, <1>14, <1>15, <1>16 DEF Frame

LEMMA SubSeqOf ==
  ASSUME NEW s, IsSeq(s), NEW m \in Nat, NEW n \in Nat, m <= n, n <= Len(s)
  PROVE  IsSeq(SubSeq(s, m + 1, n)) /\ Len(SubSeq(s, m + 1, n)) = n - m
         /\ \A i \in 1..n - m : SubSeq(s, m + 1, n)[i] = s[m + i]
<1>. DEFINE S == ToSet(s)
            r == SubSeq(s, m + 1, n)
<1>1. s \in Seq(S)
  BY DEF IsSeq
<1>. HIDE DEF S
<1>2. r \in Seq(S) /\ Len(r) = n - m /\ \A i \in 1..n - m : r[i] = s[m + i]
  BY <1>1
<1>. HIDE DEF r
<1>3. IsSeq(r)
  BY <1>2, SeqOver
<1>. QED BY <1>2, <1>3 DEF r

LEMMA OutputsOK ==
  ASSUME ContentOK(T), NEW inSats, IsSeq(inSats), ValueOf(T.outs, Len(T.outs)) <= Len(inSats)
  PROVE  /\ EntriesOK(Outputs(inSats)) /\ DOMAIN Outputs(inSats) = DOMAIN T.outs
         /\ \A v \in DOMAIN T.outs : Outputs(inSats)[v].ins = << >>
<1>. DEFINE from(v) == ValueOf(T.outs, v - 1)
            part(v) == SubSeq(inSats, from(v) + 1, from(v) + T.outs[v].value)
<1>1. Outputs(inSats) = [v \in DOMAIN T.outs |-> [sats |-> part(v), ins |-> << >>]]
  BY DEF Outputs
<1>2. ASSUME NEW v \in DOMAIN T.outs PROVE IsSeq(part(v))
  <2>1. /\ from(v) \in Nat /\ T.outs[v].value \in Nat
        /\ from(v) + T.outs[v].value <= ValueOf(T.outs, Len(T.outs))
        /\ ValueOf(T.outs, Len(T.outs)) \in Nat
    <3>1. /\ DOMAIN T.outs = 1..Len(T.outs) /\ Len(T.outs) \in Nat
          /\ \A n \in 0..Len(T.outs) : /\ ValueOf(T.outs, n) \in Nat
                                      /\ ValueOf(T.outs, n) <= ValueOf(T.outs, Len(T.outs))
          /\ \A n \in 1..Len(T.outs) : /\ T.outs[n].value \in Nat
                                      /\ ValueOf(T.outs, n) = ValueOf(T.outs, n - 1) + T.outs[n].value
      BY PaidFacts
    <3>2. v \in 1..Len(T.outs) /\ v - 1 \in 0..Len(T.outs) /\ v \in 0..Len(T.outs)
          /\ Len(T.outs) \in 0..Len(T.outs)
      BY <3>1
    <3>. QED BY <3>1, <3>2
  <2>2. Len(inSats) \in Nat
    BY SeqFacts
  <2>. DEFINE a == from(v)
              b == from(v) + T.outs[v].value
  <2>3. a \in Nat /\ b \in Nat /\ a <= b /\ b <= Len(inSats)
    BY <2>1, <2>2
  <2>4. part(v) = SubSeq(inSats, a + 1, b)
    OBVIOUS
  <2>. HIDE DEF a, b, part
  <2>. QED BY <2>3, <2>4, SubSeqOf
<1>3. << >> \in Seq(Nat \X Nat)
  OBVIOUS
<1>. HIDE DEF part
<1>. QED BY <1>1, <1>2, <1>3 DEF EntriesOK, EntryOK

\* Before a transaction of the block.
LEMMA BeforeTxFacts ==
  ASSUME Frame, run # Absent, tx = Absent, saved.tx = Absent, run.tx <= Len(Txs)
  PROVE  /\ RunOK(run) /\ TabOK(tab) /\ StagedOK(staged) /\ Indexing /\ At = run /\ Accounts = run
         /\ block # None /\ ~InTx
         /\ saved.in1 = Absent /\ saved.in2 = Absent /\ saved.in3 = Absent
         /\ run.tx \in 1..Len(Txs) /\ Len(Txs) \in Nat /\ ContentOK(T) /\ run.input = 1
         /\ Len(run.fees) = run.reward
<1>1. /\ RunOK(run) /\ TabOK(tab) /\ StagedOK(staged) /\ Indexing /\ At = run /\ Accounts = run
      /\ block # None /\ ~InTx
  BY DEF Frame, Types, Control, At, Indexing, InTx, Accounts
<1>2. saved.in1 = Absent /\ saved.in2 = Absent /\ saved.in3 = Absent
  BY <1>1, NotInTxFacts
<1>3. Len(Txs) \in Nat /\ \A i \in 1..Len(Txs) : ContentOK(Txs[i])
  BY <1>1, TxsFacts DEF Frame
<1>4. run.tx \in 1..Len(Txs)
  BY <1>1, <1>3 DEF RunOK
<1>5. run.input = 1 /\ Len(run.fees) = run.reward
  BY <1>1 DEF Frame, Control, Balanced
<1>. QED BY <1>1, <1>2, <1>3, <1>4, <1>5 DEF T

LEMMA SpendFrame == ASSUME Frame, Spend PROVE Frame'
<1>. DEFINE cache == staged.cache
            spent == IF Coinbase THEN {} ELSE ToSet(T.ins)
            stored == spent \ DOMAIN cache
            entry(o) == IF o \in DOMAIN cache THEN cache[o] ELSE tab.utxo[o]
            ins == IF Coinbase THEN << >> ELSE [i \in DOMAIN T.ins |-> entry(T.ins[i])]
            inSats == IF Coinbase THEN run.fees ELSE SatsOf(ins, Len(ins))
            outs == Outputs(inSats)
            rare == RareOnOutputs(outs)
            V == ValueOf(T.outs, Len(T.outs))
            left == SubSeq(inSats, V + 1, Len(inSats))
            fees == IF Coinbase THEN run.fees ELSE run.fees \o left
            lost == IF Coinbase THEN run.lost \o left ELSE run.lost
            utxo == Drop(tab.utxo, stored)
            satPoints == PutAll(tab.satPoints, rare)
            cache1 == Drop(cache, spent)
            removed == staged.record.removed \cup {<<o, tab.utxo[o]>> : o \in stored}
            listed == staged.record.satPoints \cup DOMAIN rare
<1>1. /\ run # Absent /\ tx = Absent /\ run.tx <= Len(Txs) /\ saved.tx = Absent
      /\ stored \subseteq DOMAIN tab.utxo
      /\ V <= Len(inSats)
      /\ tab' = [tab EXCEPT !.utxo = utxo, !.satPoints = satPoints]
      /\ staged' = [staged EXCEPT !.cache = cache1, !.record.removed = removed,
                                  !.record.satPoints = listed]
      /\ run' = [run EXCEPT !.fees = fees, !.lost = lost]
      /\ tx' = Fresh(ins, outs, inSats)
      /\ UNCHANGED <<chain, records, block, cursor, saved, past>>
  <2>1. RunShape(run)
    BY DEF Spend, Frame, Types, RunOK
  <2>2. /\ run # Absent /\ tx = Absent /\ run.tx <= Len(Txs) /\ saved.tx = Absent
        /\ stored \subseteq DOMAIN tab.utxo
        /\ V <= Len(inSats)
        /\ tab' = [tab EXCEPT !.utxo = utxo, !.satPoints = satPoints]
        /\ staged' = [staged EXCEPT !.cache = cache1, !.record.removed = removed,
                                  !.record.satPoints = listed]
        /\ run' = IF Coinbase THEN [run EXCEPT !.lost = run.lost \o left]
                  ELSE [run EXCEPT !.fees = run.fees \o left]
        /\ tx' = Fresh(ins, outs, inSats)
        /\ UNCHANGED <<chain, records, block, cursor, saved, past>>
    BY DEF Spend
  <2>. DEFINE l == run.lost \o left
              f == run.fees \o left
  <2>3. run' = IF Coinbase THEN [run EXCEPT !.lost = l] ELSE [run EXCEPT !.fees = f]
    BY <2>2
  <2>4. fees = (IF Coinbase THEN run.fees ELSE f) /\ lost = (IF Coinbase THEN l ELSE run.lost)
    OBVIOUS
  <2>. HIDE DEF l, f, fees, lost
  <2>5. run' = [run EXCEPT !.fees = fees, !.lost = lost]
    BY <2>1, <2>3, <2>4 DEF RunShape
  <2>. QED BY <2>2, <2>5
<1>2. /\ RunOK(run) /\ TabOK(tab) /\ StagedOK(staged) /\ Indexing /\ At = run /\ Accounts = run
      /\ block # None /\ ~InTx
      /\ saved.in1 = Absent /\ saved.in2 = Absent /\ saved.in3 = Absent
      /\ run.tx \in 1..Len(Txs) /\ Len(Txs) \in Nat /\ ContentOK(T) /\ run.input = 1
      /\ Len(run.fees) = run.reward
  BY <1>1, BeforeTxFacts
<1>3. /\ saved.in1 = Absent /\ saved.in2 = Absent /\ saved.in3 = Absent
  BY <1>2
<1>4. run.tx \in 1..Len(Txs) /\ Len(Txs) \in Nat /\ ContentOK(T) /\ run.input = 1
  BY <1>2
<1>5. Len(run.fees) = run.reward /\ IsSeq(run.fees) /\ IsSeq(run.lost) /\ run.reward \in Nat
  BY <1>2 DEF RunOK, AccountsOK
<1>6. /\ IsSeq(ins) /\ (\A i \in DOMAIN ins : EntryOK(ins[i]))
      /\ ~Coinbase => Len(ins) = Len(T.ins)
  <2>1. CASE Coinbase
    <3>1. ins = << >>
      BY <2>1
    <3>. HIDE DEF ins
    <3>. QED BY <2>1, <3>1, NothingSeq
  <2>2. CASE ~Coinbase
    <3>1. Len(T.ins) \in Nat /\ DOMAIN T.ins = 1..Len(T.ins)
      BY <1>4, SeqFacts DEF ContentOK
    <3>2. ins = [i \in 1..Len(T.ins) |-> entry(T.ins[i])]
      BY <2>2, <3>1
    <3>3. ASSUME NEW i \in 1..Len(T.ins) PROVE EntryOK(entry(T.ins[i]))
      <4>1. T.ins[i] \in spent
        BY <2>2, <3>1 DEF ToSet
      <4>2. T.ins[i] \in DOMAIN cache \/ T.ins[i] \in DOMAIN tab.utxo
        BY <1>1, <4>1
      <4>. QED BY <1>2, <4>2 DEF StagedOK, TabOK, EntriesOK
    <3>. HIDE DEF ins, entry
    <3>4. \A i \in 1..Len(T.ins) : ins[i] = entry(T.ins[i])
      BY <3>2
    <3>5. ins = [i \in 1..Len(T.ins) |-> ins[i]] /\ DOMAIN ins = 1..Len(T.ins)
      BY <3>2
    <3>. QED BY <3>1, <3>3, <3>4, <3>5, FcnSeq
  <2>. QED BY <2>1, <2>2
<1>. HIDE DEF ins, entry
<1>7. IsSeq(inSats) /\ (Coinbase => inSats = run.fees)
      /\ (~Coinbase => inSats = SatsOf(ins, Len(ins)))
  <2>1. Len(ins) \in Nat /\ \A i \in 1..Len(ins) : IsSeq(ins[i].sats)
    BY <1>6, SeqFacts DEF EntryOK
  <2>2. ASSUME NEW n \in Nat, \A i \in 1..n : IsSeq(ins[i].sats) PROVE IsSeq(SatsOf(ins, n))
    <3>1. n \in 0..n
      OBVIOUS
    <3>. QED BY ONLY <2>2, <3>1, SatsAreSeq
  <2>3. IsSeq(SatsOf(ins, Len(ins)))
    BY ONLY <2>1, <2>2
  <2>. QED BY <1>5, <2>3
<1>. HIDE DEF inSats
<1>8. EntriesOK(outs)
  BY <1>1, <1>4, <1>7, OutputsOK
<1>9. V \in Nat /\ Len(inSats) \in Nat /\ IsSeq(left) /\ Len(left) = Len(inSats) - V
  <2>1. V \in Nat
    BY <1>4, PaidFacts
  <2>2. Len(inSats) \in Nat
    BY <1>7, SeqFacts
  <2>. HIDE DEF V
  <2>. QED BY <1>1, <1>7, <2>1, <2>2, SubSeqOf
<1>. HIDE DEF left, outs
<1>10. IsSeq(fees) /\ IsSeq(lost) /\ (Coinbase => fees = run.fees)
       /\ (~Coinbase => Len(fees) = Len(run.fees) + Len(left))
  <2>1. IsConcat(run.fees \o left, run.fees, left) /\ IsConcat(run.lost \o left, run.lost, left)
    BY <1>5, <1>9, ConcatSeq
  <2>. QED BY <1>5, <2>1 DEF IsConcat
<1>. HIDE DEF fees, lost, satPoints, rare, listed
<1>17. EntriesOK(utxo) /\ EntriesOK(cache1)
  BY <1>2, DropEntries DEF TabOK, StagedOK
<1>18. \A p \in removed : EntryOK(p[2])
  <2>1. \A p \in staged.record.removed : EntryOK(p[2])
    BY <1>2 DEF StagedOK, RecordOK
  <2>2. \A o \in stored : EntryOK(tab.utxo[o])
    BY <1>1, <1>2 DEF TabOK, EntriesOK
  <2>. QED BY <2>1, <2>2
<1>. HIDE DEF utxo, cache1, removed
<1>19. TabOK(tab')
  <2>1. /\ TabShape(tab') /\ tab'.entries = tab.entries /\ tab'.utxo = utxo
        /\ tab'.stats = tab.stats
    BY <1>1, <1>2 DEF TabOK, TabShape
  <2>. QED BY <1>2, <1>17, <2>1 DEF TabOK
<1>20. StagedOK(staged') /\ staged'.state = staged.state
  <2>. DEFINE record == [staged.record EXCEPT !.removed = removed, !.satPoints = listed]
  <2>1. staged' = [staged EXCEPT !.cache = cache1, !.record = record]
    BY <1>1, <1>2 DEF StagedOK, StagedShape
  <2>2. record = [staged.record EXCEPT !.removed = removed, !.satPoints = listed]
    OBVIOUS
  <2>. HIDE DEF record
  <2>3. RecordOK(record)
    <3>1. RecordOK(staged.record) /\ RecordShape(staged.record)
      BY <1>2 DEF StagedOK, RecordOK
    <3>2. /\ RecordShape(record) /\ record.removed = removed
          /\ record.stats = staged.record.stats
      BY <2>2, <3>1 DEF RecordShape
    <3>. QED BY <1>18, <3>1, <3>2 DEF RecordOK
  <2>. QED BY <1>2, <1>17, <2>1, <2>3 DEF StagedOK, StagedShape
<1>21. /\ RunOK(run') /\ run' # Absent
       /\ run'.tx = run.tx /\ run'.input = 1 /\ run'.flotsam = run.flotsam
       /\ run'.reward = run.reward /\ run'.fees = fees
  <2>1. RunShape(run)
    BY <1>2 DEF RunOK
  <2>2. /\ RunShape(run') /\ "tx" \in DOMAIN run'
        /\ run'.tx = run.tx /\ run'.input = run.input
        /\ run'.inscription = run.inscription /\ run'.next = run.next
        /\ run'.stats = run.stats /\ run'.flotsam = run.flotsam
        /\ run'.reward = run.reward /\ run'.fees = fees /\ run'.lost = lost
    BY <1>1, <2>1 DEF RunShape
  <2>3. run' # Absent
    BY <2>2, HasFields
  <2>. QED BY <1>2, <1>4, <1>10, <2>2, <2>3 DEF RunOK, AccountsOK
<1>22. /\ TxShape(tx') /\ "phase" \in DOMAIN tx'
       /\ tx'.phase = "inputs" /\ tx'.ins = ins /\ tx'.outs = outs
       /\ tx'.inSats = inSats /\ tx'.located = << >> /\ tx'.outValue = 0
       /\ tx'.out = 1 /\ tx'.queue = << >> /\ tx'.loc = 1
       /\ tx'.floating = << >> /\ tx'.id = 0 /\ tx'.inValue = 0
  BY <1>1 DEF Fresh, TxShape
<1>23. TxOK(tx') /\ tx' # Absent
  <2>1. tx' # Absent
    BY <1>22, HasFields
  <2>. QED BY <1>6, <1>7, <1>8, <1>22, <2>1, EmptyLists DEF TxOK, WorkOK
<1>24. /\ InTx' /\ At' = run' /\ Work' = tx' /\ Accounts' = run' /\ Indexing'
       /\ Txs' = Txs /\ This' = T /\ (IsLast' <=> Coinbase) /\ InputCount' = Inputs
       /\ PaidOut' = ValueOf(T.outs, Len(T.outs))
       /\ \A n : Paid(n)' = ValueOf(T.outs, n)
  <2>1. InTx' /\ At' = run' /\ Work' = tx' /\ Accounts' = run' /\ Indexing'
    BY <1>1, <1>2, <1>20, <1>21, <1>23 DEF InTx, At, Work, Accounts, Indexing
  <2>2. Txs' = Txs /\ At'.tx = run.tx
    BY <1>1, <1>21, <2>1 DEF Txs, InOrder
  <2>3. This' = T /\ (IsLast' <=> Coinbase)
    BY <2>2 DEF This, T, IsLast, Coinbase
  <2>4. InputCount' = Inputs
    BY <2>3 DEF InputCount, Inputs
  <2>. QED BY <2>1, <2>2, <2>3, <2>4 DEF PaidOut, Paid
<1>25. Inputs \in Nat
  BY <1>4, SeqFacts DEF Inputs, ContentOK
<1>11. Types'
  BY <1>1, <1>19, <1>20, <1>21, <1>23 DEF Frame, Types
<1>12. Linked'
  BY <1>1, LinkedStays DEF Frame
<1>13. Control'
  BY <1>1, <1>2, <1>3, <1>4, <1>21, <1>22, <1>23, <1>24, <1>25 DEF Frame, Control, Resumes
<1>14. Pending'
  BY <1>1, <1>3, <1>22, <1>23, <1>24 DEF Frame, Pending, Resumes
<1>15. Counts'
  <2>1. tx'.inValue = Len(SatsOf(tx'.ins, run'.input - 1))
    <3>1. SatsOf(ins, 0) = << >> /\ 1 - 1 = 0
      BY SatsStep
    <3>. QED BY <1>21, <1>22, <3>1, EmptyLists
  <2>. QED BY <1>1, <1>3, <1>6, <1>22, <1>23, <1>24, <2>1 DEF Counts, Resumes
<1>16. Balanced'
  <2>1. ~Coinbase => Len(fees) + V = run.reward + Len(inSats)
    BY <1>5, <1>9, <1>10
  <2>. QED BY <1>1, <1>5, <1>7, <1>10, <1>21, <1>22, <1>24, <2>1 DEF Balanced
<1>. QED BY <1>11, <1>12, <1>13, <1>14, <1>15, <1>16 DEF Frame

\* While the cache is committed there is nothing else.
LEMMA CommittingFacts ==
  ASSUME Frame, Committing
  PROVE  /\ ~Indexing /\ run = Absent /\ tx = Absent /\ saved = NoSaved /\ ~InTx
         /\ TabOK(tab) /\ StagedOK(staged) /\ block # None
<1>1. ~Indexing /\ block # None
  BY DEF Committing, Indexing
<1>2. run = Absent /\ tx = Absent /\ saved = NoSaved
  BY <1>1 DEF Frame, Control
<1>. QED BY <1>1, <1>2 DEF Frame, Types, InTx, NoSaved

\* A step that leaves the block where it is while it is committed.
LEMMA CommitStep ==
  ASSUME Frame, Committing, UNCHANGED <<chain, records, block, cursor, saved, run, tx, past>>,
         TabOK(tab'), StagedOK(staged'), staged'.state = "Commit"
  PROVE  Frame'
<1>1. /\ ~Indexing /\ run = Absent /\ tx = Absent /\ saved = NoSaved /\ ~InTx /\ block # None
  BY CommittingFacts
<1>2. ~Indexing' /\ ~InTx' /\ run' = Absent /\ tx' = Absent /\ saved' = NoSaved
  BY <1>1 DEF Indexing, InTx
<1>3. Types'
  BY <1>1 DEF Frame, Types
<1>4. Linked'
  BY LinkedStays DEF Frame
<1>5. Control'
  BY <1>1, <1>2 DEF Frame, Control, NoSaved
<1>6. Pending' /\ Counts' /\ Balanced'
  BY <1>2 DEF Pending, Counts, Balanced, NoSaved
<1>. QED BY <1>3, <1>4, <1>5, <1>6 DEF Frame

LEMMA CommitOutputFrame == ASSUME Frame, CommitOutput PROVE Frame'
<1>. DEFINE o == CHOOSE o \in DOMAIN staged.cache : TRUE
            entry == IF o \in Special /\ o \in DOMAIN tab.utxo
                     THEN Merged(tab.utxo[o], staged.cache[o]) ELSE staged.cache[o]
            utxo == Put(tab.utxo, o, entry)
            cache == Drop(staged.cache, {o})
            listed == staged.record.outpoints \cup {o}
<1>1. /\ Committing /\ staged.cache # << >>
      /\ tab' = [tab EXCEPT !.utxo = utxo]
      /\ staged' = [staged EXCEPT !.cache = cache, !.outpoint = o, !.pending = entry.ins,
                                  !.record.outpoints = listed]
      /\ UNCHANGED <<chain, records, block, cursor, saved, run, tx, past>>
  BY DEF CommitOutput
<1>2. TabOK(tab) /\ StagedOK(staged) /\ EntriesOK(staged.cache) /\ EntriesOK(tab.utxo)
  BY <1>1, CommittingFacts DEF TabOK, StagedOK
<1>3. o \in DOMAIN staged.cache
  <2>1. DOMAIN staged.cache # {}
    <3>. SUFFICES ASSUME DOMAIN staged.cache = {} PROVE FALSE
      OBVIOUS
    <3>. DEFINE f == staged.cache
    <3>1. f = [i \in 1..0 |-> f[i]]
      BY <1>2 DEF EntriesOK
    <3>. HIDE DEF f
    <3>2. IsSeq(f) /\ Len(f) = 0
      BY <3>1, FcnSeq
    <3>3. f = << >>
      BY <3>2, EmptySeq DEF IsSeq
    <3>. QED BY <1>1, <3>3 DEF f
  <2>. QED BY <2>1
<1>. HIDE DEF o
<1>4. EntryOK(entry)
  BY <1>2, <1>3, MergedOK DEF EntriesOK
<1>. HIDE DEF entry, listed
<1>5. EntriesOK(utxo) /\ EntriesOK(cache)
  BY <1>2, <1>4, PutEntry, DropEntries
<1>. HIDE DEF utxo, cache
<1>6. TabOK(tab')
  BY <1>1, <1>2, <1>5 DEF TabOK, TabShape
<1>7. StagedOK(staged') /\ staged'.state = "Commit"
  <2>. DEFINE record == [staged.record EXCEPT !.outpoints = listed]
              pending == entry.ins
  <2>1. staged' = [staged EXCEPT !.cache = cache, !.outpoint = o, !.pending = pending,
                                 !.record = record]
    BY <1>1, <1>2 DEF StagedOK, StagedShape
  <2>2. RecordOK(record)
    <3>1. RecordShape(staged.record) /\ RecordOK(staged.record)
      BY <1>2 DEF StagedOK, RecordOK
    <3>2. /\ RecordShape(record) /\ record.stats = staged.record.stats
          /\ record.removed = staged.record.removed
      BY <3>1 DEF RecordShape
    <3>. HIDE DEF record
    <3>. QED BY <3>1, <3>2 DEF RecordOK
  <2>3. pending \in Seq(Nat \X Nat) /\ staged.state = "Commit"
    BY <1>1, <1>4 DEF EntryOK, Committing
  <2>. HIDE DEF record, pending
  <2>4. /\ StagedShape(staged') /\ staged'.cache = cache /\ staged'.pending = pending
        /\ staged'.record = record /\ staged'.state = staged.state
    BY <1>2, <2>1 DEF StagedOK, StagedShape
  <2>. QED BY <1>5, <2>2, <2>3, <2>4 DEF StagedOK
<1>. QED BY <1>1, <1>6, <1>7, CommitStep

LEMMA CommitInscriptionFrame == ASSUME Frame, CommitInscription PROVE Frame'
<1>. DEFINE m == Head(staged.pending)
            points == Put(tab.points, m[1], [outpoint |-> staged.outpoint, offset |-> m[2]])
            pending == Tail(staged.pending)
            listed == staged.record.points \cup {m[1]}
<1>1. /\ Committing /\ staged.pending # << >>
      /\ tab' = [tab EXCEPT !.points = points]
      /\ staged' = [staged EXCEPT !.pending = pending, !.record.points = listed]
      /\ UNCHANGED <<chain, records, block, cursor, saved, run, tx, past>>
  BY DEF CommitInscription
<1>2. TabOK(tab) /\ StagedOK(staged)
  BY <1>1, CommittingFacts
<1>3. pending \in Seq(Nat \X Nat)
  <2>1. staged.pending \in Seq(Nat \X Nat)
    BY <1>2 DEF StagedOK
  <2>2. ASSUME NEW X, NEW s \in Seq(X), s # << >> PROVE Tail(s) \in Seq(X)
    BY <2>2
  <2>. QED BY ONLY <1>1, <2>1, <2>2
<1>. HIDE DEF points, pending, listed
<1>4. TabOK(tab')
  BY <1>1, <1>2 DEF TabOK, TabShape
<1>5. StagedOK(staged') /\ staged'.state = "Commit"
  <2>. DEFINE record == [staged.record EXCEPT !.points = listed]
  <2>1. staged' = [staged EXCEPT !.pending = pending, !.record = record]
    BY <1>1, <1>2 DEF StagedOK, StagedShape
  <2>2. RecordOK(record)
    BY <1>2 DEF StagedOK, RecordOK, RecordShape
  <2>. HIDE DEF record
  <2>3. /\ StagedShape(staged') /\ staged'.cache = staged.cache /\ staged'.pending = pending
        /\ staged'.record = record /\ staged'.state = staged.state
    BY <1>2, <2>1 DEF StagedOK, StagedShape
  <2>. QED BY <1>1, <1>2, <1>3, <2>2, <2>3 DEF StagedOK, Committing
<1>. QED BY <1>1, <1>4, <1>5, CommitStep

\* The chain with the block that is saved.
LEMMA AppendLinked ==
  ASSUME Linked, block # None, chain' = Append(chain, block), block' = None,
         past' = past, NEW r, records' = Put(records, H, r)
  PROVE  Linked'
<1>. DEFINE n == Len(chain)
<1>0. \A b \in Blocks : b \in Lineage[b]
  BY LineageAssumption
<1>1. /\ chain \in Seq(Blocks) /\ n \in Nat /\ block \in Blocks /\ Height[block] = n
      /\ \A i \in 1..n : Height[chain[i]] = i - 1 /\ chain[i] \in Lineage[block] /\ chain[i] \in Blocks
      /\ \A i, j \in 1..n : i <= j => chain[i] \in Lineage[chain[j]]
      /\ DOMAIN records = 0..n - 1 /\ DOMAIN past.tab = 0..n
  BY DEF Linked
<1>2. /\ chain' \in Seq(Blocks) /\ Len(chain') = n + 1 /\ chain'[n + 1] = block
      /\ \A i \in 1..n : chain'[i] = chain[i]
  BY <1>1
<1>. HIDE DEF n
<1>3. \A i \in 1..n + 1 : Height[chain'[i]] = i - 1
  BY <1>1, <1>2
<1>4. \A i, j \in 1..n + 1 : i <= j => chain'[i] \in Lineage[chain'[j]]
  <2>. SUFFICES ASSUME NEW i \in 1..n + 1, NEW j \in 1..n + 1, i <= j
                PROVE  chain'[i] \in Lineage[chain'[j]]
    OBVIOUS
  <2>1. block \in Lineage[block]
    BY <1>0, <1>1
  <2>2. CASE j = n + 1 /\ i = n + 1
    BY <1>2, <2>1, <2>2
  <2>3. CASE j = n + 1 /\ i # n + 1
    <3>1. i \in 1..n
      BY <1>1, <2>3
    <3>. QED BY <1>1, <1>2, <2>3, <3>1
  <2>4. CASE j # n + 1
    <3>1. i \in 1..n /\ j \in 1..n
      BY <1>1, <2>4
    <3>. QED BY <1>1, <1>2, <3>1
  <2>. QED BY <2>2, <2>3, <2>4
<1>5. DOMAIN records' = 0..n
  <2>1. DOMAIN records' = DOMAIN records \cup {n}
    BY <1>1 DEF Put, H
  <2>. QED BY <1>1, <2>1
<1>. QED BY <1>1, <1>2, <1>3, <1>4, <1>5 DEF Linked

LEMMA NoStagedOK == StagedOK(NoStaged)
  BY DEF StagedOK, StagedShape, NoStaged, RecordOK, RecordShape, NoRecord, NoStats, StatsOK, EntriesOK

LEMMA SaveFrame == ASSUME Frame, Save PROVE Frame'
<1>1. /\ Committing /\ records' = Put(records, H, staged.record)
      /\ chain' = Append(chain, block) /\ block' = None /\ staged' = NoStaged
      /\ UNCHANGED <<tab, cursor, saved, run, tx, past>>
  BY DEF Save
<1>2. /\ run = Absent /\ tx = Absent /\ saved = NoSaved /\ StagedOK(staged) /\ block # None
  BY <1>1, CommittingFacts
<1>3. ~Indexing' /\ ~InTx'
  BY <1>1, <1>2 DEF Indexing, InTx, NoSaved
<1>4. Types'
  <2>1. \A h \in DOMAIN records' : RecordOK(records'[h])
    <3>1. RecordOK(staged.record) /\ \A h \in DOMAIN records : RecordOK(records[h])
      BY <1>2 DEF StagedOK, Frame, Types
    <3>2. \A h \in DOMAIN records' :
            records'[h] = staged.record \/ (h \in DOMAIN records /\ records'[h] = records[h])
      BY <1>1 DEF Put
    <3>. QED BY <3>1, <3>2
  <2>. QED BY <1>1, <1>2, <2>1, NoStagedOK DEF Frame, Types
<1>5. Linked'
  BY <1>1, <1>2, AppendLinked DEF Frame
<1>6. Control'
  BY <1>1, <1>2, <1>3 DEF Control, NoSaved
<1>7. Pending' /\ Counts' /\ Balanced'
  BY <1>1, <1>2, <1>3 DEF Pending, Counts, Balanced, NoSaved
<1>. QED BY <1>4, <1>5, <1>6, <1>7 DEF Frame

LEMMA StageFrame == ASSUME Frame, Stage PROVE Frame'
<1>1. PICK b \in Blocks :
        /\ block = None
        /\ Prev[b] = IF chain = << >> THEN NoBlock ELSE Last(chain)
        /\ block' = b
        /\ past' = [past EXCEPT !.tab = Put(past.tab, Height[b], tab)]
        /\ cursor' = NoCursor
        /\ UNCHANGED <<chain, tab, records, staged, saved, run, tx>>
  BY DEF Stage
<1>. DEFINE n == Len(chain)
<1>2. /\ chain \in Seq(Blocks) /\ n \in Nat
      /\ \A i \in 1..n : Height[chain[i]] = i - 1 /\ chain[i] \in Blocks
      /\ \A i, j \in 1..n : i <= j => chain[i] \in Lineage[chain[j]]
      /\ DOMAIN records = 0..n - 1 /\ DOMAIN past.tab = 0..n - 1
  BY <1>1 DEF Frame, Linked
<1>3. Height[b] = n /\ \A i \in 1..n : chain[i] \in Lineage[b]
  <2>1. CASE chain = << >>
    <3>1. n = 0 /\ Prev[b] = NoBlock
      BY <1>1, <2>1
    <3>. QED BY <3>1, TreeAssumption
  <2>2. CASE chain # << >>
    <3>1. n \in 1..n /\ Prev[b] = chain[n]
      BY <1>1, <1>2, <2>2 DEF Last
    <3>. HIDE DEF n
    <3>2. Prev[b] \in Blocks /\ Prev[b] # NoBlock /\ Height[Prev[b]] = n - 1
      BY <1>2, <3>1, NoBlockAssumption
    <3>3. Height[b] = n
      BY <1>2, <3>2, TreeAssumption
    <3>4. Lineage[Prev[b]] \subseteq Lineage[b]
      BY <3>2, LineageAssumption
    <3>5. \A i \in 1..n : i <= n => chain[i] \in Lineage[chain[n]]
      BY <1>2, <3>1
    <3>. QED BY <1>2, <3>1, <3>3, <3>4, <3>5
  <2>. QED BY <2>1, <2>2
<1>4. b # None
  BY NoneAssumption
<1>5. /\ staged = NoStaged /\ ~Indexing /\ run = Absent /\ tx = Absent /\ saved = NoSaved
  BY <1>1 DEF Frame, Control, Indexing
<1>6. /\ Indexing' /\ ~InTx' /\ At' = NoCursor /\ H' = n
      /\ Accounts' = [flotsam |-> << >>, reward |-> Subsidy, lost |-> << >>,
                      fees |-> [i \in 1..Subsidy |-> n * Subsidy + i - 1]]
  <2>1. H' = n
    BY <1>1, <1>3 DEF H
  <2>2. Indexing' /\ ~InTx' /\ At' = NoCursor
    BY <1>1, <1>4, <1>5 DEF Indexing, InTx, At, NoStaged, NoSaved
  <2>3. Accounts' = NewBlock'
    BY <1>1, <1>5 DEF Accounts, Kept, NoSaved
  <2>. HIDE DEF n
  <2>. QED BY <2>1, <2>2, <2>3 DEF NewBlock
<1>7. /\ DOMAIN past'.tab = 0..n /\ PastOK(past')
  <2>. DEFINE old == Put(past.tab, Height[b], tab)
  <2>1. DOMAIN old = DOMAIN past.tab \cup {Height[b]}
    BY DEF Put
  <2>. HIDE DEF old
  <2>2. past' = [past EXCEPT !.tab = old]
    BY <1>1 DEF old
  <2>3. PastOK(past') /\ past'.tab = old
    BY <2>2 DEF Frame, Types, PastOK
  <2>. QED BY <1>2, <1>3, <2>1, <2>3
<1>8. Types'
  <2>1. CursorOK(cursor')
    BY <1>1 DEF CursorOK, NoCursor
  <2>. QED BY <1>1, <1>5, <1>7, <2>1 DEF Frame, Types
<1>9. Linked'
  BY <1>1, <1>2, <1>3, <1>4, <1>7 DEF Linked
<1>10. Len(Txs') \in Nat
  BY <1>1, OrderFacts DEF Txs
<1>11. Control'
  <2>1. At'.tx \in 1..Len(Txs') + 1 /\ At'.input = 1
    BY <1>6, <1>10 DEF NoCursor
  <2>. QED BY <1>1, <1>4, <1>5, <1>6, <2>1 DEF Control, NoSaved
<1>12. Pending' /\ Counts'
  BY <1>1, <1>5, <1>6 DEF Pending, Counts, NoSaved
<1>13. Balanced'
  <2>. DEFINE fees == [i \in 1..Subsidy |-> n * Subsidy + i - 1]
  <2>1. Accounts'.fees = fees /\ Accounts'.reward = Subsidy
    BY <1>6
  <2>2. fees = [i \in 1..Subsidy |-> fees[i]]
    OBVIOUS
  <2>. HIDE DEF fees
  <2>3. Len(fees) = Subsidy
    BY <2>2, SubsidyAssumption, FcnSeq
  <2>. QED BY <1>6, <2>1, <2>3 DEF Balanced
<1>. QED BY <1>8, <1>9, <1>11, <1>12, <1>13 DEF Frame

-----------------------------------------------------------------------------
(* Reorgs                                                                    *)

\* Undoing a change record leaves tables of the right types.
LEMMA UndoOK ==
  ASSUME NEW t, TabOK(t), NEW h, NEW r, RecordOK(r)
  PROVE  TabOK(Undo(t, h, r))
<1>. DEFINE removed == {p[1] : p \in r.removed}
            restored == [o \in removed |-> (CHOOSE p \in r.removed : p[1] = o)[2]]
            utxo == PutAll(Drop(t.utxo, r.outpoints), restored)
            u == Undo(t, h, r)
            entries == Drop(t.entries, r.entries)
<1>1. /\ TabShape(u) /\ u.utxo = utxo /\ u.stats = r.stats /\ u.entries = entries
  <2>1. u = [t EXCEPT !.satSeqs = TakeFrom(t.satSeqs, r.satSeqs),
                      !.children = TakeFrom(t.children, r.children),
                      !.ids = Drop(t.ids, r.ids),
                      !.numbers = Drop(t.numbers, r.numbers),
                      !.utxo = utxo,
                      !.satPoints = Drop(t.satPoints, r.satPoints),
                      !.entries = entries,
                      !.points = Drop(t.points, r.points),
                      !.stats = r.stats,
                      !.last = Drop(t.last, {h})]
    BY DEF Undo
  <2>. HIDE DEF utxo, u, entries
  <2>. QED BY <2>1 DEF TabOK, TabShape
<1>2. \A o \in removed : EntryOK(restored[o])
  <2>. SUFFICES ASSUME NEW o \in removed PROVE EntryOK(restored[o])
    OBVIOUS
  <2>1. \E p \in r.removed : p[1] = o
    OBVIOUS
  <2>2. (CHOOSE p \in r.removed : p[1] = o) \in r.removed
    BY <2>1
  <2>. QED BY <2>2 DEF RecordOK
<1>. HIDE DEF removed
<1>3. DOMAIN restored = removed
  OBVIOUS
<1>. HIDE DEF restored
<1>4. EntriesOK(utxo)
  BY <1>2, <1>3 DEF PutAll, Drop, EntriesOK, TabOK
<1>5. Bounded(DOMAIN u.entries)
  <2>1. Bounded(DOMAIN t.entries) /\ u.entries = entries
    BY <1>1 DEF TabOK
  <2>2. DOMAIN entries \subseteq DOMAIN t.entries
    BY DEF Drop
  <2>. HIDE DEF entries, u
  <2>. QED BY <2>1, <2>2, BoundedFacts
<1>. QED BY <1>1, <1>4, <1>5 DEF TabOK, RecordOK

\* The function of which Undone is the last value.
IsUndone(g, top, n) ==
  g = [i \in 0..n |-> IF i = 0 THEN tab
                      ELSE Undo(g[i - 1], top - i + 1, records[top - i + 1])]

LEMMA UndonesExist ==
  ASSUME NEW top, NEW n \in Nat
  PROVE  \E g : IsUndone(g, top, n)
<1>. DEFINE after(g, i) == Undo(g[i - 1], top - i + 1, records[top - i + 1])
            S == {k \in Nat : \E g : IsUndone(g, top, k)}
<1>1. 0 \in S
  <2>1. IsUndone([i \in 0..0 |-> tab], top, 0)
    BY DEF IsUndone
  <2>. QED BY <2>1
<1>2. ASSUME NEW k \in Nat, k \in S PROVE k + 1 \in S
  <2>1. PICK g : IsUndone(g, top, k)
    BY <1>2
  <2>. DEFINE last == Undo(g[k], top - (k + 1) + 1, records[top - (k + 1) + 1])
              f == [i \in 0..k + 1 |-> IF i = k + 1 THEN last ELSE g[i]]
  <2>2. \A i \in 0..k + 1 : f[i] = IF i = 0 THEN tab ELSE after(f, i)
    <3>. SUFFICES ASSUME NEW i \in 0..k + 1
                  PROVE  f[i] = IF i = 0 THEN tab ELSE after(f, i)
      OBVIOUS
    <3>1. \A j \in 0..k : g[j] = IF j = 0 THEN tab ELSE after(g, j)
      BY <2>1 DEF IsUndone
    <3>2. CASE i = k + 1
      <4>1. i - 1 = k /\ f[k] = g[k] /\ f[i] = last /\ i # 0
        BY <3>2
      <4>. QED BY <3>2, <4>1
    <3>3. CASE i # k + 1
      <4>1. i \in 0..k /\ f[i] = g[i] /\ (i # 0 => f[i - 1] = g[i - 1])
        BY <3>3
      <4>. QED BY <3>1, <4>1
    <3>. QED BY <3>2, <3>3
  <2>3. IsUndone(f, top, k + 1)
    BY <2>2 DEF IsUndone
  <2>. QED BY <2>3
<1>. HIDE DEF S
<1>3. n \in S
  BY <1>1, <1>2, NatSetInduction
<1>. QED BY <1>3 DEF S

LEMMA UndoneIs ==
  ASSUME NEW top, NEW n \in Nat
  PROVE  \E g : IsUndone(g, top, n) /\ Undone(top, n) = g[n]
<1>. DEFINE after[i \in 0..n] ==
              IF i = 0 THEN tab ELSE Undo(after[i - 1], top - i + 1, records[top - i + 1])
<1>1. Undone(top, n) = after[n]
  BY DEF Undone
<1>2. IsUndone(after, top, n)
  <2>1. after = CHOOSE g : IsUndone(g, top, n)
    BY DEF IsUndone
  <2>. HIDE DEF after
  <2>. QED BY <2>1, UndonesExist
<1>. QED BY <1>1, <1>2

\* The tables g[0] to g[n] of a rollback, which have the right types.
Undoes(g, top, n) ==
  /\ g[0] = tab /\ g[n] = Undone(top, n)
  /\ \A k \in 0..n : TabOK(g[k])
  /\ \A k \in 0..n - 1 : /\ g[k + 1] = Undo(g[k], top - k, records[top - k])
                        /\ top - k \in DOMAIN records

LEMMA UndoneSteps ==
  ASSUME Types, NEW top \in Int, NEW n \in Nat, top - n + 1 .. top \subseteq DOMAIN records
  PROVE  \E g : Undoes(g, top, n)
<1>1. PICK g : IsUndone(g, top, n) /\ Undone(top, n) = g[n]
  BY UndoneIs
<1>2. g[0] = tab
  BY <1>1 DEF IsUndone
<1>3. ASSUME NEW k \in 0..n - 1
      PROVE  g[k + 1] = Undo(g[k], top - k, records[top - k]) /\ top - k \in DOMAIN records
  <2>1. k + 1 \in 0..n /\ k + 1 # 0 /\ k + 1 - 1 = k /\ top - (k + 1) + 1 = top - k
    OBVIOUS
  <2>2. top - k \in top - n + 1 .. top
    OBVIOUS
  <2>. QED BY <1>1, <2>1, <2>2 DEF IsUndone
<1>. DEFINE good == {i \in Nat : i <= n => TabOK(g[i])}
<1>4. 0 \in good
  BY <1>2 DEF Types
<1>5. ASSUME NEW k \in Nat, k \in good PROVE k + 1 \in good
  <2>. SUFFICES ASSUME k + 1 <= n PROVE TabOK(g[k + 1])
    OBVIOUS
  <2>1. TabOK(g[k]) /\ k \in 0..n - 1
    BY <1>5
  <2>2. RecordOK(records[top - k]) /\ g[k + 1] = Undo(g[k], top - k, records[top - k])
    BY <1>3, <2>1 DEF Types
  <2>. QED BY <2>1, <2>2, UndoOK
<1>. HIDE DEF good
<1>6. \A i \in Nat : i \in good
  BY <1>4, <1>5, NatSetInduction
<1>7. \A k \in 0..n : TabOK(g[k])
  BY <1>6 DEF good
<1>. QED BY <1>1, <1>2, <1>3, <1>7 DEF Undoes

LEMMA HandleReorgFrame == ASSUME Frame, HandleReorg PROVE Frame'
<1>1. PICK n \in 1..MaxUndo :
        /\ n <= Len(chain) - 1
        /\ tab' = Undone(Len(chain) - 1, n)
        /\ records' = Drop(records, Len(chain) - 1 - n + 1 .. Len(chain) - 1)
        /\ chain' = SubSeq(chain, 1, Len(chain) - 1 - n + 1)
        /\ past' = [tab |-> Drop(past.tab, Len(chain) - 1 - n + 1 .. Len(chain) - 1),
                    reorgs |-> past.reorgs + 1,
                    clean |-> past.clean /\ Plain(tab') = Plain(past.tab[Len(chain) - 1 - n + 1])]
  BY DEF HandleReorg
<1>. DEFINE m == Len(chain)
            top == m - 1
<1>2. block = None /\ UNCHANGED <<block, cursor, staged, saved, run, tx>>
  BY DEF HandleReorg
<1>3. /\ n \in Nat /\ m \in Nat /\ n <= m - 1 /\ chain \in Seq(Blocks)
      /\ DOMAIN records = 0..m - 1 /\ DOMAIN past.tab = 0..m - 1
  BY <1>1, <1>2, UndoAssumption DEF Frame, Linked
<1>4. TabOK(tab')
  <2>1. top \in Int /\ n \in Nat /\ top - n + 1 .. top \subseteq DOMAIN records
    BY <1>3
  <2>2. Types
    BY DEF Frame
  <2>. HIDE DEF top
  <2>3. \E g : g[n] = Undone(top, n) /\ \A k \in 0..n : TabOK(g[k])
    BY <2>1, <2>2, UndoneSteps DEF Undoes
  <2>4. n \in 0..n
    BY <2>1
  <2>5. TabOK(Undone(top, n))
    BY <2>3, <2>4
  <2>. QED BY <1>1, <2>5 DEF top, m
<1>5. /\ chain' \in Seq(Blocks) /\ Len(chain') = m - n
      /\ \A i \in 1..m - n : chain'[i] = chain[i] /\ i \in 1..m
  BY <1>1, <1>3
<1>6. DOMAIN records' = 0..m - n - 1 /\ \A h \in DOMAIN records' : records'[h] = records[h] /\ h \in DOMAIN records
  BY <1>1, <1>3 DEF Drop
<1>7. DOMAIN past'.tab = 0..m - n - 1 /\ PastOK(past')
  BY <1>1, <1>3 DEF Drop, PastOK
<1>. HIDE DEF m, top
<1>8. Linked'
  <2>1. /\ \A i \in 1..m : Height[chain[i]] = i - 1
        /\ \A i, j \in 1..m : i <= j => chain[i] \in Lineage[chain[j]]
    BY DEF Frame, Linked, m
  <2>2. /\ \A i \in 1..m - n : Height[chain'[i]] = i - 1
        /\ \A i, j \in 1..m - n : i <= j => chain'[i] \in Lineage[chain'[j]]
    BY <1>5, <2>1
  <2>. QED BY <1>2, <1>5, <1>6, <1>7, <2>2 DEF Linked
<1>9. Types'
  BY <1>2, <1>4, <1>6, <1>7 DEF Frame, Types
<1>10. run = Absent /\ tx = Absent /\ saved = NoSaved /\ ~Indexing /\ ~Indexing'
  BY <1>2 DEF Frame, Control, Indexing
<1>11. ~InTx /\ ~InTx'
  BY <1>2, <1>10 DEF InTx, NoSaved
<1>12. Control'
  BY <1>2, <1>10, <1>11 DEF Frame, Control, NoSaved
<1>13. Pending' /\ Counts' /\ Balanced'
  BY <1>2, <1>10, <1>11 DEF Pending, Counts, Balanced, NoSaved
<1>. QED BY <1>8, <1>9, <1>12, <1>13 DEF Frame

-----------------------------------------------------------------------------
(* The frame is an invariant                                                 *)

LEMMA StutterFrame == ASSUME Frame, UNCHANGED vars PROVE Frame'
<1>. USE DEF vars
<1>1. UNCHANGED <<Indexing, InTx, At, Accounts, Work, IsLast, InputCount, PaidOut, Resumes>>
  BY DEF Indexing, InTx, At, Accounts, Kept, NewBlock, H, Work, IsLast, InputCount, PaidOut,
         Paid, This, Txs, Resumes
<1>2. UNCHANGED <<This, Txs>> /\ \A n : Paid(n)' = Paid(n)
  BY DEF This, Txs, At, Paid
<1>3. Types'
  BY DEF Frame, Types
<1>4. Linked'
  BY DEF Frame, Linked
<1>5. Control'
  BY <1>1, <1>2 DEF Frame, Control
<1>6. Pending'
  BY <1>1, <1>2 DEF Frame, Pending
<1>7. Counts'
  BY <1>1, <1>2 DEF Frame, Counts
<1>8. Balanced'
  BY <1>1, <1>2 DEF Frame, Balanced
<1>. QED BY <1>3, <1>4, <1>5, <1>6, <1>7, <1>8 DEF Frame

LEMMA NextFrame == ASSUME Frame, [Next]_vars PROVE Frame'
<1>1. CASE Transaction
  BY <1>1, SpendFrame, ContinueFrame, TakeFrame, FinishInputFrame, FinishInputsFrame,
     PlaceFrame, NextOutputFrame, FinishOutputsFrame, LocateFrame, FinishLocationsFrame,
     LoseFrame, FinishTransactionFrame DEF Transaction
<1>2. CASE Break
  BY <1>2, BreakInputsFrame, BreakOutputsFrame, BreakLocationsFrame DEF Break
<1>3. CASE UNCHANGED vars
  BY <1>3, StutterFrame
<1>. QED BY <1>1, <1>2, <1>3, StageFrame, BeginFrame, FinishBlockFrame, CommitOutputFrame,
            CommitInscriptionFrame, SaveFrame, HandleReorgFrame DEF Next

\* However the blocks are filled, wherever the messages end and whatever was
\* rolled back: the locals and the staged variables fit the point in the block,
\* counters are not negative, and what is paid balances (index_utxo_entries,
\* its breakpoints, commit and handle_reorg).
THEOREM FrameHolds == Spec => []Frame
<1>. QED BY InitFrame, NextFrame, PTL DEF Spec

-----------------------------------------------------------------------------
(* What comes down, field by field                                           *)

LEMMA SettleStep ==
  ASSUME NEW t, NEW f, NEW o, NEW offset, NEW burn, Settle(t, f, o, offset, burn)
  PROVE  \E cache : IF f.new = Absent THEN Transfer(f, burn, cache) ELSE Inscribe(f, o, burn, cache)
<1>. DEFINE unbound == IF f.new = Absent THEN FALSE ELSE f.new.unbound
            to == IF unbound THEN Unbound ELSE o
            place == <<IF f.new = Absent THEN f.seq ELSE run.next,
                       IF unbound THEN run.stats.unbound ELSE offset>>
            cache == IF to \in Special
                     THEN Put(staged.cache, to, Pushed(Cached(staged.cache, to), place))
                     ELSE staged.cache
<1>1. IF f.new = Absent THEN Transfer(f, burn, cache) ELSE Inscribe(f, o, burn, cache)
  BY DEF Settle, Pushed
<1>. HIDE DEF cache
<1>. QED BY <1>1

\* The number, the sat, the parents and the entry of a new inscription.
NewNumber(f) == IF f.new.cursed THEN -(run.stats.cursed + 1) ELSE run.stats.blessed
NewSats(f) == IF f.new.unbound THEN {} ELSE {tx.inSats[f.offset + 1]}
NewParents(f) == {tab.ids[p] : p \in f.new.parents}
NewEntry(f, o, burn) ==
  [id |-> f.id, number |-> NewNumber(f), height |-> H, sat |-> NewSats(f),
   charms |-> Charms(f.new, o, burn), parents |-> NewParents(f)]

Inscribes(f, o, burn, cache) ==
  /\ f.new.parents \subseteq DOMAIN tab.ids
  /\ tab'.numbers = Put(tab.numbers, NewNumber(f), run.next)
  /\ tab'.satSeqs = AddTo(tab.satSeqs, NewSats(f), run.next)
  /\ tab'.children = AddTo(tab.children, NewParents(f), run.next)
  /\ tab'.entries = Put(tab.entries, run.next, NewEntry(f, o, burn))
  /\ tab'.ids = Put(tab.ids, f.id, run.next)
  /\ tab'.utxo = tab.utxo /\ tab'.points = tab.points /\ tab'.satPoints = tab.satPoints
  /\ tab'.stats = tab.stats /\ tab'.last = tab.last
  /\ staged'.state = staged.state /\ staged'.cache = cache
  /\ staged'.outpoint = staged.outpoint /\ staged'.pending = staged.pending
  /\ staged'.record.numbers = staged.record.numbers \cup {NewNumber(f)}
  /\ staged'.record.satSeqs = staged.record.satSeqs \cup (NewSats(f) \X {run.next})
  /\ staged'.record.children = staged.record.children \cup (NewParents(f) \X {run.next})
  /\ staged'.record.entries = staged.record.entries \cup {run.next}
  /\ staged'.record.ids = staged.record.ids \cup {f.id}
  /\ staged'.record.outpoints = staged.record.outpoints
  /\ staged'.record.removed = staged.record.removed
  /\ staged'.record.satPoints = staged.record.satPoints
  /\ staged'.record.points = staged.record.points
  /\ staged'.record.stats = staged.record.stats
  /\ run'.next = run.next + 1
  /\ run'.stats.cursed = IF f.new.cursed THEN run.stats.cursed + 1 ELSE run.stats.cursed
  /\ run'.stats.blessed = IF f.new.cursed THEN run.stats.blessed ELSE run.stats.blessed + 1
  /\ run'.stats.unbound = IF f.new.unbound THEN run.stats.unbound + 1 ELSE run.stats.unbound
  /\ run'.stats.lost = run.stats.lost

LEMMA InscribeFacts ==
  ASSUME TabOK(tab), StagedOK(staged), RunOK(run),
         NEW f, NEW o, NEW burn, NEW cache, Inscribe(f, o, burn, cache)
  PROVE  Inscribes(f, o, burn, cache)
<1>. DEFINE r == staged.record
            cursed == IF f.new.cursed THEN run.stats.cursed + 1 ELSE run.stats.cursed
            blessed == IF f.new.cursed THEN run.stats.blessed ELSE run.stats.blessed + 1
            unb == IF f.new.unbound THEN run.stats.unbound + 1 ELSE run.stats.unbound
            number == NewNumber(f)
            sats == NewSats(f)
            parents == NewParents(f)
            entry == NewEntry(f, o, burn)
            numbers == Put(tab.numbers, number, run.next)
            satSeqs == AddTo(tab.satSeqs, sats, run.next)
            children == AddTo(tab.children, parents, run.next)
            entries == Put(tab.entries, run.next, entry)
            ids == Put(tab.ids, f.id, run.next)
<1>1. /\ f.new.parents \subseteq DOMAIN tab.ids
      /\ tab' = [tab EXCEPT !.numbers = numbers, !.satSeqs = satSeqs, !.children = children,
                            !.entries = entries, !.ids = ids]
  BY DEF Inscribe, NewNumber, NewSats, NewParents, NewEntry
<1>2. staged' = [staged EXCEPT !.cache = cache,
                   !.record.numbers = @ \cup {number},
                   !.record.satSeqs = @ \cup (sats \X {run.next}),
                   !.record.children = @ \cup (parents \X {run.next}),
                   !.record.entries = @ \cup {run.next},
                   !.record.ids = @ \cup {f.id}]
  BY DEF Inscribe, NewNumber, NewSats, NewParents, NewEntry
<1>3. run' = [run EXCEPT !.next = run.next + 1, !.stats.cursed = cursed,
                         !.stats.blessed = blessed, !.stats.unbound = unb]
  BY DEF Inscribe
<1>. HIDE DEF number, sats, parents, entry, numbers, satSeqs, children, entries, ids, cursed,
              blessed, unb
<1>4. /\ tab'.numbers = numbers /\ tab'.satSeqs = satSeqs /\ tab'.children = children
      /\ tab'.entries = entries /\ tab'.ids = ids
      /\ tab'.utxo = tab.utxo /\ tab'.points = tab.points /\ tab'.satPoints = tab.satPoints
      /\ tab'.stats = tab.stats /\ tab'.last = tab.last
  BY <1>1 DEF TabOK, TabShape
<1>5. RecordShape(r) /\ StagedShape(staged)
  BY DEF StagedOK, RecordOK
<1>. DEFINE record == [r EXCEPT !.numbers = r.numbers \cup {number},
                                !.satSeqs = r.satSeqs \cup (sats \X {run.next}),
                                !.children = r.children \cup (parents \X {run.next}),
                                !.entries = r.entries \cup {run.next},
                                !.ids = r.ids \cup {f.id}]
<1>6. staged' = [staged EXCEPT !.cache = cache, !.record = record]
  BY <1>2, <1>5 DEF StagedShape
<1>7. /\ record.numbers = r.numbers \cup {number}
      /\ record.satSeqs = r.satSeqs \cup (sats \X {run.next})
      /\ record.children = r.children \cup (parents \X {run.next})
      /\ record.entries = r.entries \cup {run.next}
      /\ record.ids = r.ids \cup {f.id}
      /\ record.outpoints = r.outpoints /\ record.removed = r.removed
      /\ record.satPoints = r.satPoints /\ record.points = r.points /\ record.stats = r.stats
  <2>. HIDE DEF r
  <2>. QED BY <1>5 DEF RecordShape
<1>. HIDE DEF record, r
<1>8. /\ staged'.state = staged.state /\ staged'.cache = cache /\ staged'.record = record
      /\ staged'.outpoint = staged.outpoint /\ staged'.pending = staged.pending
  BY <1>5, <1>6 DEF StagedShape
<1>. DEFINE stats == [run.stats EXCEPT !.cursed = cursed, !.blessed = blessed, !.unbound = unb]
<1>9. run' = [run EXCEPT !.next = run.next + 1, !.stats = stats]
  BY <1>3 DEF RunOK, RunShape
<1>10. /\ stats.cursed = cursed /\ stats.blessed = blessed /\ stats.unbound = unb
       /\ stats.lost = run.stats.lost
  BY DEF RunOK, StatsOK
<1>. HIDE DEF stats
<1>11. run'.next = run.next + 1 /\ run'.stats = stats
  BY <1>9 DEF RunOK, RunShape
<1>. QED BY <1>1, <1>4, <1>7, <1>8, <1>10, <1>11
         DEF Inscribes, number, sats, parents, entry, numbers, satSeqs, children, entries, ids, cursed,
             blessed, unb, r

\* A burned inscription gets a charm; nothing else changes in the tables.
Burned(entries, seq) == [entries EXCEPT ![seq].charms = @ \cup {"Burned"}]

Transfers(f, burn, cache) ==
  /\ burn => f.seq \in DOMAIN tab.entries
  /\ tab'.entries = IF burn THEN Burned(tab.entries, f.seq) ELSE tab.entries
  /\ tab'.numbers = tab.numbers /\ tab'.satSeqs = tab.satSeqs
  /\ tab'.children = tab.children /\ tab'.ids = tab.ids
  /\ tab'.utxo = tab.utxo /\ tab'.points = tab.points /\ tab'.satPoints = tab.satPoints
  /\ tab'.stats = tab.stats /\ tab'.last = tab.last
  /\ staged'.state = staged.state /\ staged'.cache = cache
  /\ staged'.outpoint = staged.outpoint /\ staged'.pending = staged.pending
  /\ staged'.record.entries = IF burn THEN staged.record.entries \cup {f.seq}
                              ELSE staged.record.entries
  /\ staged'.record.numbers = staged.record.numbers
  /\ staged'.record.satSeqs = staged.record.satSeqs
  /\ staged'.record.children = staged.record.children
  /\ staged'.record.ids = staged.record.ids
  /\ staged'.record.outpoints = staged.record.outpoints
  /\ staged'.record.removed = staged.record.removed
  /\ staged'.record.satPoints = staged.record.satPoints
  /\ staged'.record.points = staged.record.points
  /\ staged'.record.stats = staged.record.stats
  /\ run' = run

LEMMA TransferFacts ==
  ASSUME TabOK(tab), StagedOK(staged), NEW f, NEW burn, NEW cache, Transfer(f, burn, cache)
  PROVE  Transfers(f, burn, cache)
<1>. DEFINE entries == Burned(tab.entries, f.seq)
            r == staged.record
            listed == IF burn THEN r.entries \cup {f.seq} ELSE r.entries
            record == [r EXCEPT !.entries = listed]
<1>1. /\ burn => f.seq \in DOMAIN tab.entries
      /\ tab' = IF burn THEN [tab EXCEPT !.entries = entries] ELSE tab
      /\ staged' = [staged EXCEPT !.cache = cache, !.record.entries = listed]
      /\ run' = run
  BY DEF Transfer, Burned
<1>2. RecordShape(r) /\ StagedShape(staged)
  BY DEF StagedOK, RecordOK
<1>3. staged' = [staged EXCEPT !.cache = cache, !.record = record]
  BY <1>1, <1>2 DEF StagedShape
<1>. HIDE DEF entries, listed
<1>4. /\ tab'.entries = IF burn THEN entries ELSE tab.entries
      /\ tab'.numbers = tab.numbers /\ tab'.satSeqs = tab.satSeqs
      /\ tab'.children = tab.children /\ tab'.ids = tab.ids
      /\ tab'.utxo = tab.utxo /\ tab'.points = tab.points /\ tab'.satPoints = tab.satPoints
      /\ tab'.stats = tab.stats /\ tab'.last = tab.last
  BY <1>1 DEF TabOK, TabShape
<1>5. /\ record.entries = listed /\ record.numbers = r.numbers /\ record.satSeqs = r.satSeqs
      /\ record.children = r.children /\ record.ids = r.ids
      /\ record.outpoints = r.outpoints /\ record.removed = r.removed
      /\ record.satPoints = r.satPoints /\ record.points = r.points /\ record.stats = r.stats
  <2>. HIDE DEF r
  <2>. QED BY <1>2 DEF RecordShape
<1>. HIDE DEF record
<1>6. /\ staged'.state = staged.state /\ staged'.cache = cache /\ staged'.record = record
      /\ staged'.outpoint = staged.outpoint /\ staged'.pending = staged.pending
  BY <1>2, <1>3 DEF StagedShape
<1>. QED BY <1>1, <1>4, <1>5, <1>6 DEF Transfers, entries, listed, r

\* What comes down in a step, and the step's other effects.
Settled(f, o, burn, cache) ==
  /\ IF f.new = Absent THEN Transfer(f, burn, cache) ELSE Inscribe(f, o, burn, cache)
  /\ FlotsamOK(f)

LEMMA SettlesOne ==
  ASSUME Frame, Locate \/ Lose
  PROVE  /\ run # Absent /\ run' # Absent /\ block # None /\ Indexing
         /\ UNCHANGED <<chain, records, block, cursor, saved, past>>
         /\ TabOK(tab) /\ StagedOK(staged) /\ RunOK(run)
         /\ \E f, o, burn, cache : Settled(f, o, burn, cache)
<1>1. /\ run # Absent /\ tx # Absent /\ UNCHANGED <<chain, records, block, cursor, saved, past>>
  BY DEF Locate, Lose, AtLocations
<1>2. /\ TxOK(tx) /\ RunOK(run) /\ Indexing /\ block # None /\ TabOK(tab) /\ StagedOK(staged)
  BY <1>1, InTxFacts DEF Frame, Types
<1>3. \E t, f, o, offset, burn : Settle(t, f, o, offset, burn) /\ FlotsamOK(f)
  <2>1. CASE Locate
    <3>1. tx.loc \in DOMAIN tx.located /\ Landed(tx.located)
      <4>1. Landed(tx.located) /\ tx.loc \in Nat \ {0} /\ tx.loc <= Len(tx.located)
        BY <1>2, <2>1 DEF Locate, TxOK
      <4>2. Len(tx.located) \in Nat /\ DOMAIN tx.located = 1..Len(tx.located)
        BY <4>1, SeqFacts DEF Landed
      <4>. QED BY <4>1, <4>2
    <3>2. FlotsamOK(tx.located[tx.loc].flotsam)
      BY <3>1 DEF Landed, LocationOK
    <3>. QED BY <2>1, <3>2 DEF Locate
  <2>2. CASE Lose
    <3>1. FlotsamOK(Head(tx.queue))
      <4>1. tx.queue # << >> /\ Flotsams(tx.queue)
        BY <1>2, <2>2 DEF Lose, TxOK
      <4>2. Head(tx.queue) = tx.queue[1] /\ 1 \in DOMAIN tx.queue
        BY <4>1, SeqFacts DEF Flotsams
      <4>. QED BY <4>1, <4>2 DEF Flotsams
    <3>. QED BY <2>2, <3>1 DEF Lose
  <2>. QED BY <2>1, <2>2
<1>4. PICK f, o, burn, cache : Settled(f, o, burn, cache)
  BY <1>3, SettleStep DEF Settled
<1>5. run' # Absent
  <2>1. "tx" \in DOMAIN run /\ DOMAIN run' = DOMAIN run
    BY <1>2, <1>4 DEF Settled, Transfer, Inscribe, RunOK, RunShape
  <2>. QED BY <2>1, HasFields
<1>. QED BY <1>1, <1>2, <1>4, <1>5

-----------------------------------------------------------------------------
(* Types                                                                     *)

\* The blocks with a last sequence number: the indexed ones, and the block in
\* progress from its first interruption on.
LastsOK ==
  /\ block = None => DOMAIN tab.last = DOMAIN records
  /\ Indexing => /\ DOMAIN records \subseteq DOMAIN tab.last
                 /\ DOMAIN tab.last \subseteq DOMAIN records \cup {H}
  /\ Committing => DOMAIN tab.last = DOMAIN records \cup {H}

\* A transaction does not touch them.
LEMMA TransactionLasts ==
  ASSUME Frame, Transaction
  PROVE  tab'.last = tab.last /\ staged'.state = staged.state /\ UNCHANGED <<block, records>>
<1>1. CASE Spend
  BY <1>1 DEF Spend, Frame, Types, TabOK, TabShape, StagedOK, StagedShape
<1>2. CASE Locate \/ Lose
  BY <1>2, SettlesOne, TransferFacts, InscribeFacts DEF Settled, Transfers, Inscribes
<1>3. CASE FinishTransaction
  BY <1>3 DEF FinishTransaction, Frame, Types, StagedOK, StagedShape
<1>4. CASE Continue \/ Take \/ FinishInput \/ FinishInputs
           \/ Place \/ NextOutput \/ FinishOutputs \/ FinishLocations
  BY <1>4 DEF Continue, Take, FinishInput, FinishInputs, Place, NextOutput, FinishOutputs,
              FinishLocations
<1>. QED BY <1>1, <1>2, <1>3, <1>4 DEF Transaction

LEMMA UndoneLasts ==
  ASSUME Types, NEW top \in Int, NEW n \in Nat, top - n + 1 .. top \subseteq DOMAIN records
  PROVE  DOMAIN Undone(top, n).last = DOMAIN tab.last \ (top - n + 1 .. top)
<1>0. PICK g : Undoes(g, top, n)
  BY UndoneSteps
<1>1. /\ g[0] = tab /\ g[n] = Undone(top, n)
      /\ \A k \in 0..n : TabOK(g[k])
      /\ \A k \in 0..n - 1 : g[k + 1] = Undo(g[k], top - k, records[top - k])
  BY <1>0 DEF Undoes
<1>. DEFINE good == {i \in Nat : i <= n => DOMAIN g[i].last = DOMAIN tab.last \ (top - i + 1 .. top)}
<1>2. 0 \in good
  BY <1>1
<1>3. ASSUME NEW k \in Nat, k \in good PROVE k + 1 \in good
  <2>. SUFFICES ASSUME k + 1 <= n
                PROVE DOMAIN g[k + 1].last = DOMAIN tab.last \ (top - (k + 1) + 1 .. top)
    OBVIOUS
  <2>1. DOMAIN g[k].last = DOMAIN tab.last \ (top - k + 1 .. top)
    BY <1>3
  <2>2. TabOK(g[k]) /\ g[k + 1] = Undo(g[k], top - k, records[top - k])
    BY <1>1
  <2>3. g[k + 1].last = Drop(g[k].last, {top - k})
    BY <2>2 DEF Undo, TabOK, TabShape
  <2>4. DOMAIN g[k + 1].last = DOMAIN g[k].last \ {top - k}
    BY <2>3 DEF Drop
  <2>5. top - (k + 1) + 1 .. top = (top - k + 1 .. top) \cup {top - k}
    OBVIOUS
  <2>. QED BY <2>1, <2>4, <2>5
<1>. HIDE DEF good
<1>4. n \in good
  BY <1>2, <1>3, NatSetInduction
<1>. QED BY <1>1, <1>4 DEF good

LEMMA InitLasts == ASSUME Init PROVE LastsOK
  BY DEF Init, LastsOK, NoTables, Indexing, Committing

LEMMA StageLasts == ASSUME Frame, LastsOK, Stage PROVE LastsOK'
<1>1. /\ block = None /\ block' \in Blocks /\ block' # None
      /\ tab' = tab /\ records' = records /\ staged' = staged /\ staged = NoStaged
  BY NoneAssumption DEF Stage, Frame, Control
<1>. QED BY <1>1 DEF LastsOK, Indexing, Committing, NoStaged

LEMMA FinishBlockLasts == ASSUME Frame, LastsOK, FinishBlock PROVE LastsOK'
<1>1. /\ block # None /\ Indexing /\ block' = block /\ records' = records
      /\ tab'.last = Put(tab.last, H, run.next) /\ staged'.state = "Commit"
  BY DEF FinishBlock, Frame, Types, TabOK, TabShape, StagedOK, StagedShape, Control, Indexing
<1>. QED BY <1>1 DEF LastsOK, Indexing, Committing, Put, H

LEMMA BreakLasts == ASSUME Frame, LastsOK, Break PROVE LastsOK'
<1>1. /\ block # None /\ Indexing
      /\ tab'.last = Put(tab.last, H, run.next) /\ UNCHANGED <<staged, block, records>>
  BY DEF Break, BreakInputs, BreakOutputs, BreakLocations, AtInput, Placeable, AtOutputs,
         AtLocations, Suspend, Frame, Types, TabOK, TabShape, Control, Indexing
<1>. QED BY <1>1 DEF LastsOK, Indexing, Committing, Put, H

LEMMA CommitLasts == ASSUME Frame, LastsOK, CommitOutput \/ CommitInscription PROVE LastsOK'
<1>1. /\ tab'.last = tab.last /\ staged'.state = staged.state /\ UNCHANGED <<block, records>>
  BY DEF CommitOutput, CommitInscription, Frame, Types, TabOK, TabShape, StagedOK, StagedShape
<1>. QED BY <1>1 DEF LastsOK, Indexing, Committing, H

LEMMA SaveLasts == ASSUME Frame, LastsOK, Save PROVE LastsOK'
<1>1. /\ Committing /\ tab' = tab /\ DOMAIN records' = DOMAIN records \cup {H} /\ block' = None
  BY DEF Save, Put
<1>. QED BY <1>1 DEF LastsOK, Indexing, Committing

LEMMA HandleReorgLasts == ASSUME Frame, LastsOK, HandleReorg PROVE LastsOK'
<1>1. PICK n \in 1..MaxUndo :
        /\ n <= Len(chain) - 1
        /\ tab' = Undone(Len(chain) - 1, n)
        /\ records' = Drop(records, Len(chain) - 1 - n + 1 .. Len(chain) - 1)
  BY DEF HandleReorg
<1>2. block = None /\ block' = None
  BY DEF HandleReorg
<1>3. Len(chain) \in Nat /\ DOMAIN records = 0..Len(chain) - 1 /\ n \in Nat
  BY UndoAssumption DEF Frame, Linked
<1>. DEFINE top == Len(chain) - 1
<1>4. top \in Int /\ n \in Nat /\ top - n + 1 .. top \subseteq DOMAIN records
  BY <1>1, <1>3
<1>5. DOMAIN tab'.last = DOMAIN tab.last \ (top - n + 1 .. top)
  BY <1>1, <1>4, UndoneLasts DEF Frame
<1>6. DOMAIN records' = DOMAIN records \ (top - n + 1 .. top)
  BY <1>1 DEF Drop
<1>. QED BY <1>2, <1>5, <1>6 DEF LastsOK, Indexing, Committing

LEMMA NextLasts == ASSUME Frame, LastsOK, [Next]_vars PROVE LastsOK'
<1>1. CASE Transaction \/ Begin \/ UNCHANGED vars
  <2>1. tab'.last = tab.last /\ staged'.state = staged.state /\ UNCHANGED <<block, records>>
    BY <1>1, TransactionLasts DEF Begin, vars
  <2>. QED BY <2>1 DEF LastsOK, Indexing, Committing, H
<1>2. CASE Stage \/ Break \/ FinishBlock \/ CommitOutput \/ CommitInscription \/ Save
           \/ HandleReorg
  BY <1>2, StageLasts, FinishBlockLasts, BreakLasts, CommitLasts, SaveLasts, HandleReorgLasts
<1>. QED BY <1>1, <1>2 DEF Next

LEMMA FrameTypes == ASSUME Frame, LastsOK PROVE TypeOK
<1>1. /\ chain \in Seq(Blocks) /\ block \in Blocks \cup {None}
      /\ DOMAIN records = 0..Len(chain) - 1
  BY DEF Frame, Linked
<1>2. Between => DOMAIN tab.last = DOMAIN records
  BY DEF LastsOK, Between
<1>3. \A s : StatsOK(s) => s \in [DOMAIN NoStats -> Nat]
  BY DEF StatsOK, NoStats
<1>4. /\ cursor \in [tx : Nat \ {0}, input : Nat \ {0}, inscription : Nat \ {0}]
      /\ staged.state \in {"Index", "Commit"} /\ StatsOK(tab.stats)
  BY DEF Frame, Types, CursorOK, StagedOK, TabOK
<1>5. run # Absent => /\ StatsOK(run.stats) /\ run.reward \in Nat /\ run.next \in Nat
                      /\ \A i \in DOMAIN run.flotsam : run.flotsam[i].offset \in Nat
  BY DEF Frame, Types, RunOK, AccountsOK, Flotsams, FlotsamOK
<1>6. tx # Absent => /\ run # Absent
                     /\ \A i \in DOMAIN tx.located : tx.located[i].offset \in Nat
  BY DEF Frame, Types, TxOK, Landed, LocationOK, Control
<1>. QED BY <1>1, <1>2, <1>3, <1>4, <1>5, <1>6 DEF TypeOK

\* The type invariant, for every content of the blocks: among others no
\* subtraction of index_inscriptions goes below zero, and a height has a last
\* sequence number just when it has a change record.
THEOREM TypesHold == Spec => []TypeOK
<1>1. Init => LastsOK
  BY InitLasts
<1>2. Frame /\ LastsOK /\ [Next]_vars => LastsOK'
  BY NextLasts
<1>3. Frame /\ LastsOK => TypeOK
  BY FrameTypes
<1>. QED BY <1>1, <1>2, <1>3, FrameHolds, PTL DEF Spec
=============================================================================
