----------------------------- MODULE PlacesProofs -----------------------------
(* Where the inscriptions are while a block is indexed, for every content of  *)
(* the blocks and every end of a message: each is in one place, of the        *)
(* tables, the cache, the locals or the staged variables, those that have no  *)
(* sequence number yet by their ids, which are new.                           *)
EXTENDS TablesProofs

-----------------------------------------------------------------------------
(* Inscriptions by key                                                       *)

Old(seq) == <<"old", seq>>
New(id) == <<"new", id>>
Key(f) == IF f.new = Absent THEN Old(f.seq) ELSE New(f.id)

\* The inscriptions that float, and that each floats once.
Keys(s) == {Key(s[i]) : i \in DOMAIN s}
Apart(s) == \A i, j \in DOMAIN s : Key(s[i]) = Key(s[j]) => i = j

\* The inscriptions on an entry and on a set of entries, each listed once.
On(e) == {Old(e.ins[i][1]) : i \in DOMAIN e.ins}
Single(e) == \A i, j \in DOMAIN e.ins : e.ins[i][1] = e.ins[j][1] => i = j
AllOn(m) == UNION {On(m[o]) : o \in DOMAIN m}
Spread(m) ==
  /\ \A o \in DOMAIN m : Single(m[o])
  /\ \A o, p \in DOMAIN m : \A k \in On(m[o]) : k \in On(m[p]) => o = p

LEMMA KeysDiffer ==
  /\ \A x, y : Old(x) = Old(y) => x = y
  /\ \A x, y : New(x) = New(y) => x = y
  /\ \A x, y : Old(x) # New(y)
  BY DEF Old, New

LEMMA NoKeys == Keys(<< >>) = {} /\ Apart(<< >>)
  BY DEF Keys, Apart

LEMMA KeysAppend ==
  ASSUME NEW s, NEW f, NEW r, IsSeq(s), IsAppend(r, s, f), Apart(s), Key(f) \notin Keys(s)
  PROVE  Keys(r) = Keys(s) \cup {Key(f)} /\ Apart(r)
<1>1. /\ Len(s) \in Nat /\ DOMAIN s = 1..Len(s) /\ DOMAIN r = 1..Len(s) + 1
      /\ \A i \in DOMAIN s : r[i] = s[i] /\ r[Len(s) + 1] = f
  BY SeqFacts DEF IsAppend
<1>2. DOMAIN r = DOMAIN s \cup {Len(s) + 1} /\ Len(s) + 1 \notin DOMAIN s
  BY <1>1
<1>3. \A i \in DOMAIN s : r[i] = s[i]
  BY <1>1
<1>. DEFINE n == Len(s) + 1
<1>. HIDE DEF n
<1>4. DOMAIN r = DOMAIN s \cup {n} /\ r[n] = f /\ n \notin DOMAIN s
  BY <1>2 DEF n, IsAppend
<1>5. Keys(r) = Keys(s) \cup {Key(f)}
  BY <1>3, <1>4 DEF Keys
<1>6. Apart(r)
  BY <1>3, <1>4 DEF Apart, Keys
<1>. QED BY <1>5, <1>6

\* Functions with the same keys.
LEMMA KeysSame ==
  ASSUME NEW s, NEW r, DOMAIN r = DOMAIN s, \A i \in DOMAIN s : Key(r[i]) = Key(s[i])
  PROVE  Keys(r) = Keys(s) /\ (Apart(s) => Apart(r))
  BY DEF Keys, Apart

\* One element leaves.
LEMMA KeysWithout ==
  ASSUME NEW s, NEW r, NEW k, k \in DOMAIN s, DOMAIN r = DOMAIN s \ {k},
         \A i \in DOMAIN r : r[i] = s[i], Apart(s)
  PROVE  Keys(r) = Keys(s) \ {Key(s[k])} /\ Apart(r) /\ Key(s[k]) \in Keys(s)
  BY DEF Keys, Apart

LEMMA KeysTail ==
  ASSUME NEW s, NEW r, IsSeq(s), IsTail(r, s), Apart(s)
  PROVE  Keys(r) = Keys(s) \ {Key(s[1])} /\ Apart(r) /\ Key(s[1]) \in Keys(s)
<1>1. /\ Len(s) \in Nat /\ Len(s) >= 1 /\ DOMAIN s = 1..Len(s) /\ DOMAIN r = 1..Len(s) - 1
      /\ \A i \in 1..Len(s) - 1 : r[i] = s[i + 1]
  BY SeqFacts DEF IsTail
<1>2. /\ 1 \in DOMAIN s
      /\ \A i \in DOMAIN r : i + 1 \in DOMAIN s /\ i + 1 # 1 /\ r[i] = s[i + 1]
      /\ \A j \in DOMAIN s : j # 1 => \E i \in DOMAIN r : j = i + 1
  <2>1. ASSUME NEW j \in DOMAIN s, j # 1 PROVE \E i \in DOMAIN r : j = i + 1
    <3>1. j - 1 \in DOMAIN r /\ j = (j - 1) + 1
      BY <1>1, <2>1
    <3>. QED BY <3>1
  <2>. QED BY <1>1, <2>1
<1>3. Keys(r) = Keys(s) \ {Key(s[1])}
  <2>1. ASSUME NEW x \in Keys(r) PROVE x \in Keys(s) /\ x # Key(s[1])
    BY <1>2 DEF Keys, Apart
  <2>2. ASSUME NEW x \in Keys(s), x # Key(s[1]) PROVE x \in Keys(r)
    <3>1. PICK j \in DOMAIN s : x = Key(s[j])
      BY DEF Keys
    <3>2. PICK i \in DOMAIN r : j = i + 1
      BY <1>2, <2>2, <3>1
    <3>. QED BY <1>2, <3>1, <3>2 DEF Keys
  <2>. QED BY <2>1, <2>2
<1>4. Apart(r)
  <2>1. ASSUME NEW i \in DOMAIN r, NEW j \in DOMAIN r, Key(r[i]) = Key(r[j]) PROVE i = j
    <3>1. i + 1 = j + 1
      BY <1>2, <2>1 DEF Apart
    <3>. QED BY <1>1, <3>1
  <2>. QED BY <2>1 DEF Apart
<1>. QED BY <1>2, <1>3, <1>4 DEF Keys

LEMMA KeysConcat ==
  ASSUME NEW s, NEW t, NEW r, IsSeq(s), IsSeq(t), IsConcat(r, s, t), Apart(s), Apart(t),
         \A k \in Keys(s) : k \notin Keys(t)
  PROVE  Keys(r) = Keys(s) \cup Keys(t) /\ Apart(r)
<1>1. /\ Len(s) \in Nat /\ Len(t) \in Nat /\ DOMAIN s = 1..Len(s) /\ DOMAIN t = 1..Len(t)
      /\ DOMAIN r = 1..Len(s) + Len(t)
      /\ \A i \in 1..Len(s) : r[i] = s[i]
      /\ \A i \in 1..Len(t) : r[Len(s) + i] = t[i]
  BY SeqFacts DEF IsConcat
<1>. DEFINE n == Len(s)
<1>2. /\ \A i \in DOMAIN s : i \in DOMAIN r /\ r[i] = s[i]
      /\ \A i \in DOMAIN t : n + i \in DOMAIN r /\ r[n + i] = t[i]
      /\ \A j \in DOMAIN r : j \in DOMAIN s \/ \E i \in DOMAIN t : j = n + i
  <2>1. ASSUME NEW j \in DOMAIN r, j \notin DOMAIN s PROVE \E i \in DOMAIN t : j = n + i
    <3>1. j - n \in DOMAIN t /\ j = n + (j - n)
      BY <1>1, <2>1
    <3>. QED BY <3>1
  <2>. QED BY <1>1, <2>1
<1>. HIDE DEF n
<1>3. Keys(r) = Keys(s) \cup Keys(t)
  <2>1. ASSUME NEW x \in Keys(r) PROVE x \in Keys(s) \cup Keys(t)
    <3>1. PICK j \in DOMAIN r : x = Key(r[j])
      BY DEF Keys
    <3>. QED BY <1>2, <3>1 DEF Keys
  <2>2. ASSUME NEW x \in Keys(s) PROVE x \in Keys(r)
    BY <1>2 DEF Keys
  <2>3. ASSUME NEW x \in Keys(t) PROVE x \in Keys(r)
    <3>1. PICK i \in DOMAIN t : x = Key(t[i])
      BY DEF Keys
    <3>. QED BY <1>2, <3>1 DEF Keys
  <2>. QED BY <2>1, <2>2, <2>3
<1>4. Apart(r)
  <2>. SUFFICES ASSUME NEW i \in DOMAIN r, NEW j \in DOMAIN r, Key(r[i]) = Key(r[j])
                PROVE  i = j
    BY DEF Apart
  <2>1. CASE i \in DOMAIN s /\ j \in DOMAIN s
    BY <1>2, <2>1 DEF Apart
  <2>2. CASE i \in DOMAIN s /\ j \notin DOMAIN s
    <3>1. PICK b \in DOMAIN t : j = n + b
      BY <1>2, <2>2
    <3>2. Key(s[i]) \in Keys(s) /\ Key(t[b]) \in Keys(t) /\ Key(s[i]) = Key(t[b])
      BY <1>2, <2>2, <3>1 DEF Keys
    <3>. QED BY <3>2
  <2>3. CASE i \notin DOMAIN s /\ j \in DOMAIN s
    <3>1. PICK b \in DOMAIN t : i = n + b
      BY <1>2, <2>3
    <3>2. Key(s[j]) \in Keys(s) /\ Key(t[b]) \in Keys(t) /\ Key(s[j]) = Key(t[b])
      BY <1>2, <2>3, <3>1 DEF Keys
    <3>. QED BY <3>2
  <2>4. CASE i \notin DOMAIN s /\ j \notin DOMAIN s
    <3>1. PICK a \in DOMAIN t, b \in DOMAIN t : i = n + a /\ j = n + b
      BY <1>2, <2>4
    <3>2. a = b
      BY <1>2, <3>1 DEF Apart
    <3>. QED BY <3>1, <3>2
  <2>. QED BY <2>1, <2>2, <2>3, <2>4
<1>. QED BY <1>3, <1>4

\* r is s in another order.
Permutes(r, s, p) ==
  /\ DOMAIN r = DOMAIN s
  /\ \A i \in DOMAIN s : p[i] \in DOMAIN s /\ r[i] = s[p[i]]
  /\ \A k \in DOMAIN s : \E i \in DOMAIN s : p[i] = k
  /\ \A i, j \in DOMAIN s : p[i] = p[j] => i = j

LEMMA KeysPermuted ==
  ASSUME NEW s, NEW r, NEW p, Permutes(r, s, p)
  PROVE  Keys(r) = Keys(s) /\ (Apart(s) => Apart(r))
<1>1. /\ DOMAIN r = DOMAIN s
      /\ \A i \in DOMAIN s : p[i] \in DOMAIN s /\ r[i] = s[p[i]]
      /\ \A i, j \in DOMAIN s : p[i] = p[j] => i = j
  BY DEF Permutes
<1>2. ASSUME NEW k \in DOMAIN s PROVE \E i \in DOMAIN s : r[i] = s[k]
  <2>1. PICK i \in DOMAIN s : p[i] = k
    BY DEF Permutes
  <2>. QED BY <1>1, <2>1
<1>3. ASSUME NEW x \in Keys(r) PROVE x \in Keys(s)
  BY <1>1 DEF Keys
<1>4. ASSUME NEW x \in Keys(s) PROVE x \in Keys(r)
  <2>1. PICK k \in DOMAIN s : x = Key(s[k])
    BY DEF Keys
  <2>. QED BY <1>1, <1>2, <2>1 DEF Keys
<1>5. ASSUME Apart(s), NEW i \in DOMAIN r, NEW j \in DOMAIN r, Key(r[i]) = Key(r[j]) PROVE i = j
  <2>1. p[i] \in DOMAIN s /\ p[j] \in DOMAIN s /\ Key(s[p[i]]) = Key(s[p[j]])
    BY <1>1, <1>5
  <2>2. p[i] = p[j]
    BY <1>5, <2>1 DEF Apart
  <2>. QED BY <1>1, <2>2
<1>6. Apart(s) => Apart(r)
  BY <1>5 DEF Apart
<1>7. Keys(r) = Keys(s)
  BY <1>3, <1>4
<1>. QED BY <1>6, <1>7

-----------------------------------------------------------------------------
(* Entries of outputs                                                        *)

\* The inscriptions of an entry as if they floated.
Afloat(e) == [i \in DOMAIN e.ins |-> [new |-> Absent, seq |-> e.ins[i][1]]]

LEMMA AfloatFacts ==
  ASSUME NEW e
  PROVE  /\ DOMAIN Afloat(e) = DOMAIN e.ins
         /\ \A i \in DOMAIN e.ins : Afloat(e)[i] = [new |-> Absent, seq |-> e.ins[i][1]]
                                    /\ Key(Afloat(e)[i]) = Old(e.ins[i][1])
         /\ Keys(Afloat(e)) = On(e)
         /\ Apart(Afloat(e)) <=> Single(e)
<1>1. /\ DOMAIN Afloat(e) = DOMAIN e.ins
      /\ \A i \in DOMAIN e.ins : Afloat(e)[i] = [new |-> Absent, seq |-> e.ins[i][1]]
                                 /\ Key(Afloat(e)[i]) = Old(e.ins[i][1])
  BY DEF Afloat, Key
<1>2. Keys(Afloat(e)) = On(e)
  BY <1>1 DEF Keys, On
<1>3. ASSUME NEW i \in DOMAIN e.ins, NEW j \in DOMAIN e.ins
      PROVE  Key(Afloat(e)[i]) = Key(Afloat(e)[j]) <=> e.ins[i][1] = e.ins[j][1]
  <2>. DEFINE x == e.ins[i][1]
              y == e.ins[j][1]
  <2>1. Key(Afloat(e)[i]) = Old(x) /\ Key(Afloat(e)[j]) = Old(y)
    BY <1>1
  <2>. HIDE DEF x, y
  <2>2. Old(x) = Old(y) <=> x = y
    BY DEF Old
  <2>3. Key(Afloat(e)[i]) = Key(Afloat(e)[j]) <=> x = y
    BY <2>1, <2>2
  <2>. QED BY <2>3 DEF x, y
<1>4. Apart(Afloat(e)) <=> Single(e)
  BY <1>1, <1>3 DEF Apart, Single
<1>. QED BY <1>1, <1>2, <1>4

LEMMA OnNothing ==
  ASSUME NEW e, e.ins = << >>
  PROVE  On(e) = {} /\ Single(e)
  BY DEF On, Single

LEMMA OnSame ==
  ASSUME NEW e, NEW f, f.ins = e.ins
  PROVE  On(f) = On(e) /\ (Single(e) => Single(f))
  BY DEF On, Single

LEMMA OnPermuted ==
  ASSUME NEW e, NEW f, NEW p, Permutes(f.ins, e.ins, p)
  PROVE  On(f) = On(e) /\ (Single(e) => Single(f))
<1>1. Permutes(Afloat(f), Afloat(e), p)
  <2>1. DOMAIN f.ins = DOMAIN e.ins
    BY DEF Permutes
  <2>2. ASSUME NEW i \in DOMAIN e.ins PROVE p[i] \in DOMAIN e.ins /\ Afloat(f)[i] = Afloat(e)[p[i]]
    <3>1. p[i] \in DOMAIN e.ins /\ f.ins[i] = e.ins[p[i]]
      BY DEF Permutes
    <3>. QED BY <2>1, <3>1 DEF Afloat
  <2>. QED BY <2>1, <2>2, AfloatFacts DEF Permutes
<1>2. /\ Keys(Afloat(f)) = On(f) /\ (Apart(Afloat(f)) <=> Single(f))
      /\ Keys(Afloat(e)) = On(e) /\ (Apart(Afloat(e)) <=> Single(e))
  BY AfloatFacts
<1>. QED BY <1>1, <1>2, KeysPermuted

\* Inscription place[1] comes on an entry.
LEMMA OnAppend ==
  ASSUME NEW e, NEW f, NEW place, IsSeq(e.ins), IsAppend(f.ins, e.ins, place),
         Single(e), Old(place[1]) \notin On(e)
  PROVE  On(f) = On(e) \cup {Old(place[1])} /\ Single(f)
<1>. DEFINE n == Len(e.ins) + 1
<1>1. /\ Len(e.ins) \in Nat /\ DOMAIN e.ins = 1..Len(e.ins) /\ DOMAIN f.ins = 1..Len(e.ins) + 1
      /\ \A i \in DOMAIN e.ins : f.ins[i] = e.ins[i] /\ f.ins[Len(e.ins) + 1] = place
  BY SeqFacts DEF IsAppend
<1>2. DOMAIN f.ins = DOMAIN e.ins \cup {n} /\ n \notin DOMAIN e.ins
      /\ \A i \in DOMAIN e.ins : f.ins[i] = e.ins[i]
  BY <1>1
<1>3. f.ins[n] = place
  BY DEF IsAppend
<1>. HIDE DEF n
<1>4. On(f) = On(e) \cup {Old(place[1])}
  BY <1>2, <1>3 DEF On
<1>5. Single(f)
  BY <1>2, <1>3, KeysDiffer DEF Single, On
<1>. QED BY <1>4, <1>5

\* The inscriptions of two entries on one (UtxoEntryBuf::merged).
LEMMA OnMerged ==
  ASSUME NEW a, NEW b, NEW f, IsSeq(a.ins), IsSeq(b.ins), IsConcat(f.ins, a.ins, b.ins),
         Single(a), Single(b), \A k \in On(a) : k \notin On(b)
  PROVE  On(f) = On(a) \cup On(b) /\ Single(f)
<1>1. /\ Keys(Afloat(a)) = On(a) /\ (Apart(Afloat(a)) <=> Single(a))
      /\ Keys(Afloat(b)) = On(b) /\ (Apart(Afloat(b)) <=> Single(b))
      /\ Keys(Afloat(f)) = On(f) /\ (Apart(Afloat(f)) <=> Single(f))
  BY AfloatFacts
<1>2. ASSUME NEW e, IsSeq(e.ins) PROVE IsSeq(Afloat(e)) /\ Len(Afloat(e)) = Len(e.ins)
  <2>1. DOMAIN e.ins = 1..Len(e.ins) /\ Len(e.ins) \in Nat
    BY <1>2, SeqFacts
  <2>2. Afloat(e) = [i \in 1..Len(e.ins) |-> Afloat(e)[i]]
    BY <2>1 DEF Afloat
  <2>. QED BY <2>1, <2>2, FcnSeq
<1>3. IsSeq(Afloat(a)) /\ IsSeq(Afloat(b)) /\ IsSeq(Afloat(f))
      /\ Len(Afloat(a)) = Len(a.ins) /\ Len(Afloat(b)) = Len(b.ins) /\ Len(Afloat(f)) = Len(f.ins)
  BY <1>2 DEF IsConcat
<1>4. /\ \A i \in 1..Len(a.ins) : Afloat(f)[i] = Afloat(a)[i]
      /\ \A i \in 1..Len(b.ins) : Afloat(f)[Len(a.ins) + i] = Afloat(b)[i]
  <2>1. /\ DOMAIN a.ins = 1..Len(a.ins) /\ DOMAIN b.ins = 1..Len(b.ins)
        /\ DOMAIN f.ins = 1..Len(a.ins) + Len(b.ins)
        /\ Len(a.ins) \in Nat /\ Len(b.ins) \in Nat
    BY SeqFacts DEF IsConcat
  <2>4. ASSUME NEW m \in Nat, NEW n \in Nat
        PROVE  (\A i \in 1..m : i \in 1..m + n) /\ (\A i \in 1..n : m + i \in 1..m + n)
    OBVIOUS
  <2>2. ASSUME NEW i \in 1..Len(a.ins) PROVE Afloat(f)[i] = Afloat(a)[i]
    <3>1. i \in DOMAIN a.ins /\ i \in DOMAIN f.ins
      BY <2>1, <2>4
    <3>2. f.ins[i] = a.ins[i]
      BY DEF IsConcat
    <3>. QED BY <3>1, <3>2 DEF Afloat
  <2>3. ASSUME NEW i \in 1..Len(b.ins) PROVE Afloat(f)[Len(a.ins) + i] = Afloat(b)[i]
    <3>1. i \in DOMAIN b.ins /\ Len(a.ins) + i \in DOMAIN f.ins
      BY <2>1, <2>4
    <3>2. f.ins[Len(a.ins) + i] = b.ins[i]
      BY DEF IsConcat
    <3>. QED BY <3>1, <3>2 DEF Afloat
  <2>. QED BY <2>2, <2>3
<1>5. Apart(Afloat(a)) /\ Apart(Afloat(b)) /\ \A k \in Keys(Afloat(a)) : k \notin Keys(Afloat(b))
  BY <1>1
<1>6. Len(Afloat(f)) = Len(Afloat(a)) + Len(Afloat(b))
  BY <1>3 DEF IsConcat
<1>7. IsConcat(Afloat(f), Afloat(a), Afloat(b))
  BY <1>3, <1>4, <1>6 DEF IsConcat
<1>8. Keys(Afloat(f)) = Keys(Afloat(a)) \cup Keys(Afloat(b)) /\ Apart(Afloat(f))
  BY <1>3, <1>5, <1>7, KeysConcat
<1>. QED BY <1>1, <1>8

LEMMA AllOnIs ==
  ASSUME NEW m
  PROVE  /\ \A o \in DOMAIN m : \A k \in On(m[o]) : k \in AllOn(m)
         /\ \A k \in AllOn(m) : \E o \in DOMAIN m : k \in On(m[o])
  BY DEF AllOn

LEMMA AllOnNothing == AllOn(<< >>) = {} /\ Spread(<< >>)
  BY DEF AllOn, Spread

\* The same inscriptions on each entry.
LEMMA AllOnSame ==
  ASSUME NEW m, NEW r, DOMAIN r = DOMAIN m,
         \A o \in DOMAIN m : On(r[o]) = On(m[o]) /\ (Single(m[o]) => Single(r[o]))
  PROVE  AllOn(r) = AllOn(m) /\ (Spread(m) => Spread(r))
<1>1. AllOn(r) = AllOn(m)
  <2>1. ASSUME NEW k \in AllOn(m) PROVE k \in AllOn(r)
    BY <2>1, AllOnIs
  <2>2. ASSUME NEW k \in AllOn(r) PROVE k \in AllOn(m)
    BY <2>2, AllOnIs
  <2>. QED BY <2>1, <2>2
<1>2. Spread(m) => Spread(r)
  BY DEF Spread
<1>. QED BY <1>1, <1>2

\* The entries under other names.
LEMMA AllOnRenamed ==
  ASSUME NEW m, NEW r, NEW g,
         \A o \in DOMAIN r : g[o] \in DOMAIN m /\ On(r[o]) = On(m[g[o]])
                             /\ (Single(m[g[o]]) => Single(r[o])),
         \A o, p \in DOMAIN r : g[o] = g[p] => o = p,
         \A x \in DOMAIN m : \E o \in DOMAIN r : g[o] = x
  PROVE  AllOn(r) = AllOn(m) /\ (Spread(m) => Spread(r))
<1>1. ASSUME NEW k \in AllOn(m) PROVE k \in AllOn(r)
  <2>1. PICK x \in DOMAIN m : k \in On(m[x])
    BY <1>1, AllOnIs
  <2>2. PICK o \in DOMAIN r : g[o] = x
    OBVIOUS
  <2>3. k \in On(r[o])
    BY <2>1, <2>2
  <2>. QED BY <2>3, AllOnIs
<1>2. ASSUME NEW k \in AllOn(r) PROVE k \in AllOn(m)
  <2>1. PICK o \in DOMAIN r : k \in On(r[o])
    BY <1>2, AllOnIs
  <2>2. k \in On(m[g[o]]) /\ g[o] \in DOMAIN m
    BY <2>1
  <2>. QED BY <2>2, AllOnIs
<1>3. ASSUME Spread(m), NEW o \in DOMAIN r, NEW p \in DOMAIN r, NEW k \in On(r[o]), k \in On(r[p])
      PROVE  o = p
  <2>1. g[o] \in DOMAIN m /\ g[p] \in DOMAIN m /\ k \in On(m[g[o]]) /\ k \in On(m[g[p]])
    BY <1>3
  <2>2. g[o] = g[p]
    BY <1>3, <2>1 DEF Spread
  <2>. QED BY <2>2
<1>4. Spread(m) => Spread(r)
  BY <1>3 DEF Spread
<1>5. AllOn(r) = AllOn(m)
  BY <1>1, <1>2
<1>. QED BY <1>4, <1>5

\* Entries that leave and entries that come.
LEMMA AllOnDrop ==
  ASSUME NEW m, NEW S, Spread(m)
  PROVE  /\ AllOn(Drop(m, S)) \subseteq AllOn(m) /\ Spread(Drop(m, S))
         /\ \A o \in DOMAIN m : \A k \in On(m[o]) : k \in AllOn(Drop(m, S)) <=> o \notin S
<1>. DEFINE r == Drop(m, S)
<1>1. DOMAIN r = DOMAIN m \ S /\ \A o \in DOMAIN r : r[o] = m[o]
  BY DEF Drop
<1>. HIDE DEF r
<1>2. AllOn(r) \subseteq AllOn(m)
  BY <1>1, AllOnIs
<1>3. Spread(r)
  BY <1>1 DEF Spread
<1>4. ASSUME NEW o \in DOMAIN m, NEW k \in On(m[o]) PROVE k \in AllOn(r) <=> o \notin S
  <2>1. CASE o \notin S
    BY <1>1, <2>1, AllOnIs
  <2>2. CASE o \in S
    <3>1. ASSUME k \in AllOn(r) PROVE FALSE
      <4>1. PICK p \in DOMAIN r : k \in On(r[p])
        BY <3>1, AllOnIs
      <4>2. p \in DOMAIN m /\ p \notin S /\ k \in On(m[p])
        BY <1>1, <4>1
      <4>3. p = o
        BY <4>2 DEF Spread
      <4>. QED BY <2>2, <4>2, <4>3
    <3>. QED BY <2>2, <3>1
  <2>. QED BY <2>1, <2>2
<1>. QED BY <1>2, <1>3, <1>4 DEF r

LEMMA AllOnPutAll ==
  ASSUME NEW m, NEW g, Spread(m), Spread(g), \A o \in DOMAIN m : o \notin DOMAIN g,
         \A k \in AllOn(m) : k \notin AllOn(g)
  PROVE  AllOn(PutAll(m, g)) = AllOn(m) \cup AllOn(g) /\ Spread(PutAll(m, g))
<1>. DEFINE r == PutAll(m, g)
<1>1. /\ DOMAIN r = DOMAIN m \cup DOMAIN g
      /\ \A o \in DOMAIN m : r[o] = m[o]
      /\ \A o \in DOMAIN g : r[o] = g[o]
  BY DEF PutAll
<1>. HIDE DEF r
<1>2. ASSUME NEW k \in AllOn(r) PROVE k \in AllOn(m) \cup AllOn(g)
  <2>1. PICK o \in DOMAIN r : k \in On(r[o])
    BY <1>2, AllOnIs
  <2>. QED BY <1>1, <2>1, AllOnIs
<1>3. ASSUME NEW k \in AllOn(m) \cup AllOn(g) PROVE k \in AllOn(r)
  <2>1. CASE k \in AllOn(m)
    <3>1. PICK o \in DOMAIN m : k \in On(m[o])
      BY <2>1, AllOnIs
    <3>. QED BY <1>1, <3>1, AllOnIs
  <2>2. CASE k \in AllOn(g)
    <3>1. PICK o \in DOMAIN g : k \in On(g[o])
      BY <2>2, AllOnIs
    <3>. QED BY <1>1, <3>1, AllOnIs
  <2>. QED BY <2>1, <2>2
<1>4. ASSUME NEW o \in DOMAIN r, NEW p \in DOMAIN r, NEW k \in On(r[o]), k \in On(r[p])
      PROVE  o = p
  <2>1. /\ o \in DOMAIN m => k \in AllOn(m) /\ k \in On(m[o])
        /\ o \in DOMAIN g => k \in AllOn(g) /\ k \in On(g[o])
        /\ p \in DOMAIN m => k \in AllOn(m) /\ k \in On(m[p])
        /\ p \in DOMAIN g => k \in AllOn(g) /\ k \in On(g[p])
    BY <1>1, <1>4, AllOnIs
  <2>. QED BY <1>1, <2>1 DEF Spread
<1>5. Spread(r)
  <2>1. \A o \in DOMAIN r : Single(r[o])
    BY <1>1 DEF Spread
  <2>. QED BY <1>4, <2>1 DEF Spread
<1>6. AllOn(r) = AllOn(m) \cup AllOn(g)
  BY <1>2, <1>3
<1>. QED BY <1>5, <1>6 DEF r

\* Inscriptions come on one entry, which may be new.
LEMMA AllOnPut ==
  ASSUME NEW m, NEW o, NEW e, NEW K, Spread(m), Single(e),
         IF o \in DOMAIN m THEN On(e) = On(m[o]) \cup K ELSE On(e) = K,
         \A k \in K : k \notin AllOn(m)
  PROVE  AllOn(Put(m, o, e)) = AllOn(m) \cup K /\ Spread(Put(m, o, e))
<1>. DEFINE r == Put(m, o, e)
<1>1. /\ DOMAIN r = DOMAIN m \cup {o} /\ r[o] = e
      /\ \A p \in DOMAIN m : p # o => r[p] = m[p]
  BY DEF Put
<1>. HIDE DEF r
<1>2. ASSUME NEW k \in AllOn(r) PROVE k \in AllOn(m) \cup K
  <2>1. PICK p \in DOMAIN r : k \in On(r[p])
    BY <1>2, AllOnIs
  <2>2. CASE p = o
    BY <1>1, <2>1, <2>2, AllOnIs
  <2>3. CASE p # o
    BY <1>1, <2>1, <2>3, AllOnIs
  <2>. QED BY <2>2, <2>3
<1>3. ASSUME NEW k \in AllOn(m) \cup K PROVE k \in AllOn(r)
  <2>1. CASE k \in K
    <3>1. o \in DOMAIN r /\ k \in On(r[o])
      BY <1>1, <2>1
    <3>. QED BY <3>1, AllOnIs
  <2>2. CASE k \in AllOn(m)
    <3>1. PICK p \in DOMAIN m : k \in On(m[p])
      BY <2>2, AllOnIs
    <3>2. p \in DOMAIN r /\ k \in On(r[p])
      BY <1>1, <3>1
    <3>. QED BY <3>2, AllOnIs
  <2>. QED BY <2>1, <2>2
<1>4. ASSUME NEW p \in DOMAIN r, NEW k, k \in On(r[p]), p # o PROVE k \in On(m[p]) /\ k \notin On(r[o])
  <2>1. p \in DOMAIN m /\ k \in On(m[p]) /\ k \in AllOn(m)
    BY <1>1, <1>4, AllOnIs
  <2>2. k \notin K
    BY <2>1
  <2>3. o \in DOMAIN m => k \notin On(m[o])
    BY <1>4, <2>1 DEF Spread
  <2>. QED BY <1>1, <2>1, <2>2, <2>3
<1>5. Spread(r)
  <2>1. \A p \in DOMAIN r : Single(r[p])
    BY <1>1 DEF Spread
  <2>2. ASSUME NEW p \in DOMAIN r, NEW q \in DOMAIN r, NEW k \in On(r[p]), k \in On(r[q]) PROVE p = q
    <3>1. CASE p = o \/ q = o
      BY <1>4, <2>2, <3>1
    <3>2. CASE p # o /\ q # o
      <4>1. p \in DOMAIN m /\ q \in DOMAIN m /\ k \in On(m[p]) /\ k \in On(m[q])
        BY <1>1, <1>4, <2>2, <3>2
      <4>. QED BY <4>1 DEF Spread
    <3>. QED BY <3>1, <3>2
  <2>. QED BY <2>1, <2>2 DEF Spread
<1>6. AllOn(r) = AllOn(m) \cup K
  BY <1>2, <1>3
<1>. QED BY <1>5, <1>6 DEF r

-----------------------------------------------------------------------------
(* The places                                                                *)

\* What an earlier message left replaces the locals when their stage begins.
Loading3 == saved.in3 # Absent /\ (tx = Absent \/ tx.phase \in {"inputs", "outputs"})
Loading2 == saved.in2 # Absent /\ (tx = Absent \/ tx.phase = "inputs")
Reading == InTx /\ ~Resumes /\ (tx = Absent \/ tx.phase = "inputs")

\* What floats in the transaction in progress,
Queue == IF ~InTx THEN << >>
         ELSE IF Loading3 THEN saved.in3.queue
         ELSE IF Loading2 THEN saved.in2.queue
         ELSE IF tx = Absent THEN saved.in1.floating
         ELSE IF tx.phase = "inputs" THEN tx.floating ELSE tx.queue

\* what has come down and is not written,
Located == IF ~InTx \/ Reading THEN << >>
           ELSE IF Loading3 THEN saved.in3.located
           ELSE IF Loading2 THEN saved.in2.located ELSE tx.located
Loc == IF Loading3 THEN saved.in3.loc ELSE IF tx = Absent THEN 1 ELSE tx.loc
From(located, loc) == [i \in {j \in DOMAIN located : j >= loc} |-> located[i].flotsam]
Rest == From(Located, Loc)

\* what the inputs have that is not taken,
InOrderFrom(ins, k) ==
  [ins |-> [j \in {j \in DOMAIN ins : j >= k} |->
              Sorted(ins, [i \in DOMAIN ins |-> ins[i][1]])[j]]]
Untaken ==
  IF Reading /\ ~IsLast
  THEN [i \in At.input..Len(Work.ins) |->
          IF i = At.input THEN InOrderFrom(Work.ins[i].ins, At.inscription) ELSE Work.ins[i]]
  ELSE << >>

\* its outputs, and what waits for the coinbase.
Outs == IF InTx THEN Work.outs ELSE << >>
Waiting == IF Indexing THEN Accounts.flotsam ELSE << >>

\* An inscription is in one place only, and once there.
EachApart ==
  /\ Spread(tab.utxo) /\ Spread(staged.cache) /\ Spread(Outs) /\ Spread(Untaken)
  /\ Apart(Queue) /\ Apart(Rest) /\ Apart(Waiting)

Separate(U, C, O, I, Q, R, W) ==
  /\ \A k \in U : k \notin C /\ k \notin O /\ k \notin I /\ k \notin Q /\ k \notin R /\ k \notin W
  /\ \A k \in C : k \notin O /\ k \notin I /\ k \notin Q /\ k \notin R /\ k \notin W
  /\ \A k \in O : k \notin I /\ k \notin Q /\ k \notin R /\ k \notin W
  /\ \A k \in I : k \notin Q /\ k \notin R /\ k \notin W
  /\ \A k \in Q : k \notin R /\ k \notin W
  /\ \A k \in R : k \notin W

AllApart == Separate(AllOn(tab.utxo), AllOn(staged.cache), AllOn(Outs), AllOn(Untaken),
                     Keys(Queue), Keys(Rest), Keys(Waiting))

Everywhere ==
  AllOn(tab.utxo) \cup AllOn(staged.cache) \cup AllOn(Outs) \cup AllOn(Untaken)
    \cup Keys(Queue) \cup Keys(Rest) \cup Keys(Waiting)

\* The places have the inscriptions that are entered, and new ones.
Placed ==
  /\ EachApart /\ AllApart
  /\ \A seq : Old(seq) \in Everywhere <=> seq \in DOMAIN tab.entries
  /\ \A x : New(x) \in Everywhere => x \notin DOMAIN tab.ids

-----------------------------------------------------------------------------
(* Ids                                                                       *)

\* The ids of the transactions of the block in progress before position n.
Spent(n) == {Txs[i].id : i \in 1..n - 1}

\* The table of ids is the inverse of the entries.
IdsMatch(t) ==
  /\ \A seq \in DOMAIN t.entries : /\ t.entries[seq].id \in DOMAIN t.ids
                                   /\ t.ids[t.entries[seq].id] = seq
  /\ \A x \in DOMAIN t.ids : t.ids[x] \in DOMAIN t.entries /\ t.entries[t.ids[x]].id = x

\* The envelopes counted so far, and the position up to which transactions
\* have given ids to inscriptions in the tables.
Envelope == IF tx = Absent THEN saved.in1.id ELSE tx.id
Entering == IF InTx /\ ~Reading THEN At.tx + 1 ELSE At.tx

\* Ids of inscriptions and outpoints are those of transactions in X.
IdsFrom(f, X) == \A x \in DOMAIN f : x[1] \in X
NewFrom(K, X) == \A x : New(x) \in K => x[1] \in X

FromDone ==
  /\ block = None =>
       IdsFrom(tab.ids, Known(Len(chain))) /\ OutsFrom(tab.utxo, Known(Len(chain)))
  /\ Indexing =>
       /\ IdsFrom(tab.ids, Known(Len(chain)) \cup Spent(Entering))
       /\ OutsFrom(tab.utxo, Known(Len(chain))) /\ OutsFrom(staged.cache, Spent(At.tx))
       /\ NewFrom(Keys(Waiting), Spent(At.tx))
       /\ NewFrom(Keys(Rest), Spent(At.tx + 1)) /\ NewFrom(Keys(Queue), Spent(At.tx + 1))
       /\ Reading => \A x : New(x) \in Keys(Queue) => \E k \in 0..Envelope - 1 : x = <<This.id, k>>
  /\ Committing =>
       /\ IdsFrom(tab.ids, Known(Len(chain)) \cup TxIds(block))
       /\ OutsFrom(tab.utxo, Known(Len(chain)) \cup TxIds(block))
       /\ OutsFrom(staged.cache, TxIds(block))
       /\ \A o \in DOMAIN staged.cache : o \in Special \/ o \notin DOMAIN tab.utxo

\* The tables between blocks, when the first n are indexed.
Whole(t, n) ==
  /\ IdsMatch(t) /\ IdsFrom(t.ids, Known(n)) /\ OutsFrom(t.utxo, Known(n)) /\ Spread(t.utxo)
  /\ \A seq : Old(seq) \in AllOn(t.utxo) <=> seq \in DOMAIN t.entries

Held ==
  /\ \A h \in DOMAIN past.tab : Whole(past.tab[h], h)
  /\ Placed /\ FromDone /\ IdsMatch(tab)

-----------------------------------------------------------------------------
(* Positions                                                                 *)

\* The cursor is before the first inscription but in the middle of an input,
\* nothing waits behind the coinbase, what has come down is on an output, and
\* all of it is written when the rest is.
Positions ==
  /\ Indexing /\ ~(Reading /\ At.input <= InputCount) => At.inscription = 1
  /\ Indexing /\ At.tx > Len(Txs) => Accounts.flotsam = << >>
  /\ InTx => DOMAIN Work.outs = 1..Len(This.outs)
  /\ \A i \in DOMAIN Located : Located[i].out \in DOMAIN Outs
  /\ tx # Absent => (tx.phase = "rest" => tx.loc > Len(tx.located))

LEMMA NotInTx ==
  ASSUME ~InTx
  PROVE  Queue = << >> /\ Located = << >> /\ Untaken = << >> /\ Outs = << >> /\ ~Reading
  BY DEF Queue, Located, Untaken, Outs, Reading

LEMMA NotInTxNext == ~InTx' => Queue' = << >> /\ Located' = << >> /\ Untaken' = << >> /\ Outs' = << >>
                               /\ ~Reading'
  BY DEF Queue, Located, Untaken, Outs, Reading

\* Between two transactions, and between two blocks.
LEMMA OutsidePositions ==
  ASSUME ~InTx', tx' = Absent,
         Indexing' => At'.inscription = 1 /\ (At'.tx > Len(Txs') => Accounts'.flotsam = << >>)
  PROVE  Positions'
<1>1. Located' = << >>
  BY NotInTxNext
<1>. QED BY <1>1 DEF Positions

LEMMA InitPositions == ASSUME Init PROVE Positions
<1>1. ~InTx /\ ~Indexing /\ tx = Absent
  BY DEF Init, InTx, Indexing, NoSaved
<1>2. Located = << >>
  BY <1>1, NotInTx
<1>. QED BY <1>1, <1>2 DEF Positions

LEMMA StagePositions == ASSUME Frame, Stage PROVE Positions'
<1>1. run = Absent /\ tx = Absent /\ saved = NoSaved
  BY DEF Frame, Control, Stage, Indexing
<1>2. /\ run' = Absent /\ tx' = Absent /\ saved' = NoSaved /\ cursor' = NoCursor
      /\ chain' = chain /\ block' \in Blocks
  BY <1>1 DEF Stage
<1>3. ~InTx' /\ At' = NoCursor
  BY <1>2 DEF InTx, NoSaved, At
<1>4. Len(Txs') >= 1 /\ Len(Txs') \in Nat
  BY <1>2, OrderFacts DEF Txs
<1>. QED BY <1>2, <1>3, <1>4, OutsidePositions DEF NoCursor

LEMMA BeginSame ==
  ASSUME Frame, Begin
  PROVE  /\ run' # Absent /\ UNCHANGED <<chain, tab, records, block, staged, saved, tx, past>>
         /\ tx = Absent /\ Indexing /\ Indexing' /\ (InTx' <=> InTx) /\ Work' = Work
         /\ At'.tx = At.tx /\ At'.input = At.input /\ At'.inscription = At.inscription
         /\ Accounts'.flotsam = Accounts.flotsam /\ Txs' = Txs
<1>1. /\ run = Absent /\ tx = Absent /\ UNCHANGED <<chain, tab, records, block, staged, saved, tx, past>>
      /\ Indexing /\ Indexing'
  BY DEF Begin, Frame, Control, Indexing
<1>2. /\ "tx" \in DOMAIN run' /\ run'.tx = cursor.tx /\ run'.input = cursor.input
      /\ run'.inscription = cursor.inscription /\ run'.flotsam = Kept.flotsam
  BY DEF Begin
<1>3. run' # Absent
  BY <1>2, HasFields
<1>. QED BY <1>1, <1>2, <1>3 DEF At, InTx, Work, Accounts, Txs, InOrder

\* The locals of the loop are loaded; nothing else happens.
SameView ==
  /\ UNCHANGED <<chain, block, past>> /\ staged'.state = staged.state /\ staged'.cache = staged.cache
  /\ tab'.utxo = tab.utxo /\ tab'.entries = tab.entries /\ tab'.ids = tab.ids
  /\ (InTx' <=> InTx) /\ Outs' = Outs /\ Untaken' = Untaken /\ Queue' = Queue
  /\ Located' = Located /\ Rest' = Rest /\ Waiting' = Waiting
  /\ (Reading' <=> Reading) /\ (Reading => Envelope' = Envelope) /\ (Indexing => At'.tx = At.tx)

LEMMA BeginView == ASSUME Frame, Begin PROVE SameView
<1>1. /\ UNCHANGED <<chain, tab, records, block, staged, saved, tx, past>>
      /\ tx = Absent /\ Indexing /\ Indexing' /\ (InTx' <=> InTx) /\ Work' = Work
      /\ At'.tx = At.tx /\ At'.input = At.input /\ At'.inscription = At.inscription
      /\ Accounts'.flotsam = Accounts.flotsam /\ Txs' = Txs
  BY BeginSame
<1>2. (Reading' <=> Reading) /\ Loading3' = Loading3 /\ Loading2' = Loading2
  BY <1>1 DEF Reading, Loading3, Loading2, Resumes
<1>3. Queue' = Queue /\ Located' = Located /\ Outs' = Outs /\ Waiting' = Waiting /\ Envelope' = Envelope
  BY <1>1, <1>2 DEF Queue, Located, Outs, Waiting, Envelope
<1>4. Rest' = Rest
  BY <1>1, <1>2, <1>3 DEF Rest, Loc, From
<1>5. IsLast' = IsLast
  BY <1>1 DEF IsLast
<1>6. Untaken' = Untaken
  <2>. HIDE DEF Reading, IsLast, Work
  <2>. QED BY <1>1, <1>2, <1>5 DEF Untaken
<1>. QED BY <1>1, <1>2, <1>3, <1>4, <1>6 DEF SameView

LEMMA BeginPositions == ASSUME Frame, Positions, Begin PROVE Positions'
<1>1. /\ UNCHANGED <<chain, tab, records, block, staged, saved, tx, past>>
      /\ tx = Absent /\ Indexing /\ Indexing' /\ (InTx' <=> InTx) /\ Work' = Work
      /\ At'.tx = At.tx /\ At'.input = At.input /\ At'.inscription = At.inscription
      /\ Accounts'.flotsam = Accounts.flotsam /\ Txs' = Txs
  BY BeginSame
<1>2. (Reading' <=> Reading) /\ Located' = Located /\ Outs' = Outs
  BY BeginView DEF SameView
<1>3. This' = This /\ InputCount' = InputCount
  BY <1>1 DEF This, InputCount, IsLast
<1>. QED BY <1>1, <1>2, <1>3 DEF Positions

-----------------------------------------------------------------------------
(* The places as the locals and the staged variables have them              *)

\* A transaction that takes its inputs,
ViewsReading ==
  /\ Reading /\ ~Loading2 /\ ~Loading3 /\ InTx /\ Indexing /\ At = run
  /\ Queue = tx.floating /\ Located = << >> /\ Outs = tx.outs /\ Waiting = run.flotsam
  /\ Envelope = tx.id

\* one that has to read again where an earlier message was,
ViewsLoading ==
  /\ ~Reading /\ InTx /\ Indexing
  /\ Untaken = << >> /\ Outs = Work.outs /\ Waiting = Accounts.flotsam
  /\ saved.in3 # Absent => /\ Queue = saved.in3.queue /\ Located = saved.in3.located
                           /\ Loc = saved.in3.loc
  /\ saved.in3 = Absent => /\ Queue = saved.in2.queue /\ Located = saved.in2.located /\ Loc = 1

\* one that is behind its inputs,
ViewsLocals ==
  /\ ~Reading /\ InTx /\ Indexing /\ At = run
  /\ Untaken = << >> /\ Outs = tx.outs /\ Waiting = run.flotsam
  /\ Queue = tx.queue /\ Located = tx.located /\ Loc = tx.loc

\* and none.
ViewsNone ==
  /\ ~InTx /\ ~Reading /\ Untaken = << >> /\ Outs = << >> /\ Queue = << >> /\ Located = << >>
  /\ Waiting = IF Indexing THEN Accounts.flotsam ELSE << >>

LEMMA ViewReading == Frame /\ tx # Absent /\ tx.phase = "inputs" /\ ~Resumes => ViewsReading
<1>. SUFFICES ASSUME Frame, tx # Absent, tx.phase = "inputs", ~Resumes PROVE ViewsReading
  OBVIOUS
<1>1. Indexing /\ InTx /\ At = run /\ Work = tx /\ Accounts = run
  BY InTxFacts
<1>2. Reading /\ ~Loading2 /\ ~Loading3
  BY <1>1 DEF Reading, Loading2, Loading3, Resumes
<1>. QED BY <1>1, <1>2 DEF ViewsReading, Queue, Located, Outs, Waiting, Envelope

LEMMA ViewLoading ==
  Frame /\ InTx /\ Resumes
    /\ (tx = Absent \/ tx.phase = "inputs" \/ (tx.phase = "outputs" /\ saved.in3 # Absent))
  => ViewsLoading
<1>. SUFFICES ASSUME Frame, InTx, Resumes,
                     \/ tx = Absent \/ tx.phase = "inputs"
                     \/ (tx.phase = "outputs" /\ saved.in3 # Absent)
              PROVE  ViewsLoading
  OBVIOUS
<1>1. Indexing
  <2>1. saved # NoSaved \/ tx # Absent
    BY DEF InTx, NoSaved
  <2>. QED BY <2>1 DEF Frame, Control
<1>2. ~Reading /\ Untaken = << >> /\ Outs = Work.outs /\ Waiting = Accounts.flotsam
  BY <1>1 DEF Reading, Untaken, Outs, Waiting
<1>3. CASE saved.in3 # Absent
  <2>1. Loading3
    BY <1>3 DEF Loading3
  <2>. QED BY <1>1, <1>2, <1>3, <2>1 DEF ViewsLoading, Queue, Located, Loc
<1>4. CASE saved.in3 = Absent
  <2>1. Loading2 /\ ~Loading3 /\ (tx = Absent \/ tx.phase = "inputs")
    BY <1>4 DEF Loading2, Loading3, Resumes
  <2>2. tx # Absent => tx.loc = 1
    BY <2>1 DEF Frame, Pending
  <2>3. Queue = saved.in2.queue /\ Located = saved.in2.located /\ Loc = 1
    BY <1>2, <2>1, <2>2 DEF Queue, Located, Loc
  <2>. QED BY <1>1, <1>2, <1>4, <2>3 DEF ViewsLoading
<1>. QED BY <1>3, <1>4

LEMMA ViewLocals ==
  Frame /\ tx # Absent
    /\ ((tx.phase = "outputs" /\ saved.in3 = Absent) \/ tx.phase \in {"locations", "rest"})
  => ViewsLocals
<1>. SUFFICES ASSUME Frame, tx # Absent,
                     (tx.phase = "outputs" /\ saved.in3 = Absent) \/ tx.phase \in {"locations", "rest"}
              PROVE  ViewsLocals
  OBVIOUS
<1>1. Indexing /\ InTx /\ At = run /\ Work = tx /\ Accounts = run
  BY InTxFacts
<1>2. ~Reading /\ ~Loading2 /\ ~Loading3
  BY DEF Reading, Loading2, Loading3
<1>3. tx.phase # "inputs"
  OBVIOUS
<1>. QED BY <1>1, <1>2, <1>3 DEF ViewsLocals, Untaken, Queue, Located, Loc, Outs, Waiting

LEMMA ViewNone == ~InTx => ViewsNone
  BY NotInTx DEF ViewsNone, Waiting

\* A transaction that an earlier message left among its inputs.
ViewsSaved ==
  /\ Reading /\ ~Loading2 /\ ~Loading3 /\ Indexing
  /\ Queue = saved.in1.floating /\ Located = << >> /\ Outs = saved.tx.outs
  /\ Waiting = Accounts.flotsam /\ Envelope = saved.in1.id

LEMMA ViewSaved == Frame /\ tx = Absent /\ saved.tx # Absent /\ ~Resumes => ViewsSaved
<1>. SUFFICES ASSUME Frame, tx = Absent, saved.tx # Absent, ~Resumes PROVE ViewsSaved
  OBVIOUS
<1>1. InTx /\ Work = saved.tx
  BY DEF InTx, Work
<1>2. Indexing
  BY DEF Frame, Control, NoSaved
<1>3. Reading /\ ~Loading2 /\ ~Loading3
  BY <1>1 DEF Reading, Loading2, Loading3, Resumes
<1>. QED BY <1>1, <1>2, <1>3 DEF ViewsSaved, Queue, Located, Outs, Waiting, Envelope

-----------------------------------------------------------------------------
(* Steps that leave the places alone                                         *)

\* The point of the block is the same, or another where no inscription of an
\* input is next.
SameSpot ==
  /\ Txs' = Txs /\ Indexing' = Indexing
  /\ Indexing => /\ At'.tx = At.tx /\ Accounts'.flotsam = Accounts.flotsam
                 /\ \/ At'.inscription = 1
                    \/ At'.inscription = At.inscription /\ At'.input = At.input
  /\ InTx' => InTx /\ DOMAIN Work'.outs = DOMAIN Work.outs
  /\ tx' # Absent => (tx'.phase = "rest" => tx'.loc > Len(tx'.located))

LEMMA SamePositions == ASSUME Frame, Positions, SameView, SameSpot PROVE Positions'
<1>1. Indexing => This' = This /\ InputCount' = InputCount
  BY DEF SameSpot, This, InputCount, IsLast
<1>2. Indexing' /\ ~(Reading' /\ At'.input <= InputCount') => At'.inscription = 1
  BY <1>1 DEF Positions, SameView, SameSpot
<1>3. Indexing' /\ At'.tx > Len(Txs') => Accounts'.flotsam = << >>
  BY DEF Positions, SameSpot
<1>4. InTx' => DOMAIN Work'.outs = 1..Len(This'.outs)
  <2>1. InTx => Indexing
    BY DEF Frame, Control, InTx, NoSaved
  <2>. QED BY <1>1, <2>1 DEF Positions, SameSpot
<1>5. \A i \in DOMAIN Located' : Located'[i].out \in DOMAIN Outs'
  BY DEF Positions, SameView
<1>. QED BY <1>2, <1>3, <1>4, <1>5 DEF Positions, SameSpot

\* The places are the same when what they are made of is.
SameParts ==
  /\ UNCHANGED <<chain, block, past>> /\ staged'.state = staged.state
  /\ staged'.cache = staged.cache
  /\ tab'.utxo = tab.utxo /\ tab'.entries = tab.entries /\ tab'.ids = tab.ids
  /\ (InTx' <=> InTx) /\ Outs' = Outs /\ Queue' = Queue /\ Located' = Located /\ Waiting' = Waiting
  /\ (Reading' <=> Reading) /\ (Indexing => At'.tx = At.tx)
  /\ Reading => /\ Envelope' = Envelope /\ Work'.ins = Work.ins
                /\ At'.input = At.input /\ At'.inscription = At.inscription
  /\ ~Reading => Loc' = Loc

LEMMA NoneRest == \A c : From(<< >>, c) = << >>
  BY DEF From

LEMMA SameParted == ASSUME Frame, SameParts PROVE SameView
<1>1. Rest' = Rest
  <2>1. Rest = From(Located, Loc) /\ Rest' = From(Located', Loc')
    BY DEF Rest
  <2>2. Located' = Located
    BY DEF SameParts
  <2>3. CASE Reading
    <3>1. Located = << >>
      BY <2>3 DEF Located
    <3>. QED BY <2>1, <2>2, <3>1, NoneRest
  <2>4. CASE ~Reading
    <3>1. Loc' = Loc
      BY <2>4 DEF SameParts
    <3>. QED BY <2>1, <2>2, <3>1
  <2>. QED BY <2>3, <2>4
<1>2. Txs' = Txs
  BY DEF SameParts, Txs, InOrder
<1>3. Untaken' = Untaken
  <2>1. CASE Reading
    <3>1. Indexing
      BY <2>1 DEF Reading, Frame, Control, InTx, NoSaved
    <3>2. IsLast' = IsLast /\ Work'.ins = Work.ins /\ Reading'
          /\ At'.input = At.input /\ At'.inscription = At.inscription
      BY <1>2, <2>1, <3>1 DEF SameParts, IsLast
    <3>. HIDE DEF Reading, IsLast, Work
    <3>. QED BY <2>1, <3>2 DEF Untaken
  <2>2. CASE ~Reading
    <3>1. ~Reading'
      BY <2>2 DEF SameParts
    <3>. QED BY <2>2, <3>1 DEF Untaken
  <2>. QED BY <2>1, <2>2
<1>. QED BY <1>1, <1>3 DEF SameParts, SameView

LEMMA ContinuePlaces ==
  ASSUME Frame, Frame', Positions, Continue
  PROVE  SameView /\ SameSpot
<1>1. /\ run # Absent /\ tx = Absent /\ run.tx <= Len(Txs) /\ saved.tx # Absent
      /\ tx' = IF saved.in1 = Absent THEN Fresh(saved.tx.ins, saved.tx.outs, saved.tx.inSats)
               ELSE [Fresh(saved.tx.ins, saved.tx.outs, saved.tx.inSats)
                       EXCEPT !.floating = saved.in1.floating, !.offsets = saved.in1.offsets,
                              !.id = saved.in1.id, !.inValue = saved.in1.inValue]
      /\ UNCHANGED <<chain, tab, records, block, cursor, staged, saved, run, past>>
  BY DEF Continue
<1>2. /\ "phase" \in DOMAIN tx'
      /\ tx'.phase = "inputs" /\ tx'.ins = saved.tx.ins /\ tx'.outs = saved.tx.outs
      /\ IF saved.in1 = Absent THEN tx'.floating = << >> /\ tx'.id = 0
         ELSE /\ tx'.floating = saved.in1.floating /\ tx'.id = saved.in1.id
  BY <1>1 DEF Fresh
<1>3. tx' # Absent
  BY <1>2, HasFields
<1>4. /\ InTx /\ InTx' /\ At = run /\ At' = run /\ Work = saved.tx /\ Work' = tx'
      /\ Accounts = run /\ Accounts' = run /\ Indexing /\ Indexing' /\ Txs' = Txs
      /\ Resumes' = Resumes
  BY <1>1, <1>3 DEF InTx, At, Work, Accounts, Frame, Control, Indexing, Txs, InOrder, Resumes
<1>5. CASE Resumes
  <2>1. ViewsLoading
    BY <1>1, <1>4, <1>5, ViewLoading
  <2>2. ViewsLoading'
    <3>1. (Frame /\ InTx /\ Resumes /\ tx.phase = "inputs" => ViewsLoading)'
      BY ViewLoading, PTL
    <3>. QED BY <1>2, <1>4, <1>5, <3>1
  <2>3. ~Reading /\ ~Reading' /\ Outs' = Outs /\ Waiting' = Waiting /\ Queue' = Queue
        /\ Located' = Located /\ Loc' = Loc
    BY <1>1, <1>2, <1>4, <2>1, <2>2 DEF ViewsLoading
  <2>4. SameParts
    BY <1>1, <1>4, <2>3 DEF SameParts
  <2>. QED BY <1>2, <1>3, <1>4, <2>4, SameParted DEF SameSpot
<1>6. CASE ~Resumes
  <2>1. ViewsSaved
    BY <1>1, <1>6, ViewSaved
  <2>2. ViewsReading'
    <3>1. (Frame /\ tx # Absent /\ tx.phase = "inputs" /\ ~Resumes => ViewsReading)'
      BY ViewReading, PTL
    <3>. QED BY <1>2, <1>3, <1>4, <1>6, <3>1
  <2>3. saved.in1 # Absent
    BY <1>1, <1>4, <1>6 DEF Frame, Control
  <2>4. /\ Reading /\ Reading' /\ Outs' = Outs /\ Waiting' = Waiting /\ Queue' = Queue
        /\ Located' = Located /\ Envelope' = Envelope
    BY <1>1, <1>2, <1>4, <2>1, <2>2, <2>3 DEF ViewsSaved, ViewsReading
  <2>5. SameParts
    BY <1>1, <1>2, <1>4, <2>4 DEF SameParts
  <2>. QED BY <1>2, <1>3, <1>4, <2>5, SameParted DEF SameSpot
<1>. QED BY <1>5, <1>6

\* A step of the transaction in progress, behind its inputs.
LEMMA InTxSpot ==
  ASSUME Frame, Positions, run # Absent, tx # Absent, run' # Absent, tx' # Absent, block' = block,
         staged'.state = staged.state, run'.tx = run.tx, run'.flotsam = Accounts.flotsam,
         run'.inscription = run.inscription, ~Reading \/ run.input > InputCount,
         DOMAIN tx'.outs = DOMAIN tx.outs, tx'.phase = "rest" => tx'.loc > Len(tx'.located)
  PROVE  SameSpot
<1>1. Indexing /\ At = run /\ Work = tx /\ Accounts = run /\ InTx /\ run.inscription \in Nat
      /\ run.input \in Nat
  BY InTxFacts DEF RunOK
<1>2. At' = run' /\ Work' = tx' /\ Accounts' = run' /\ Txs' = Txs /\ (Indexing' <=> Indexing)
  BY DEF At, Work, Accounts, Txs, InOrder, Indexing
<1>3. run.inscription = 1
  <2>1. ~(Reading /\ At.input <= InputCount)
    <3>1. CASE ~Reading
      BY <3>1
    <3>2. CASE run.input > InputCount
      <4>1. InputCount \in Nat
        <5>1. InputCount = Inputs /\ ContentOK(T)
          BY InTxFacts
        <5>. QED BY <5>1, SeqFacts DEF Inputs, ContentOK
      <4>. QED BY <1>1, <3>2, <4>1
    <3>. QED BY <3>1, <3>2
  <2>. QED BY <1>1, <2>1 DEF Positions
<1>4. Indexing' = Indexing
  BY <1>2 DEF Indexing
<1>. QED BY <1>1, <1>2, <1>3, <1>4 DEF SameSpot

LEMMA NextOutputPlaces ==
  ASSUME Frame, Frame', Positions, NextOutput
  PROVE  SameView /\ SameSpot
<1>1. /\ run # Absent /\ tx # Absent /\ tx.phase = "outputs"
      /\ tx' = [tx EXCEPT !.outValue = tx.outValue + T.outs[tx.out].value, !.out = tx.out + 1]
      /\ UNCHANGED <<chain, tab, records, block, cursor, staged, saved, run, past>>
  BY DEF NextOutput, AtOutputs
<1>2. Indexing /\ InTx /\ At = run /\ Work = tx /\ Accounts = run /\ TxOK(tx)
  BY <1>1, InTxFacts
<1>3. /\ "phase" \in DOMAIN tx' /\ tx'.phase = "outputs" /\ tx'.outs = tx.outs
      /\ tx'.queue = tx.queue /\ tx'.located = tx.located /\ tx'.loc = tx.loc
  BY <1>1, <1>2 DEF TxOK, TxShape
<1>4. tx' # Absent
  BY <1>3, HasFields
<1>5. InTx' /\ Work' = tx' /\ Accounts' = run /\ At' = run /\ (Resumes' <=> Resumes)
  BY <1>1, <1>4 DEF InTx, Work, Accounts, At, Resumes
<1>6. ~Reading /\ ~Reading'
  BY <1>1, <1>3, <1>4 DEF Reading
<1>7. Outs' = Outs /\ Queue' = Queue /\ Located' = Located /\ Waiting' = Waiting /\ Loc' = Loc
  <2>1. CASE saved.in3 = Absent
    <3>1. ViewsLocals
      BY <1>1, <2>1, ViewLocals
    <3>2. (Frame /\ tx # Absent
             /\ ((tx.phase = "outputs" /\ saved.in3 = Absent) \/ tx.phase \in {"locations", "rest"})
             => ViewsLocals)'
      BY ViewLocals, PTL
    <3>3. ViewsLocals'
      BY <1>1, <1>3, <1>4, <2>1, <3>2
    <3>. QED BY <1>1, <1>3, <3>1, <3>3 DEF ViewsLocals
  <2>2. CASE saved.in3 # Absent
    <3>0. Resumes
      BY <2>2 DEF Resumes
    <3>1. ViewsLoading
      BY <1>1, <1>2, <2>2, <3>0, ViewLoading
    <3>2. (Frame /\ InTx /\ Resumes
             /\ (tx = Absent \/ tx.phase = "inputs" \/ (tx.phase = "outputs" /\ saved.in3 # Absent))
             => ViewsLoading)'
      BY ViewLoading, PTL
    <3>3. ViewsLoading'
      BY <1>1, <1>3, <1>5, <2>2, <3>0, <3>2
    <3>. QED BY <1>1, <1>2, <1>3, <1>5, <2>2, <3>1, <3>3 DEF ViewsLoading
  <2>. QED BY <2>1, <2>2
<1>8. SameParts
  BY <1>1, <1>2, <1>5, <1>6, <1>7 DEF SameParts
<1>9. SameSpot
  BY <1>1, <1>2, <1>3, <1>4, <1>6, InTxSpot
<1>. QED BY <1>8, <1>9, SameParted

LEMMA FinishOutputsPlaces ==
  ASSUME Frame, Frame', Positions, FinishOutputs
  PROVE  SameView /\ SameSpot
<1>1. /\ run # Absent /\ tx # Absent /\ tx.phase = "outputs"
      /\ tx' = IF saved.in3 = Absent THEN [tx EXCEPT !.phase = "locations"]
               ELSE [tx EXCEPT !.phase = "locations", !.located = saved.in3.located,
                               !.outValue = saved.in3.outValue, !.inValue = saved.in3.inValue,
                               !.queue = saved.in3.queue, !.loc = saved.in3.loc]
      /\ saved' = [saved EXCEPT !.in2 = Absent]
      /\ UNCHANGED <<chain, tab, records, block, cursor, staged, run, past>>
  BY DEF FinishOutputs, AtOutputs
<1>2. Indexing /\ InTx /\ At = run /\ Work = tx /\ Accounts = run /\ TxOK(tx)
  BY <1>1, InTxFacts
<1>3. /\ "phase" \in DOMAIN tx' /\ tx'.phase = "locations" /\ tx'.outs = tx.outs
      /\ IF saved.in3 = Absent
         THEN tx'.loc = tx.loc /\ tx'.queue = tx.queue /\ tx'.located = tx.located
         ELSE /\ tx'.loc = saved.in3.loc
              /\ tx'.queue = saved.in3.queue /\ tx'.located = saved.in3.located
  BY <1>1, <1>2 DEF TxOK, TxShape
<1>4. tx' # Absent
  BY <1>3, HasFields
<1>5. InTx' /\ Work' = tx' /\ Accounts' = run /\ At' = run
  BY <1>1, <1>4 DEF InTx, Work, Accounts, At
<1>6. ~Reading /\ ~Reading'
  BY <1>1, <1>3, <1>4 DEF Reading
<1>7. ViewsLocals'
  <2>1. (Frame /\ tx # Absent
           /\ ((tx.phase = "outputs" /\ saved.in3 = Absent) \/ tx.phase \in {"locations", "rest"})
           => ViewsLocals)'
    BY ViewLocals, PTL
  <2>. QED BY <1>3, <1>4, <2>1
<1>8. Outs' = Outs /\ Queue' = Queue /\ Located' = Located /\ Waiting' = Waiting /\ Loc' = Loc
  <2>1. CASE saved.in3 = Absent
    <3>1. ViewsLocals
      BY <1>1, <2>1, ViewLocals
    <3>. QED BY <1>1, <1>3, <1>7, <2>1, <3>1 DEF ViewsLocals
  <2>2. CASE saved.in3 # Absent
    <3>0. Resumes
      BY <2>2 DEF Resumes
    <3>1. ViewsLoading
      BY <1>1, <1>2, <2>2, <3>0, ViewLoading
    <3>. QED BY <1>1, <1>2, <1>3, <1>5, <1>7, <2>2, <3>1 DEF ViewsLoading, ViewsLocals
  <2>. QED BY <2>1, <2>2
<1>9. SameParts
  BY <1>1, <1>2, <1>5, <1>6, <1>8 DEF SameParts
<1>10. SameSpot
  BY <1>1, <1>2, <1>3, <1>4, <1>6, InTxSpot
<1>. QED BY <1>9, <1>10, SameParted

LEMMA FinishLocationsPlaces ==
  ASSUME Frame, Frame', Positions, FinishLocations
  PROVE  SameView /\ SameSpot
<1>1. /\ run # Absent /\ tx # Absent /\ tx.phase = "locations" /\ tx.loc > Len(tx.located)
      /\ tx' = [tx EXCEPT !.phase = "rest"]
      /\ saved' = [saved EXCEPT !.in3 = Absent]
      /\ UNCHANGED <<chain, tab, records, block, cursor, staged, run, past>>
  BY DEF FinishLocations, AtLocations
<1>2. Indexing /\ InTx /\ At = run /\ Work = tx /\ Accounts = run /\ TxOK(tx)
  BY <1>1, InTxFacts
<1>3. /\ "phase" \in DOMAIN tx' /\ tx'.phase = "rest" /\ tx'.outs = tx.outs
      /\ tx'.loc = tx.loc /\ tx'.queue = tx.queue /\ tx'.located = tx.located
  BY <1>1, <1>2 DEF TxOK, TxShape
<1>4. tx' # Absent
  BY <1>3, HasFields
<1>5. InTx' /\ Work' = tx' /\ Accounts' = run /\ At' = run
  BY <1>1, <1>4 DEF InTx, Work, Accounts, At
<1>6. ~Reading /\ ~Reading'
  BY <1>1, <1>3, <1>4 DEF Reading
<1>7. ViewsLocals /\ ViewsLocals'
  <2>1. (Frame /\ tx # Absent
           /\ ((tx.phase = "outputs" /\ saved.in3 = Absent) \/ tx.phase \in {"locations", "rest"})
           => ViewsLocals)'
    BY ViewLocals, PTL
  <2>. QED BY <1>1, <1>3, <1>4, <2>1, ViewLocals
<1>8. Outs' = Outs /\ Queue' = Queue /\ Located' = Located /\ Waiting' = Waiting /\ Loc' = Loc
  BY <1>1, <1>3, <1>7 DEF ViewsLocals
<1>9. SameParts
  BY <1>1, <1>2, <1>5, <1>6, <1>8 DEF SameParts
<1>10. SameSpot
  BY <1>1, <1>2, <1>3, <1>4, <1>6, InTxSpot
<1>. QED BY <1>9, <1>10, SameParted

\* The inputs end again: what an earlier message left replaces the locals.
LEMMA FinishInputsAgain ==
  ASSUME Frame, Frame', Positions, FinishInputs, Resumes
  PROVE  SameView /\ SameSpot
<1>. DEFINE present == {tx.floating[i].id : i \in DOMAIN tx.floating}
            all == Own(tx.floating, present) \o (IF Coinbase THEN run.flotsam ELSE << >>)
            queue == Sorted(all, [i \in DOMAIN all |-> all[i].offset])
            flotsam == IF Coinbase THEN << >> ELSE run.flotsam
<1>1. /\ run # Absent /\ tx # Absent /\ tx.phase = "inputs" /\ run.input > Inputs
      /\ tx' = IF saved.in2 # Absent
               THEN [tx EXCEPT !.phase = "outputs", !.located = saved.in2.located,
                               !.outValue = saved.in2.outValue,
                               !.inValue = saved.in2.inValue,
                               !.out = saved.in2.out, !.queue = saved.in2.queue]
               ELSE [tx EXCEPT !.phase = "outputs", !.queue = queue]
      /\ run' = [run EXCEPT !.input = 1, !.flotsam = flotsam]
      /\ saved' = [saved EXCEPT !.in1 = Absent]
      /\ UNCHANGED <<chain, tab, records, block, cursor, staged, past>>
  BY DEF FinishInputs, Own
<1>. HIDE DEF queue
<1>2. /\ Indexing /\ InTx /\ At = run /\ Work = tx /\ Accounts = run /\ TxOK(tx) /\ RunOK(run)
      /\ (IsLast <=> Coinbase) /\ InputCount = Inputs
  BY <1>1, InTxFacts
<1>3. flotsam = Accounts.flotsam
  BY <1>2 DEF Frame, Pending
<1>. HIDE DEF flotsam
<1>4. /\ run' # Absent /\ run'.tx = run.tx /\ run'.flotsam = flotsam
      /\ run'.inscription = run.inscription
  <2>1. /\ "tx" \in DOMAIN run' /\ run'.tx = run.tx /\ run'.flotsam = flotsam
        /\ run'.inscription = run.inscription
    BY <1>1, <1>2 DEF RunOK, RunShape
  <2>. QED BY <2>1, HasFields
<1>5. /\ "phase" \in DOMAIN tx' /\ tx'.phase = "outputs" /\ tx'.outs = tx.outs /\ tx'.loc = tx.loc
      /\ saved.in2 # Absent => tx'.queue = saved.in2.queue /\ tx'.located = saved.in2.located
  BY <1>1, <1>2 DEF TxOK, TxShape
<1>6. tx' # Absent
  BY <1>5, HasFields
<1>7. saved'.tx = saved.tx /\ saved'.in2 = saved.in2 /\ saved'.in3 = saved.in3
  BY <1>1 DEF Frame, Types, SavedOK, SavedShape
<1>8. InTx' /\ Work' = tx' /\ Accounts' = run' /\ At' = run' /\ (Resumes' <=> Resumes)
  BY <1>4, <1>6, <1>7 DEF InTx, Work, Accounts, At, Resumes
<1>9. ~Reading /\ ~Reading' /\ tx.loc = 1
  BY <1>1, <1>8 DEF Reading, Frame, Pending
<1>10. ViewsLoading
  BY <1>1, <1>2, ViewLoading
<1>11. Outs' = Outs /\ Queue' = Queue /\ Located' = Located /\ Waiting' = Waiting /\ Loc' = Loc
  <2>1. CASE saved.in3 = Absent
    <3>1. saved.in2 # Absent
      BY <2>1 DEF Resumes
    <3>2. (Frame /\ tx # Absent
             /\ ((tx.phase = "outputs" /\ saved.in3 = Absent) \/ tx.phase \in {"locations", "rest"})
             => ViewsLocals)'
      BY ViewLocals, PTL
    <3>3. ViewsLocals'
      BY <1>5, <1>6, <1>7, <2>1, <3>2
    <3>. QED BY <1>2, <1>3, <1>4, <1>5, <1>9, <1>10, <2>1, <3>1, <3>3 DEF ViewsLocals, ViewsLoading
  <2>2. CASE saved.in3 # Absent
    <3>1. (Frame /\ InTx /\ Resumes
             /\ (tx = Absent \/ tx.phase = "inputs" \/ (tx.phase = "outputs" /\ saved.in3 # Absent))
             => ViewsLoading)'
      BY ViewLoading, PTL
    <3>2. ViewsLoading'
      BY <1>5, <1>7, <1>8, <2>2, <3>1
    <3>. QED BY <1>2, <1>3, <1>4, <1>5, <1>7, <1>8, <1>10, <2>2, <3>2 DEF ViewsLoading
  <2>. QED BY <2>1, <2>2
<1>12. SameParts
  BY <1>1, <1>2, <1>4, <1>8, <1>9, <1>11 DEF SameParts
<1>13. SameSpot
  BY <1>1, <1>2, <1>3, <1>4, <1>5, <1>6, <1>9, InTxSpot
<1>. QED BY <1>12, <1>13, SameParted

\* The end of a message leaves the places to the staged variables.
LEMMA BreakSpot ==
  ASSUME Frame, tx # Absent, run' = Absent, tx' = Absent, Indexing', At'.tx = run.tx, Txs' = Txs,
         Accounts'.flotsam = run.flotsam, Work'.outs = tx.outs,
         \/ At'.inscription = 1
         \/ At'.inscription = run.inscription /\ At'.input = run.input
  PROVE  SameSpot
<1>1. Indexing /\ At = run /\ Work = tx /\ Accounts = run /\ InTx
  BY InTxFacts
<1>. QED BY <1>1 DEF SameSpot, Indexing

LEMMA BreakInputsPlaces ==
  ASSUME Frame, Frame', Positions, BreakInputs
  PROVE  SameView /\ SameSpot
<1>. DEFINE in1 == [floating |-> tx.floating, offsets |-> tx.offsets,
                    id |-> tx.id, inValue |-> tx.inValue]
            kept == [saved EXCEPT !.in1 = in1]
<1>1. AtInput /\ ~Coinbase /\ Suspend(run.input, run.inscription, kept)
  BY DEF BreakInputs
<1>2. /\ run # Absent /\ TxOK(tx) /\ RunOK(run) /\ Indexing /\ InTx /\ block # None
      /\ At = run /\ Work = tx /\ Accounts = run
      /\ tx # Absent /\ tx.phase = "inputs"
  BY <1>1, InTxFacts DEF AtInput
<1>3. ~Resumes
  BY <1>1, AtInputFacts
<1>4. /\ Flotsams(in1.floating) /\ in1.id \in Nat /\ in1.inValue \in Nat
      /\ in1.floating = tx.floating /\ in1.id = tx.id
  BY <1>2 DEF TxOK
<1>. HIDE DEF in1
<1>5. SavedOK(kept) /\ kept.in1 = in1 /\ kept.in2 = Absent /\ kept.in3 = Absent
  <2>1. SavedOK(saved) /\ SavedShape(saved)
    BY DEF Frame, Types, SavedOK
  <2>2. /\ SavedShape(kept) /\ kept.block = saved.block /\ kept.tx = saved.tx
        /\ kept.in1 = in1 /\ kept.in2 = saved.in2 /\ kept.in3 = saved.in3
    BY <2>1 DEF SavedShape
  <2>. HIDE DEF kept
  <2>. QED BY <1>3, <1>4, <2>1, <2>2 DEF SavedOK, Resumes
<1>. HIDE DEF kept
<1>6. /\ UNCHANGED <<chain, records, block, staged, past>>
      /\ run' = Absent /\ tx' = Absent
      /\ saved'.in1 = in1 /\ saved'.in2 = Absent /\ saved'.in3 = Absent
      /\ saved'.tx # Absent /\ saved'.tx = Work'
      /\ Work'.ins = tx.ins /\ Work'.outs = tx.outs
      /\ Accounts'.flotsam = run.flotsam
      /\ InTx' /\ Indexing' /\ At' = cursor' /\ cursor'.tx = run.tx
      /\ cursor'.input = run.input /\ cursor'.inscription = run.inscription
      /\ Txs' = Txs
      /\ tab'.utxo = tab.utxo /\ tab'.entries = tab.entries /\ tab'.ids = tab.ids
  BY <1>1, <1>2, <1>5, SuspendFacts DEF RunOK
<1>7. ViewsReading
  BY <1>2, <1>3, ViewReading
<1>8. ViewsSaved'
  <2>1. (Frame /\ tx = Absent /\ saved.tx # Absent /\ ~Resumes => ViewsSaved)'
    BY ViewSaved, PTL
  <2>. QED BY <1>6, <2>1 DEF Resumes
<1>9. /\ Reading /\ Reading' /\ Outs' = Outs /\ Waiting' = Waiting /\ Queue' = Queue
      /\ Located' = Located /\ Envelope' = Envelope
  BY <1>2, <1>4, <1>6, <1>7, <1>8 DEF ViewsSaved, ViewsReading
<1>10. SameParts
  BY <1>2, <1>6, <1>9 DEF SameParts
<1>11. SameSpot
  BY <1>2, <1>6, BreakSpot
<1>. QED BY <1>10, <1>11, SameParted

LEMMA BreakOutputsPlaces ==
  ASSUME Frame, Frame', Positions, BreakOutputs
  PROVE  SameView /\ SameSpot
<1>. DEFINE in2 == [located |-> tx.located, outValue |-> tx.outValue,
                    inValue |-> tx.inValue, out |-> tx.out, queue |-> tx.queue]
            kept == [saved EXCEPT !.in2 = in2]
<1>1. Placeable /\ Suspend(Inputs + 1, 1, kept)
  BY DEF BreakOutputs
<1>2. /\ run # Absent /\ TxOK(tx) /\ RunOK(run) /\ Indexing /\ InTx /\ block # None
      /\ At = run /\ Work = tx /\ Accounts = run /\ ContentOK(T)
      /\ tx # Absent /\ tx.phase = "outputs" /\ tx.queue # << >>
  BY <1>1, InTxFacts DEF Placeable, AtOutputs
<1>3. saved.in1 = Absent /\ saved.in3 = Absent /\ Inputs + 1 \in Nat \ {0} /\ tx.loc = 1
  <2>1. Inputs \in Nat
    BY <1>2, SeqFacts DEF ContentOK, Inputs
  <2>. QED BY <1>2, <2>1 DEF Frame, Control, Pending
<1>4. /\ Landed(in2.located) /\ in2.inValue \in Nat /\ in2 # Absent
      /\ in2.queue = tx.queue /\ in2.located = tx.located
  <2>1. in2 # Absent
    <3>1. "located" \in DOMAIN in2
      OBVIOUS
    <3>. HIDE DEF in2
    <3>. QED BY <3>1, HasFields
  <2>. QED BY <1>2, <2>1 DEF TxOK
<1>. HIDE DEF in2
<1>5. SavedOK(kept) /\ kept.in1 = Absent /\ kept.in2 = in2 /\ kept.in3 = Absent
  <2>1. SavedOK(saved) /\ SavedShape(saved)
    BY DEF Frame, Types, SavedOK
  <2>2. /\ SavedShape(kept) /\ kept.block = saved.block /\ kept.tx = saved.tx
        /\ kept.in1 = saved.in1 /\ kept.in2 = in2 /\ kept.in3 = saved.in3
    BY <2>1 DEF SavedShape
  <2>. HIDE DEF kept
  <2>. QED BY <1>3, <1>4, <2>1, <2>2 DEF SavedOK
<1>. HIDE DEF kept
<1>6. /\ UNCHANGED <<chain, records, block, staged, past>>
      /\ run' = Absent /\ tx' = Absent
      /\ saved'.in1 = Absent /\ saved'.in2 = in2 /\ saved'.in3 = Absent
      /\ Work'.outs = tx.outs /\ Accounts'.flotsam = run.flotsam
      /\ InTx' /\ Indexing' /\ At' = cursor' /\ cursor'.tx = run.tx
      /\ cursor'.inscription = 1 /\ Txs' = Txs
      /\ tab'.utxo = tab.utxo /\ tab'.entries = tab.entries /\ tab'.ids = tab.ids
  BY <1>1, <1>2, <1>3, <1>5, SuspendFacts
<1>7. ViewsLocals
  BY <1>2, <1>3, ViewLocals
<1>8. ViewsLoading' /\ ~Reading'
  <2>1. (Frame /\ InTx /\ Resumes
           /\ (tx = Absent \/ tx.phase = "inputs" \/ (tx.phase = "outputs" /\ saved.in3 # Absent))
           => ViewsLoading)'
    BY ViewLoading, PTL
  <2>. QED BY <1>4, <1>6, <2>1 DEF Resumes, ViewsLoading
<1>9. Outs' = Outs /\ Queue' = Queue /\ Located' = Located /\ Waiting' = Waiting /\ Loc' = Loc
  BY <1>3, <1>4, <1>6, <1>7, <1>8 DEF ViewsLocals, ViewsLoading
<1>10. SameParts
  BY <1>2, <1>6, <1>7, <1>8, <1>9 DEF SameParts, ViewsLocals
<1>11. SameSpot
  BY <1>2, <1>6, BreakSpot
<1>. QED BY <1>10, <1>11, SameParted

LEMMA BreakLocationsPlaces ==
  ASSUME Frame, Frame', Positions, BreakLocations
  PROVE  SameView /\ SameSpot
<1>. DEFINE in3 == [located |-> tx.located, outValue |-> tx.outValue,
                    inValue |-> tx.inValue, queue |-> tx.queue, loc |-> tx.loc]
            kept == [saved EXCEPT !.in3 = in3]
<1>1. AtLocations /\ Suspend(Inputs + 1, 1, kept)
  BY DEF BreakLocations
<1>2. /\ run # Absent /\ TxOK(tx) /\ RunOK(run) /\ Indexing /\ InTx /\ block # None
      /\ At = run /\ Work = tx /\ Accounts = run /\ ContentOK(T)
      /\ tx # Absent /\ tx.phase = "locations"
  BY <1>1, InTxFacts DEF AtLocations
<1>3. saved.in1 = Absent /\ saved.in2 = Absent /\ Inputs + 1 \in Nat \ {0}
  <2>1. Inputs \in Nat
    BY <1>2, SeqFacts DEF ContentOK, Inputs
  <2>. QED BY <1>2, <2>1 DEF Frame, Control
<1>4. /\ Landed(in3.located) /\ in3.inValue \in Nat /\ in3.loc \in Nat \ {0} /\ in3 # Absent
      /\ in3.queue = tx.queue /\ in3.located = tx.located /\ in3.loc = tx.loc
  <2>1. in3 # Absent
    <3>1. "located" \in DOMAIN in3
      OBVIOUS
    <3>. HIDE DEF in3
    <3>. QED BY <3>1, HasFields
  <2>. QED BY <1>2, <2>1 DEF TxOK
<1>. HIDE DEF in3
<1>5. SavedOK(kept) /\ kept.in1 = Absent /\ kept.in2 = Absent /\ kept.in3 = in3
  <2>1. SavedOK(saved) /\ SavedShape(saved)
    BY DEF Frame, Types, SavedOK
  <2>2. /\ SavedShape(kept) /\ kept.block = saved.block /\ kept.tx = saved.tx
        /\ kept.in1 = saved.in1 /\ kept.in2 = saved.in2 /\ kept.in3 = in3
    BY <2>1 DEF SavedShape
  <2>. HIDE DEF kept
  <2>. QED BY <1>3, <1>4, <2>1, <2>2 DEF SavedOK
<1>. HIDE DEF kept
<1>6. /\ UNCHANGED <<chain, records, block, staged, past>>
      /\ run' = Absent /\ tx' = Absent
      /\ saved'.in1 = Absent /\ saved'.in2 = Absent /\ saved'.in3 = in3
      /\ Work'.outs = tx.outs /\ Accounts'.flotsam = run.flotsam
      /\ InTx' /\ Indexing' /\ At' = cursor' /\ cursor'.tx = run.tx
      /\ cursor'.inscription = 1 /\ Txs' = Txs
      /\ tab'.utxo = tab.utxo /\ tab'.entries = tab.entries /\ tab'.ids = tab.ids
  BY <1>1, <1>2, <1>3, <1>5, SuspendFacts
<1>7. ViewsLocals
  BY <1>2, ViewLocals
<1>8. ViewsLoading' /\ ~Reading'
  <2>1. (Frame /\ InTx /\ Resumes
           /\ (tx = Absent \/ tx.phase = "inputs" \/ (tx.phase = "outputs" /\ saved.in3 # Absent))
           => ViewsLoading)'
    BY ViewLoading, PTL
  <2>. QED BY <1>4, <1>6, <2>1 DEF Resumes, ViewsLoading
<1>9. Outs' = Outs /\ Queue' = Queue /\ Located' = Located /\ Waiting' = Waiting /\ Loc' = Loc
  BY <1>4, <1>6, <1>7, <1>8 DEF ViewsLocals, ViewsLoading
<1>10. SameParts
  BY <1>2, <1>6, <1>7, <1>8, <1>9 DEF SameParts, ViewsLocals
<1>11. SameSpot
  BY <1>2, <1>6, BreakSpot
<1>. QED BY <1>10, <1>11, SameParted

LEMMA CommitInscriptionPlaces ==
  ASSUME Frame, CommitInscription
  PROVE  SameView /\ SameSpot
<1>1. Committing /\ UNCHANGED <<chain, records, block, cursor, saved, run, tx, past>>
  BY DEF CommitInscription
<1>2. /\ tab' = [tab EXCEPT !.points = tab'.points]
      /\ staged' = [staged EXCEPT !.pending = Tail(staged.pending),
                      !.record.points = staged.record.points \cup {Head(staged.pending)[1]}]
  <2>1. /\ tab' = [tab EXCEPT !.points = Put(tab.points, Head(staged.pending)[1],
                     [outpoint |-> staged.outpoint, offset |-> Head(staged.pending)[2]])]
        /\ staged' = [staged EXCEPT !.pending = Tail(staged.pending),
                      !.record.points = staged.record.points \cup {Head(staged.pending)[1]}]
    BY DEF CommitInscription
  <2>2. TabShape(tab)
    BY DEF Frame, Types, TabOK
  <2>. QED BY <2>1, <2>2 DEF TabShape
<1>3. /\ tab'.utxo = tab.utxo /\ tab'.entries = tab.entries /\ tab'.ids = tab.ids
      /\ staged'.state = staged.state /\ staged'.cache = staged.cache
  <2>1. TabShape(tab) /\ StagedShape(staged)
    BY DEF Frame, Types, TabOK, StagedOK
  <2>. QED BY <1>2, <2>1 DEF TabShape, StagedShape
<1>4. /\ ~Indexing /\ run = Absent /\ tx = Absent /\ ~InTx
  BY <1>1, CommittingFacts
<1>5. ~Indexing' /\ run' = Absent /\ tx' = Absent /\ ~InTx'
  BY <1>1, <1>3, <1>4 DEF Indexing, InTx
<1>6. ~Reading /\ ~Reading' /\ Queue = << >> /\ Queue' = << >> /\ Located = << >> /\ Located' = << >>
      /\ Outs = << >> /\ Outs' = << >>
  BY <1>4, <1>5, NotInTx, NotInTxNext
<1>7. Waiting' = Waiting /\ Loc' = Loc
  BY <1>1, <1>4, <1>5 DEF Waiting, Loc, Loading3
<1>8. SameParts
  BY <1>1, <1>3, <1>4, <1>5, <1>6, <1>7 DEF SameParts
<1>9. SameSpot
  BY <1>1, <1>4, <1>5 DEF SameSpot, Txs, InOrder, Indexing
<1>. QED BY <1>8, <1>9, SameParted

-----------------------------------------------------------------------------
(* The invariant                                                             *)

Sited == Positions /\ (past.clean => Held)

\* Where the cursor is in the block matters only while it is indexed.
LEMMA SameHeld == ASSUME Frame, Held, SameView PROVE Held'
<1>1. /\ UNCHANGED <<chain, block, past>> /\ staged'.state = staged.state
      /\ staged'.cache = staged.cache
      /\ tab'.utxo = tab.utxo /\ tab'.entries = tab.entries /\ tab'.ids = tab.ids
      /\ (InTx' <=> InTx) /\ Outs' = Outs /\ Untaken' = Untaken /\ Queue' = Queue
      /\ Located' = Located /\ Rest' = Rest /\ Waiting' = Waiting
      /\ (Reading' <=> Reading) /\ (Reading => Envelope' = Envelope) /\ (Indexing => At'.tx = At.tx)
  BY DEF SameView
<1>2. (Indexing' <=> Indexing) /\ (Committing' <=> Committing) /\ Txs' = Txs
  BY <1>1 DEF Indexing, Committing, Txs, InOrder
<1>3. Indexing => This' = This /\ Entering' = Entering /\ At'.tx = At.tx
  BY <1>1, <1>2 DEF This, Entering
<1>4. \A n : Known(n)' = Known(n) /\ Spent(n)' = Spent(n)
  BY <1>1, <1>2 DEF Known, Spent
<1>5. (\A h \in DOMAIN past.tab : Whole(past.tab[h], h))'
  BY <1>1, <1>4 DEF Held, Whole
<1>6. Placed'
  BY <1>1 DEF Held, Placed, EachApart, AllApart, Everywhere
<1>7. IdsMatch(tab)'
  BY <1>1 DEF Held, IdsMatch
<1>8. FromDone'
  <2>. DEFINE k == Known(Len(chain))
              n == At.tx
              e == Entering
  <2>1. Known(Len(chain))' = k /\ TxIds(block)' = TxIds(block)
    BY <1>1, <1>4
  <2>2. Indexing => At'.tx = n /\ Entering' = e
    BY <1>3
  <2>3. Indexing => /\ Spent(At.tx)' = Spent(n) /\ Spent(At.tx + 1)' = Spent(n + 1)
                    /\ Spent(Entering)' = Spent(e)
    BY <1>3, <1>4 DEF Spent
  <2>. HIDE DEF Reading, Indexing, Committing, k, n, e
  <2>4. block' = None => IdsFrom(tab'.ids, Known(Len(chain))') /\ OutsFrom(tab'.utxo, Known(Len(chain))')
    BY <1>1, <2>1 DEF Held, FromDone, k
  <2>5. Indexing' =>
          /\ IdsFrom(tab'.ids, Known(Len(chain))' \cup Spent(Entering)')
          /\ OutsFrom(tab'.utxo, Known(Len(chain))') /\ OutsFrom(staged'.cache, Spent(At.tx)')
          /\ NewFrom(Keys(Waiting'), Spent(At.tx)')
          /\ NewFrom(Keys(Rest'), Spent(At.tx + 1)') /\ NewFrom(Keys(Queue'), Spent(At.tx + 1)')
    BY <1>1, <1>2, <2>1, <2>3 DEF Held, FromDone, k, n, e
  <2>6. Indexing' /\ Reading' =>
          \A x : New(x) \in Keys(Queue') => \E j \in 0..Envelope' - 1 : x = <<This'.id, j>>
    BY <1>1, <1>2, <1>3 DEF Held, FromDone
  <2>7. Committing' =>
          /\ IdsFrom(tab'.ids, Known(Len(chain))' \cup TxIds(block)')
          /\ OutsFrom(tab'.utxo, Known(Len(chain))' \cup TxIds(block)')
          /\ OutsFrom(staged'.cache, TxIds(block)')
          /\ \A o \in DOMAIN staged'.cache : o \in Special \/ o \notin DOMAIN tab'.utxo
    BY <1>1, <1>2, <2>1 DEF Held, FromDone, k
  <2>. QED BY <2>4, <2>5, <2>6, <2>7 DEF FromDone, Keys, NewFrom, IdsFrom, OutsFrom
<1>. QED BY <1>5, <1>6, <1>7, <1>8 DEF Held

LEMMA InertSited == ASSUME Frame, Sited, SameView, SameSpot PROVE Sited'
<1>1. past' = past
  BY DEF SameView
<1>. QED BY <1>1, SameHeld, SamePositions DEF Sited

LEMMA BeginSited == ASSUME Frame, Sited, Begin PROVE Sited'
<1>1. SameView
  BY BeginView
<1>2. past' = past
  BY <1>1 DEF SameView
<1>. QED BY <1>1, <1>2, SameHeld, BeginPositions DEF Sited

LEMMA StutterSited == ASSUME Sited, UNCHANGED vars PROVE Sited'
<1>1. /\ chain' = chain /\ tab' = tab /\ block' = block /\ cursor' = cursor /\ staged' = staged
      /\ saved' = saved /\ run' = run /\ tx' = tx /\ past' = past
  BY DEF vars
<1>2. InTx' = InTx /\ Indexing' = Indexing /\ At' = At /\ Work' = Work /\ Accounts' = Accounts
      /\ Txs' = Txs /\ Resumes' = Resumes /\ Committing' = Committing
  BY <1>1 DEF InTx, Indexing, At, Work, Accounts, Txs, InOrder, Resumes, Kept, NewBlock, H, Committing
<1>3. This' = This /\ IsLast' = IsLast /\ InputCount' = InputCount
  BY <1>2 DEF This, IsLast, InputCount
<1>4. Reading' = Reading /\ Loading2' = Loading2 /\ Loading3' = Loading3
  BY <1>1, <1>2 DEF Reading, Loading2, Loading3
<1>5. Queue' = Queue /\ Located' = Located /\ Loc' = Loc /\ Outs' = Outs /\ Waiting' = Waiting
      /\ Envelope' = Envelope
  BY <1>1, <1>2, <1>4 DEF Queue, Located, Loc, Outs, Waiting, Envelope
<1>6. Rest' = Rest
  BY <1>5 DEF Rest, From
<1>7. Untaken' = Untaken
  BY <1>2, <1>3, <1>4 DEF Untaken
<1>8. Positions' <=> Positions
  BY <1>1, <1>2, <1>3, <1>4, <1>5 DEF Positions
<1>9. Held' <=> Held
  <2>1. \A n : Known(n)' = Known(n) /\ Spent(n)' = Spent(n)
    BY <1>1, <1>2 DEF Known, Spent
  <2>2. Placed' <=> Placed
    BY <1>1, <1>5, <1>6, <1>7 DEF Placed, EachApart, AllApart, Everywhere
  <2>3. Entering' = Entering
    BY <1>2, <1>4 DEF Entering
  <2>. QED BY <1>1, <1>2, <1>3, <1>4, <1>5, <1>6, <2>1, <2>2, <2>3 DEF Held, FromDone, Whole
<1>. QED BY <1>1, <1>8, <1>9 DEF Sited

LEMMA PastWhole ==
  ASSUME Held, past' = past, chain' = chain
  PROVE  (\A h \in DOMAIN past.tab : Whole(past.tab[h], h))'
<1>1. \A n : Known(n)' = Known(n)
  BY DEF Known
<1>. QED BY <1>1 DEF Held, Whole

LEMMA IndexingFromDone ==
  ASSUME Indexing', chain' = chain, Txs' = Txs,
         IdsFrom(tab'.ids, Known(Len(chain)) \cup Spent(Entering')),
         OutsFrom(tab'.utxo, Known(Len(chain))), OutsFrom(staged'.cache, Spent(At'.tx)),
         NewFrom(Keys(Waiting'), Spent(At'.tx)),
         NewFrom(Keys(Rest'), Spent(At'.tx + 1)), NewFrom(Keys(Queue'), Spent(At'.tx + 1)),
         Reading' => \A x : New(x) \in Keys(Queue') => \E k \in 0..Envelope' - 1 : x = <<This'.id, k>>
  PROVE  FromDone'
<1>1. Known(Len(chain))' = Known(Len(chain))
  BY DEF Known
<1>2. /\ Spent(Entering)' = Spent(Entering') /\ Spent(At.tx)' = Spent(At'.tx)
      /\ Spent(At.tx + 1)' = Spent(At'.tx + 1)
  BY DEF Spent
<1>3. block' # None /\ ~Committing'
  BY DEF Indexing, Committing
<1>. HIDE DEF Reading, Indexing, Committing, At, Entering
<1>. QED BY <1>1, <1>2, <1>3 DEF FromDone

\* A step of a transaction behind its inputs, which neither moves the cursor
\* nor loads anything.
LEMMA InTxPositions ==
  ASSUME Frame, Positions, run # Absent, tx # Absent, run' # Absent, tx' # Absent, block' = block,
         staged'.state = staged.state, run'.tx = run.tx, run'.inscription = run.inscription,
         ~Reading, ~Reading', DOMAIN tx'.outs = DOMAIN tx.outs,
         tx'.phase = "rest" => tx'.loc > Len(tx'.located),
         \A i \in DOMAIN Located' : Located'[i].out \in DOMAIN Outs'
  PROVE  Positions'
<1>1. /\ Indexing /\ At = run /\ Work = tx /\ InTx
      /\ Len(Txs) \in Nat /\ run.tx \in 1..Len(Txs)
  BY InTxFacts
<1>2. At' = run' /\ Work' = tx' /\ Txs' = Txs
  BY DEF At, Work, Txs, InOrder
<1>3. At'.inscription = 1
  BY <1>1, <1>2 DEF Positions
<1>4. ~(At'.tx > Len(Txs'))
  BY <1>1, <1>2
<1>5. DOMAIN Work'.outs = 1..Len(This'.outs)
  <2>1. This' = This
    BY <1>1, <1>2 DEF This
  <2>. QED BY <1>1, <1>2, <2>1 DEF Positions
<1>. QED BY <1>3, <1>4, <1>5 DEF Positions

\* One more, at a key of its own.
LEMMA KeysWith ==
  ASSUME NEW s, NEW r, NEW n, n \notin DOMAIN s, DOMAIN r = DOMAIN s \cup {n},
         \A i \in DOMAIN s : r[i] = s[i], Apart(s), Key(r[n]) \notin Keys(s)
  PROVE  Keys(r) = Keys(s) \cup {Key(r[n])} /\ Apart(r)
<1>1. Keys(r) = Keys(s) \cup {Key(r[n])}
  BY DEF Keys
<1>2. Apart(r)
  BY DEF Apart, Keys
<1>. QED BY <1>1, <1>2

\* What has come down but is not written: one more, and one less.
LEMMA FromAppend ==
  ASSUME NEW s, IsSeq(s), NEW l, NEW r, IsAppend(r, s, l), NEW loc \in Nat, loc <= Len(s) + 1,
         Apart(From(s, loc)), Key(l.flotsam) \notin Keys(From(s, loc))
  PROVE  Keys(From(r, loc)) = Keys(From(s, loc)) \cup {Key(l.flotsam)} /\ Apart(From(r, loc))
<1>. DEFINE n == Len(s) + 1
<1>1. /\ Len(s) \in Nat /\ DOMAIN s = 1..Len(s) /\ DOMAIN r = 1..Len(s) + 1
      /\ \A i \in DOMAIN s : r[i] = s[i] /\ r[Len(s) + 1] = l
  BY SeqFacts DEF IsAppend
<1>2. DOMAIN r = DOMAIN s \cup {n} /\ n \notin DOMAIN s /\ n >= loc
  BY <1>1
<1>3. r[n] = l /\ \A i \in DOMAIN s : r[i] = s[i]
  BY <1>1 DEF IsAppend
<1>. HIDE DEF n
<1>4. /\ DOMAIN From(r, loc) = DOMAIN From(s, loc) \cup {n} /\ n \notin DOMAIN From(s, loc)
      /\ \A i \in DOMAIN From(s, loc) : From(r, loc)[i] = From(s, loc)[i]
      /\ From(r, loc)[n] = l.flotsam
  BY <1>2, <1>3 DEF From
<1>. QED BY <1>4, KeysWith

LEMMA FromNext ==
  ASSUME NEW s, NEW loc \in DOMAIN s, DOMAIN s \subseteq Nat, Apart(From(s, loc))
  PROVE  /\ Keys(From(s, loc + 1)) = Keys(From(s, loc)) \ {Key(s[loc].flotsam)}
         /\ Apart(From(s, loc + 1)) /\ Key(s[loc].flotsam) \in Keys(From(s, loc))
<1>1. loc \in Nat /\ \A j \in DOMAIN s : j \in Nat
  OBVIOUS
<1>2. \A j \in DOMAIN s : j >= loc + 1 <=> j >= loc /\ j # loc
  BY <1>1
<1>. DEFINE more == loc + 1
<1>. HIDE DEF more
<1>3. loc \in DOMAIN From(s, loc) /\ DOMAIN From(s, more) = DOMAIN From(s, loc) \ {loc}
  BY <1>1, <1>2 DEF From, more
<1>4. /\ \A i \in DOMAIN From(s, more) : From(s, more)[i] = From(s, loc)[i]
      /\ From(s, loc)[loc] = s[loc].flotsam
  BY <1>3 DEF From
<1>5. /\ Keys(From(s, more)) = Keys(From(s, loc)) \ {Key(From(s, loc)[loc])} /\ Apart(From(s, more))
      /\ Key(From(s, loc)[loc]) \in Keys(From(s, loc))
  BY <1>3, <1>4, KeysWithout
<1>. QED BY <1>4, <1>5 DEF more

-----------------------------------------------------------------------------
(* Steps that move inscriptions within the transaction                       *)

\* What the inputs, the queue, the locations and the fees have is what they
\* had, in other places.
MovesWithin ==
  /\ UNCHANGED <<chain, past>> /\ Txs' = Txs /\ Indexing /\ Indexing' /\ At'.tx = At.tx
  /\ tab'.utxo = tab.utxo /\ tab'.entries = tab.entries /\ tab'.ids = tab.ids
  /\ staged'.cache = staged.cache /\ Outs' = Outs
  /\ Spread(Untaken') /\ Apart(Queue') /\ Apart(Rest') /\ Apart(Waiting')
  /\ Separate({}, {}, {}, AllOn(Untaken'), Keys(Queue'), Keys(Rest'), Keys(Waiting'))
  /\ AllOn(Untaken') \cup Keys(Queue') \cup Keys(Rest') \cup Keys(Waiting')
       = AllOn(Untaken) \cup Keys(Queue) \cup Keys(Rest) \cup Keys(Waiting)

\* The same with new inscriptions besides, of which N are the ids.
MovesAdding(N) ==
  /\ UNCHANGED <<chain, past>> /\ Txs' = Txs /\ Indexing /\ Indexing' /\ At'.tx = At.tx
  /\ tab'.utxo = tab.utxo /\ tab'.entries = tab.entries /\ tab'.ids = tab.ids
  /\ staged'.cache = staged.cache /\ Outs' = Outs
  /\ Spread(Untaken') /\ Apart(Queue') /\ Apart(Rest') /\ Apart(Waiting')
  /\ Separate({}, {}, {}, AllOn(Untaken'), Keys(Queue'), Keys(Rest'), Keys(Waiting'))
  /\ AllOn(Untaken') \cup Keys(Queue') \cup Keys(Rest') \cup Keys(Waiting')
       = AllOn(Untaken) \cup Keys(Queue) \cup Keys(Rest) \cup Keys(Waiting) \cup {New(x) : x \in N}
  /\ \A x \in N : x \notin DOMAIN tab.ids

\* An inscription on an entry has its sequence number.
LEMMA OnlyOld ==
  ASSUME NEW m, NEW k \in AllOn(m)
  PROVE  \A x : k # New(x)
<1>1. PICK o \in DOMAIN m : k \in On(m[o])
  BY AllOnIs
<1>2. PICK i \in DOMAIN m[o].ins : k = Old(m[o].ins[i][1])
  BY <1>1 DEF On
<1>. QED BY <1>2, KeysDiffer

LEMMA AddsHeld ==
  ASSUME Frame, Held, NEW N, MovesAdding(N), (Entering' = Entering \/ Entering' = Entering + 1),
         NewFrom(Keys(Waiting'), Spent(At.tx)),
         NewFrom(Keys(Rest'), Spent(At.tx + 1)), NewFrom(Keys(Queue'), Spent(At.tx + 1)),
         Reading' => \A x : New(x) \in Keys(Queue') => \E k \in 0..Envelope' - 1 : x = <<This'.id, k>>
  PROVE  Held'
<1>. DEFINE U == AllOn(tab.utxo)
            C == AllOn(staged.cache)
            O == AllOn(Outs)
            I == AllOn(Untaken)
            Q == Keys(Queue)
            R == Keys(Rest)
            W == Keys(Waiting)
            I1 == AllOn(Untaken')
            Q1 == Keys(Queue')
            R1 == Keys(Rest')
            W1 == Keys(Waiting')
            J == {New(x) : x \in N}
<1>1. /\ AllOn(tab'.utxo) = U /\ AllOn(staged'.cache) = C /\ AllOn(Outs') = O
      /\ Separate({}, {}, {}, I1, Q1, R1, W1)
      /\ I1 \cup Q1 \cup R1 \cup W1 = I \cup Q \cup R \cup W \cup J
  BY DEF MovesAdding
<1>2. Separate(U, C, O, I, Q, R, W) /\ Everywhere = U \cup C \cup O \cup I \cup Q \cup R \cup W
  BY DEF Held, Placed, AllApart, Everywhere
<1>3. Everywhere' = U \cup C \cup O \cup I1 \cup Q1 \cup R1 \cup W1
  BY <1>1 DEF Everywhere
<1>4. AllApart' <=> Separate(U, C, O, I1, Q1, R1, W1)
  BY <1>1 DEF AllApart
<1>13. \A k \in J : k \notin U /\ k \notin C /\ k \notin O
  BY OnlyOld
<1>14. /\ \A k \in J : \A seq : k # Old(seq)
       /\ \A x : New(x) \in J => x \in N
  BY KeysDiffer
<1>. HIDE DEF U, C, O, I, Q, R, W, I1, Q1, R1, W1, J
<1>5. \A k : k \in I1 \/ k \in Q1 \/ k \in R1 \/ k \in W1
              <=> k \in I \/ k \in Q \/ k \in R \/ k \in W \/ k \in J
  <2>. SUFFICES ASSUME NEW k
                PROVE  k \in I1 \/ k \in Q1 \/ k \in R1 \/ k \in W1
                         <=> k \in I \/ k \in Q \/ k \in R \/ k \in W \/ k \in J
    OBVIOUS
  <2>1. k \in I1 \cup Q1 \cup R1 \cup W1 <=> k \in I \cup Q \cup R \cup W \cup J
    BY <1>1
  <2>. QED BY <2>1
<1>6. Separate(U, C, O, I1, Q1, R1, W1)
  BY <1>1, <1>2, <1>5, <1>13 DEF Separate
<1>7. Everywhere' = Everywhere \cup J
  BY <1>1, <1>2, <1>3
<1>8. EachApart'
  BY DEF MovesAdding, Held, Placed, EachApart
<1>9. Placed'
  <2>1. \A seq : Old(seq) \in Everywhere' <=> seq \in DOMAIN tab'.entries
    BY <1>7, <1>14 DEF Held, Placed, MovesAdding
  <2>2. \A x : New(x) \in Everywhere' => x \notin DOMAIN tab'.ids
    BY <1>7, <1>14 DEF Held, Placed, MovesAdding
  <2>. QED BY <1>4, <1>6, <1>8, <2>1, <2>2 DEF Placed
<1>10. IdsFrom(tab'.ids, Known(Len(chain)) \cup Spent(Entering'))
  <2>1. IdsFrom(tab.ids, Known(Len(chain)) \cup Spent(Entering))
    BY DEF Held, FromDone, MovesAdding
  <2>2. Entering \in Nat
    <3>1. At.tx \in Nat
      BY DEF MovesAdding, Frame, Control, Types, CursorOK, RunOK, At
    <3>. QED BY <3>1 DEF Entering
  <2>3. Spent(Entering) \subseteq Spent(Entering')
    BY <2>2 DEF Spent
  <2>4. tab'.ids = tab.ids
    BY DEF MovesAdding
  <2>. QED BY <2>1, <2>3, <2>4 DEF IdsFrom
<1>11. FromDone'
  BY <1>10, IndexingFromDone DEF MovesAdding, Held, FromDone
<1>12. IdsMatch(tab)'
  BY DEF MovesAdding, Held, IdsMatch
<1>. QED BY <1>9, <1>11, <1>12, PastWhole DEF Held, MovesAdding

LEMMA WithinHeld ==
  ASSUME Frame, Held, MovesWithin, (Entering' = Entering \/ Entering' = Entering + 1),
         NewFrom(Keys(Waiting'), Spent(At.tx)),
         NewFrom(Keys(Rest'), Spent(At.tx + 1)), NewFrom(Keys(Queue'), Spent(At.tx + 1)),
         Reading' => \A x : New(x) \in Keys(Queue') => \E k \in 0..Envelope' - 1 : x = <<This'.id, k>>
  PROVE  Held'
<1>1. {New(x) : x \in {}} = {}
  OBVIOUS
<1>2. MovesAdding({})
  BY <1>1 DEF MovesWithin, MovesAdding
<1>. QED BY <1>2, AddsHeld

LEMMA PlaceSited == ASSUME Frame, Frame', Sited, Place PROVE Sited'
<1>. DEFINE f == Head(tx.queue)
            l == [flotsam |-> f, out |-> tx.out, offset |-> f.offset - tx.outValue]
<1>1. /\ run # Absent /\ tx # Absent /\ tx.phase = "outputs" /\ tx.queue # << >>
      /\ tx.out <= Len(T.outs)
      /\ tx' = [tx EXCEPT !.located = Append(tx.located, l), !.queue = Tail(tx.queue)]
      /\ UNCHANGED <<chain, tab, records, block, cursor, staged, saved, run, past>>
  BY DEF Place, Placeable, AtOutputs
<1>2. /\ Indexing /\ InTx /\ At = run /\ Work = tx /\ Accounts = run /\ TxOK(tx) /\ This = T
      /\ ContentOK(T)
  BY <1>1, InTxFacts
<1>3. Ready(tx.queue, tx.outValue) /\ tx.loc = 1 /\ saved.in3 = Absent
      /\ tx.out \in 1..Len(T.outs)
  <2>1. /\ Ready(tx.queue, tx.outValue) /\ tx.loc = 1 /\ saved.in3 = Absent
        /\ tx.out \in 1..Len(T.outs) + 1
    BY <1>1, <1>2 DEF Frame, Counts, Pending
  <2>2. Len(T.outs) \in Nat
    BY <1>2, PaidFacts
  <2>. QED BY <1>1, <2>1, <2>2
<1>4. IsTail(Tail(tx.queue), tx.queue) /\ f = tx.queue[1] /\ IsSeq(tx.queue)
      /\ IsAppend(Append(tx.located, l), tx.located, l) /\ IsSeq(tx.located) /\ Len(tx.located) \in Nat
  <2>1. IsTail(Tail(tx.queue), tx.queue) /\ f = tx.queue[1]
    BY <1>1, <1>3, TailReady
  <2>2. IsSeq(tx.located) /\ IsSeq(tx.queue)
    BY <1>2 DEF TxOK, Landed, Flotsams
  <2>. HIDE DEF l
  <2>. QED BY <2>1, <2>2, AppendSeq, SeqFacts
<1>5. l.flotsam = f /\ l.out = tx.out
  OBVIOUS
<1>. HIDE DEF l, f
<1>6. /\ "phase" \in DOMAIN tx' /\ tx'.phase = "outputs" /\ tx'.outs = tx.outs /\ tx'.loc = tx.loc
      /\ tx'.queue = Tail(tx.queue) /\ tx'.located = Append(tx.located, l)
  BY <1>1, <1>2 DEF TxOK, TxShape
<1>7. tx' # Absent
  BY <1>6, HasFields
<1>8. /\ InTx' /\ Work' = tx' /\ Accounts' = run /\ At' = run /\ Txs' = Txs /\ Indexing'
      /\ Entering' = Entering
  BY <1>1, <1>2, <1>6, <1>7 DEF InTx, Work, Accounts, At, Txs, InOrder, Indexing, Entering, Reading
<1>9. ViewsLocals /\ ViewsLocals'
  <2>1. (Frame /\ tx # Absent
           /\ ((tx.phase = "outputs" /\ saved.in3 = Absent) \/ tx.phase \in {"locations", "rest"})
           => ViewsLocals)'
    BY ViewLocals, PTL
  <2>. QED BY <1>1, <1>3, <1>6, <1>7, <2>1, ViewLocals
<1>10. /\ Outs' = Outs /\ Waiting' = Waiting /\ Untaken' = Untaken /\ ~Reading /\ ~Reading'
       /\ Queue = tx.queue /\ Queue' = Tail(tx.queue)
       /\ Located = tx.located /\ Located' = Append(tx.located, l)
       /\ Rest = From(tx.located, 1) /\ Rest' = From(Append(tx.located, l), 1)
  BY <1>1, <1>3, <1>6, <1>9 DEF ViewsLocals, Rest
<1>11. Positions'
  <2>1. ASSUME NEW i \in DOMAIN Located' PROVE Located'[i].out \in DOMAIN Outs'
    <3>1. i \in 1..Len(tx.located) + 1
      BY <1>4, <1>10, SeqFacts DEF IsAppend
    <3>2. DOMAIN tx.located = 1..Len(tx.located)
      BY <1>4, SeqFacts
    <3>3. CASE i = Len(tx.located) + 1
      <4>1. Located'[i] = l
        BY <1>4, <1>10, <3>3 DEF IsAppend
      <4>2. DOMAIN Outs = 1..Len(T.outs)
        BY <1>2, <1>9 DEF Sited, Positions, ViewsLocals
      <4>. QED BY <1>3, <1>5, <1>10, <4>1, <4>2
    <3>4. CASE i # Len(tx.located) + 1
      <4>1. i \in 1..Len(tx.located)
        BY <1>4, <3>1, <3>4
      <4>2. Located'[i] = Located[i] /\ i \in DOMAIN Located
        BY <1>4, <1>10, <3>2, <4>1 DEF IsAppend
      <4>. QED BY <1>10, <4>2 DEF Sited, Positions
    <3>. QED BY <3>3, <3>4
  <2>. QED BY <1>1, <1>6, <1>7, <1>10, <2>1, InTxPositions DEF Sited
<1>12. ASSUME Held PROVE Held'
  <2>. DEFINE I == AllOn(Untaken)
              Q == Keys(Queue)
              R == Keys(Rest)
              W == Keys(Waiting)
              k == Key(f)
  <2>1. Apart(Queue) /\ Apart(Rest) /\ Separate({}, {}, {}, I, Q, R, W)
        /\ Spread(Untaken) /\ Apart(Waiting)
    BY <1>12 DEF Held, Placed, EachApart, AllApart, Separate
  <2>2. Keys(Queue') = Q \ {k} /\ Apart(Queue') /\ k \in Q
    BY <1>4, <1>10, <2>1, KeysTail
  <2>3. k \notin R
    BY <2>1, <2>2 DEF Separate
  <2>4. Keys(Rest') = R \cup {k} /\ Apart(Rest')
    BY <1>4, <1>5, <1>10, <2>1, <2>3, FromAppend
  <2>5. AllOn(Untaken') = I /\ Keys(Waiting') = W
    BY <1>10
  <2>. HIDE DEF I, Q, R, W, k
  <2>6. /\ Separate({}, {}, {}, I, Q \ {k}, R \cup {k}, W)
        /\ I \cup (Q \ {k}) \cup (R \cup {k}) \cup W = I \cup Q \cup R \cup W
    BY <2>1, <2>2 DEF Separate
  <2>7. MovesWithin
    BY <1>1, <1>2, <1>8, <1>10, <2>1, <2>2, <2>4, <2>5, <2>6 DEF MovesWithin, I, Q, R, W
  <2>8. NewFrom(W, Spent(At.tx)) /\ NewFrom(R, Spent(At.tx + 1)) /\ NewFrom(Q, Spent(At.tx + 1))
    BY <1>2, <1>12 DEF Held, FromDone, Q, R, W
  <2>9. /\ NewFrom(W, Spent(At.tx)) /\ NewFrom(R \cup {k}, Spent(At.tx + 1))
        /\ NewFrom(Q \ {k}, Spent(At.tx + 1))
    BY <2>2, <2>8 DEF NewFrom
  <2>. QED BY <1>8, <1>10, <1>12, <2>2, <2>4, <2>5, <2>7, <2>9, WithinHeld
<1>. QED BY <1>1, <1>11, <1>12 DEF Sited

\* An inscription leaves an entry.
LEMMA OnWithout ==
  ASSUME NEW e, NEW f, NEW k \in DOMAIN e.ins, DOMAIN f.ins = DOMAIN e.ins \ {k},
         \A i \in DOMAIN f.ins : f.ins[i] = e.ins[i], Single(e)
  PROVE  /\ On(f) = On(e) \ {Old(e.ins[k][1])} /\ Single(f) /\ Old(e.ins[k][1]) \in On(e)
<1>1. /\ Keys(Afloat(e)) = On(e) /\ Apart(Afloat(e)) /\ DOMAIN Afloat(e) = DOMAIN e.ins
      /\ Key(Afloat(e)[k]) = Old(e.ins[k][1])
      /\ Keys(Afloat(f)) = On(f) /\ (Apart(Afloat(f)) <=> Single(f)) /\ DOMAIN Afloat(f) = DOMAIN f.ins
  BY AfloatFacts
<1>2. \A i \in DOMAIN f.ins : Afloat(f)[i] = Afloat(e)[i]
  BY DEF Afloat
<1>. QED BY <1>1, <1>2, KeysWithout

LEMMA AllOnLess ==
  ASSUME NEW m, NEW r, NEW o \in DOMAIN m, NEW k, Spread(m), DOMAIN r = DOMAIN m,
         \A p \in DOMAIN m : p # o => r[p] = m[p],
         On(r[o]) = On(m[o]) \ {k}, Single(r[o]), k \in On(m[o])
  PROVE  AllOn(r) = AllOn(m) \ {k} /\ Spread(r) /\ k \in AllOn(m)
<1>1. \A p \in DOMAIN m : On(r[p]) \subseteq On(m[p]) /\ (p # o => On(r[p]) = On(m[p]))
  OBVIOUS
<1>2. ASSUME NEW x \in AllOn(r) PROVE x \in AllOn(m) /\ x # k
  <2>1. PICK p \in DOMAIN r : x \in On(r[p])
    BY <1>2, AllOnIs
  <2>2. x \in On(m[p]) /\ p \in DOMAIN m
    BY <1>1, <2>1
  <2>3. CASE p = o
    BY <2>1, <2>2, <2>3, AllOnIs
  <2>4. CASE p # o
    BY <2>2, <2>4, AllOnIs DEF Spread
  <2>. QED BY <2>3, <2>4
<1>3. ASSUME NEW x \in AllOn(m), x # k PROVE x \in AllOn(r)
  <2>1. PICK p \in DOMAIN m : x \in On(m[p])
    BY <1>3, AllOnIs
  <2>2. x \in On(r[p]) /\ p \in DOMAIN r
    BY <1>1, <1>3, <2>1
  <2>. QED BY <2>2, AllOnIs
<1>4. Spread(r)
  <2>1. \A p \in DOMAIN r : Single(r[p])
    BY DEF Spread
  <2>2. ASSUME NEW p \in DOMAIN r, NEW q \in DOMAIN r, NEW x \in On(r[p]), x \in On(r[q]) PROVE p = q
    <3>1. x \in On(m[p]) /\ x \in On(m[q]) /\ p \in DOMAIN m /\ q \in DOMAIN m
      BY <1>1, <2>2
    <3>. QED BY <3>1 DEF Spread
  <2>. QED BY <2>1, <2>2 DEF Spread
<1>. QED BY <1>2, <1>3, <1>4, AllOnIs

\* Sorting permutes.
LEMMA SortedPermutes ==
  ASSUME NEW s, IsSeq(s), NEW key, \A i \in DOMAIN s : key[i] \in Int
  PROVE  DOMAIN Sorted(s, key) = DOMAIN s /\ \E p : Permutes(Sorted(s, key), s, p)
<1>1. PICK p : PutsInOrder(p, s, key)
  <2>1. Keyed(s, key)
    BY DEF Keyed
  <2>. QED BY <2>1, SortedBy
<1>. DEFINE n == Len(s)
            r == Sorted(s, key)
<1>2. n \in Nat /\ DOMAIN s = 1..n
  BY SeqFacts
<1>3. Sorts(p, key, n) /\ r = [i \in 1..n |-> s[p[i]]]
  BY <1>1 DEF PutsInOrder
<1>. HIDE DEF n, r
<1>4. ASSUME NEW a \in 1..n, NEW b \in 1..n, a < b, p[a] = p[b] PROVE FALSE
  <2>1. Precedes(key, p[a], p[b]) /\ p[a] \in 1..n
    BY <1>3, <1>4 DEF Sorts
  <2>2. key[p[a]] \in Int /\ p[a] \in Int
    BY <1>2, <2>1
  <2>. QED BY <1>4, <2>1, <2>2 DEF Precedes
<1>5. \A i, j \in 1..n : p[i] = p[j] => i = j
  BY <1>2, <1>4
<1>6. Permutes(r, s, p) /\ DOMAIN r = DOMAIN s
  BY <1>2, <1>3, <1>5 DEF Permutes, Sorts
<1>. QED BY <1>6 DEF r

\* What an input has, in the order of the sequence numbers.
LEMMA InOrderFromFacts ==
  ASSUME NEW ins \in Seq(Nat \X Nat), NEW k \in Nat
  PROVE  LET M == Sorted(ins, [i \in DOMAIN ins |-> ins[i][1]])
             e == InOrderFrom(ins, k)
         IN /\ Len(M) = Len(ins) /\ DOMAIN M = DOMAIN ins /\ DOMAIN ins = 1..Len(ins)
            /\ DOMAIN e.ins = {j \in DOMAIN ins : j >= k}
            /\ \A j \in DOMAIN e.ins : e.ins[j] = M[j]
            /\ \E p : Permutes(M, ins, p)
<1>. DEFINE key == [i \in DOMAIN ins |-> ins[i][1]]
            M == Sorted(ins, key)
            e == InOrderFrom(ins, k)
<1>1. IsSeq(ins) /\ (\A i \in DOMAIN ins : key[i] \in Int) /\ DOMAIN ins = 1..Len(ins)
      /\ Len(ins) \in Nat
  BY SeqOver
<1>2. e.ins = [j \in {j \in DOMAIN ins : j >= k} |-> M[j]]
  BY DEF InOrderFrom
<1>3. M \in Seq(Nat \X Nat)
  BY SortedPairs
<1>. HIDE DEF key
<1>4. DOMAIN M = DOMAIN ins /\ \E p : Permutes(M, ins, p)
  BY <1>1, SortedPermutes
<1>. HIDE DEF M, e
<1>5. Len(M) = Len(ins)
  BY <1>1, <1>3, <1>4
<1>6. DOMAIN e.ins = {j \in DOMAIN ins : j >= k} /\ \A j \in DOMAIN e.ins : e.ins[j] = M[j]
  BY <1>2
<1>. QED BY <1>1, <1>4, <1>5, <1>6 DEF M, e, key

\* The first of them is taken,
LEMMA InOrderNext ==
  ASSUME NEW ins \in Seq(Nat \X Nat), NEW k \in DOMAIN ins, Single(InOrderFrom(ins, k))
  PROVE  LET x == Old(Sorted(ins, [i \in DOMAIN ins |-> ins[i][1]])[k][1])
         IN /\ On(InOrderFrom(ins, k + 1)) = On(InOrderFrom(ins, k)) \ {x}
            /\ Single(InOrderFrom(ins, k + 1)) /\ x \in On(InOrderFrom(ins, k))
<1>. DEFINE M == Sorted(ins, [i \in DOMAIN ins |-> ins[i][1]])
            e == InOrderFrom(ins, k)
            f == InOrderFrom(ins, k + 1)
<1>1. k \in Nat /\ k + 1 \in Nat /\ DOMAIN ins \subseteq Nat
  OBVIOUS
<1>2. /\ DOMAIN e.ins = {j \in DOMAIN ins : j >= k} /\ \A j \in DOMAIN e.ins : e.ins[j] = M[j]
      /\ DOMAIN f.ins = {j \in DOMAIN ins : j >= k + 1} /\ \A j \in DOMAIN f.ins : f.ins[j] = M[j]
  BY <1>1, InOrderFromFacts
<1>. HIDE DEF M, e, f
<1>3. k \in DOMAIN e.ins /\ DOMAIN f.ins = DOMAIN e.ins \ {k}
  <2>1. \A j \in DOMAIN ins : j >= k + 1 <=> j >= k /\ j # k
    <3>1. ASSUME NEW a \in Nat, NEW b \in Nat PROVE a >= b + 1 <=> a >= b /\ a # b
      OBVIOUS
    <3>. QED BY <1>1, <3>1
  <2>2. k >= k
    BY <1>1
  <2>. QED BY <1>2, <2>1, <2>2
<1>4. e.ins[k] = M[k] /\ \A i \in DOMAIN f.ins : f.ins[i] = e.ins[i]
  BY <1>2, <1>3
<1>5. Single(e)
  BY DEF e
<1>6. On(f) = On(e) \ {Old(e.ins[k][1])} /\ Single(f) /\ Old(e.ins[k][1]) \in On(e)
  BY <1>3, <1>4, <1>5, OnWithout
<1>. QED BY <1>4, <1>6 DEF M, e, f

\* none is left behind the last, and none is missing before the first.
LEMMA InOrderEnds ==
  ASSUME NEW e, e.ins \in Seq(Nat \X Nat)
  PROVE  /\ On(InOrderFrom(e.ins, 1)) = On(e) /\ (Single(e) => Single(InOrderFrom(e.ins, 1)))
         /\ \A k \in Nat : k > Len(e.ins) => On(InOrderFrom(e.ins, k)) = {}
<1>. DEFINE M == Sorted(e.ins, [i \in DOMAIN e.ins |-> e.ins[i][1]])
            f == InOrderFrom(e.ins, 1)
<1>1. DOMAIN e.ins = 1..Len(e.ins) /\ Len(e.ins) \in Nat
  OBVIOUS
<1>2. /\ DOMAIN M = DOMAIN e.ins /\ DOMAIN f.ins = {j \in DOMAIN e.ins : j >= 1}
      /\ \A j \in DOMAIN f.ins : f.ins[j] = M[j]
      /\ \E p : Permutes(M, e.ins, p)
  BY InOrderFromFacts
<1>3. PICK p : Permutes(M, e.ins, p)
  BY <1>2
<1>. HIDE DEF M, f
<1>4. DOMAIN f.ins = DOMAIN e.ins
  BY <1>1, <1>2
<1>5. Permutes(f.ins, e.ins, p)
  BY <1>2, <1>3, <1>4 DEF Permutes
<1>6. On(f) = On(e) /\ (Single(e) => Single(f))
  BY <1>5, OnPermuted
<1>7. ASSUME NEW k \in Nat, k > Len(e.ins) PROVE On(InOrderFrom(e.ins, k)) = {}
  <2>1. DOMAIN InOrderFrom(e.ins, k).ins = {j \in DOMAIN e.ins : j >= k}
    BY InOrderFromFacts
  <2>2. DOMAIN InOrderFrom(e.ins, k).ins = {}
    BY <1>1, <1>7, <2>1
  <2>. QED BY <2>2 DEF On
<1>. QED BY <1>6, <1>7 DEF f

\* A step of a transaction that still takes its inputs.
LEMMA ReadingPositions ==
  ASSUME Frame, Positions, ViewsReading, ViewsReading', run # Absent, tx # Absent,
         run' # Absent, tx' # Absent, block' = block, run'.tx = run.tx,
         tx'.outs = tx.outs, tx'.phase = "inputs",
         run'.inscription = 1 \/ (run'.input = run.input /\ run.input <= Inputs)
  PROVE  Positions'
<1>1. /\ Indexing /\ At = run /\ Work = tx /\ InTx /\ InputCount = Inputs
      /\ Len(Txs) \in Nat /\ run.tx \in 1..Len(Txs)
  BY InTxFacts
<1>2. /\ At' = run' /\ Work' = tx' /\ Txs' = Txs /\ Reading' /\ Located' = << >>
  BY DEF At, Work, Txs, InOrder, ViewsReading
<1>3. This' = This /\ InputCount' = InputCount
  BY <1>1, <1>2 DEF This, InputCount, IsLast
<1>4. (Reading' /\ At'.input <= InputCount') \/ At'.inscription = 1
  BY <1>1, <1>2, <1>3
<1>5. ~(At'.tx > Len(Txs'))
  BY <1>1, <1>2
<1>6. DOMAIN Work'.outs = 1..Len(This'.outs)
  BY <1>1, <1>2, <1>3 DEF Positions
<1>. QED BY <1>2, <1>4, <1>5, <1>6 DEF Positions

LEMMA UntakenReading ==
  ASSUME Frame, tx # Absent, ViewsReading, ~Coinbase
  PROVE  Untaken = [i \in run.input..Len(tx.ins) |->
                      IF i = run.input THEN InOrderFrom(tx.ins[i].ins, run.inscription)
                      ELSE tx.ins[i]]
<1>1. Reading /\ At = run /\ Work = tx /\ ~IsLast
  BY InTxFacts DEF ViewsReading
<1>. HIDE DEF Reading, At, Work, IsLast
<1>. QED BY <1>1 DEF Untaken

LEMMA TakeSited == ASSUME Frame, Frame', Sited, Take PROVE Sited'
<1>. DEFINE m == Moved[run.inscription]
            f == [id |-> tab.entries[m[1]].id, offset |-> tx.inValue + m[2],
                  seq |-> m[1], new |-> Absent]
            floating == Append(tx.floating, f)
            offsets == Counted(tx.offsets, tx.inValue + m[2], tab.entries[m[1]].id)
            ins == tx.ins[run.input].ins
            x == Old(m[1])
<1>1. /\ AtInput /\ run.inscription <= Len(Moved)
      /\ tx' = [tx EXCEPT !.floating = floating, !.offsets = offsets]
      /\ run' = [run EXCEPT !.inscription = run.inscription + 1]
      /\ UNCHANGED <<chain, tab, records, block, cursor, staged, saved, past>>
  BY DEF Take
<1>2. /\ run # Absent /\ TxOK(tx) /\ RunOK(run) /\ Indexing /\ InTx /\ block # None
      /\ At = run /\ Work = tx /\ Accounts = run
      /\ This = T /\ (IsLast <=> Coinbase) /\ InputCount = Inputs
      /\ tx # Absent /\ tx.phase = "inputs" /\ run.input <= Inputs
  BY <1>1, InTxFacts DEF AtInput
<1>3. /\ ~Resumes /\ run.input \in 1..Inputs /\ Inputs \in Nat /\ ~Coinbase
      /\ Len(tx.ins) = Inputs /\ EntryOK(tx.ins[run.input])
  <2>1. ASSUME Coinbase PROVE FALSE
    <3>1. Moved = << >>
      BY <2>1 DEF Moved
    <3>2. run.inscription \in Nat \ {0} /\ Len(Moved) = 0
      BY <1>2, <3>1 DEF RunOK
    <3>. QED BY <1>1, <3>2
  <2>. QED BY <1>1, <2>1, AtInputFacts
<1>4. /\ ins \in Seq(Nat \X Nat) /\ Moved = Sorted(ins, [i \in DOMAIN ins |-> ins[i][1]])
      /\ run.inscription \in DOMAIN ins /\ run.inscription \in Nat
  <2>1. ins \in Seq(Nat \X Nat)
    BY <1>3 DEF EntryOK
  <2>2. Moved = Sorted(ins, [i \in DOMAIN ins |-> ins[i][1]])
    BY <1>3 DEF Moved
  <2>. HIDE DEF ins
  <2>3. Len(Moved) = Len(ins) /\ DOMAIN ins = 1..Len(ins)
    BY <2>1, <2>2, InOrderFromFacts
  <2>4. run.inscription \in Nat \ {0} /\ Len(ins) \in Nat
    BY <1>2, <2>1 DEF RunOK
  <2>5. run.inscription \in 1..Len(ins)
    BY <1>1, <2>3, <2>4
  <2>. QED BY <2>1, <2>2, <2>3, <2>4, <2>5
<1>5. Key(f) = x /\ IsAppend(floating, tx.floating, f) /\ IsSeq(tx.floating)
  <2>1. f.new = Absent /\ f.seq = m[1]
    OBVIOUS
  <2>2. IsSeq(tx.floating)
    BY <1>2 DEF TxOK, Flotsams
  <2>. HIDE DEF f
  <2>. QED BY <2>1, <2>2, AppendSeq DEF Key
<1>6. x = Old(Sorted(ins, [i \in DOMAIN ins |-> ins[i][1]])[run.inscription][1])
  BY <1>4
<1>. HIDE DEF m, f, floating, offsets, x
<1>7. /\ "phase" \in DOMAIN tx' /\ tx'.phase = "inputs" /\ tx'.outs = tx.outs /\ tx'.ins = tx.ins
      /\ tx'.id = tx.id /\ tx'.floating = floating
  BY <1>1, <1>2 DEF TxOK, TxShape
<1>8. /\ "tx" \in DOMAIN run' /\ run'.tx = run.tx /\ run'.input = run.input
      /\ run'.inscription = run.inscription + 1 /\ run'.flotsam = run.flotsam
  BY <1>1, <1>2 DEF RunOK, RunShape
<1>9. tx' # Absent /\ run' # Absent
  BY <1>7, <1>8, HasFields
<1>10. ViewsReading /\ ViewsReading'
  <2>1. (Frame /\ tx # Absent /\ tx.phase = "inputs" /\ ~Resumes => ViewsReading)'
    BY ViewReading, PTL
  <2>. QED BY <1>1, <1>2, <1>3, <1>7, <1>9, <2>1, ViewReading DEF Resumes
<1>11. /\ Txs' = Txs /\ Indexing' /\ At' = run' /\ This' = This /\ (Coinbase' <=> Coinbase)
       /\ Reading /\ Reading' /\ Entering' = Entering
       /\ Queue = tx.floating /\ Queue' = floating /\ Outs' = Outs /\ Waiting' = Waiting
       /\ Located = << >> /\ Located' = << >> /\ Envelope' = Envelope
  BY <1>1, <1>2, <1>7, <1>8, <1>9, <1>10
     DEF ViewsReading, Txs, InOrder, At, This, Coinbase, Entering
<1>12. Rest = << >> /\ Rest' = << >>
  BY <1>11, NoneRest DEF Rest, From
<1>13. Positions'
  BY <1>1, <1>2, <1>7, <1>8, <1>9, <1>10, ReadingPositions DEF Sited
<1>14. /\ Untaken = [i \in run.input..Len(tx.ins) |->
                       IF i = run.input THEN InOrderFrom(tx.ins[i].ins, run.inscription)
                       ELSE tx.ins[i]]
       /\ Untaken' = [i \in run.input..Len(tx.ins) |->
                       IF i = run.input THEN InOrderFrom(tx.ins[i].ins, run.inscription + 1)
                       ELSE tx.ins[i]]
  <2>1. (Frame /\ tx # Absent /\ ViewsReading /\ ~Coinbase =>
           Untaken = [i \in run.input..Len(tx.ins) |->
                        IF i = run.input THEN InOrderFrom(tx.ins[i].ins, run.inscription)
                        ELSE tx.ins[i]])'
    BY UntakenReading, PTL
  <2>. QED BY <1>2, <1>3, <1>7, <1>8, <1>9, <1>10, <1>11, <2>1, UntakenReading
<1>15. /\ run.input \in DOMAIN Untaken /\ DOMAIN Untaken' = DOMAIN Untaken
       /\ \A i \in DOMAIN Untaken : i # run.input => Untaken'[i] = Untaken[i]
       /\ Untaken[run.input] = InOrderFrom(ins, run.inscription)
       /\ Untaken'[run.input] = InOrderFrom(ins, run.inscription + 1)
  <2>1. run.input \in run.input..Len(tx.ins)
    BY <1>3
  <2>. QED BY <1>14, <2>1
<1>. HIDE DEF ins
<1>16. ASSUME Held PROVE Held'
  <2>. DEFINE I == AllOn(Untaken)
              Q == Keys(Queue)
              W == Keys(Waiting)
  <2>1. Apart(Queue) /\ Apart(Waiting) /\ Spread(Untaken) /\ Separate({}, {}, {}, I, Q, {}, W)
    BY <1>16 DEF Held, Placed, EachApart, AllApart, Separate
  <2>2. /\ On(Untaken'[run.input]) = On(Untaken[run.input]) \ {x} /\ Single(Untaken'[run.input])
        /\ x \in On(Untaken[run.input])
    <3>. DEFINE a == InOrderFrom(ins, run.inscription)
                b == InOrderFrom(ins, run.inscription + 1)
    <3>1. Single(a)
      BY <1>15, <2>1 DEF Spread
    <3>2. On(b) = On(a) \ {x} /\ Single(b) /\ x \in On(a)
      BY <1>4, <1>6, <3>1, InOrderNext
    <3>. HIDE DEF a, b
    <3>3. Untaken[run.input] = a /\ Untaken'[run.input] = b
      BY <1>15 DEF a, b
    <3>. QED BY <3>2, <3>3
  <2>3. AllOn(Untaken') = I \ {x} /\ Spread(Untaken') /\ x \in I
    BY <1>15, <2>1, <2>2, AllOnLess
  <2>4. x \notin Q
    BY <2>1, <2>3 DEF Separate
  <2>5. Keys(Queue') = Q \cup {x} /\ Apart(Queue')
    BY <1>5, <1>11, <2>1, <2>4, KeysAppend
  <2>6. Keys(Waiting') = W /\ Keys(Rest) = {} /\ Keys(Rest') = {} /\ Apart(Rest')
    BY <1>11, <1>12, NoKeys
  <2>. HIDE DEF I, Q, W
  <2>7. /\ Separate({}, {}, {}, I \ {x}, Q \cup {x}, {}, W)
        /\ (I \ {x}) \cup (Q \cup {x}) \cup {} \cup W = I \cup Q \cup {} \cup W
    BY <2>1, <2>3 DEF Separate
  <2>8. MovesWithin
    BY <1>1, <1>2, <1>8, <1>11, <2>1, <2>3, <2>5, <2>6, <2>7 DEF MovesWithin, I, Q, W
  <2>9. /\ NewFrom(W, Spent(At.tx)) /\ NewFrom(Q, Spent(At.tx + 1))
        /\ \A y : New(y) \in Q => \E k \in 0..Envelope - 1 : y = <<This.id, k>>
    BY <1>2, <1>11, <1>16 DEF Held, FromDone, Q, W
  <2>10. \A y : New(y) # x
    BY KeysDiffer DEF x
  <2>11. /\ NewFrom(Q \cup {x}, Spent(At.tx + 1)) /\ NewFrom({}, Spent(At.tx + 1))
         /\ \A y : New(y) \in Q \cup {x} => \E k \in 0..Envelope - 1 : y = <<This.id, k>>
    BY <2>9, <2>10 DEF NewFrom
  <2>. QED BY <1>11, <1>16, <2>5, <2>6, <2>8, <2>9, <2>11, WithinHeld DEF W
<1>. QED BY <1>1, <1>13, <1>16 DEF Sited

\* The envelopes of an input join what floats.
LEMMA RevealedKeys ==
  ASSUME NEW t, NEW u, Reveals(t, u), t.id \in Nat, IsSeq(t.floating), Apart(t.floating),
         \A k \in Nat : k >= t.id => New(<<T.id, k>>) \notin Keys(t.floating)
  PROVE  /\ Keys(u.floating) = Keys(t.floating) \cup {New(x) : x \in {<<T.id, k>> : k \in t.id..u.id - 1}}
         /\ Apart(u.floating)
<1>. DEFINE n == Len(t.floating)
            d == u.id - t.id
            N == {<<T.id, k>> : k \in t.id..u.id - 1}
            g == u.floating
            more == [i \in 1..d |-> g[n + i]]
<1>1. /\ n \in Nat /\ d \in Nat /\ t.id \in Nat /\ u.id \in Nat
      /\ IsSeq(g) /\ Len(g) = n + d /\ DOMAIN g = 1..n + d
      /\ \A i \in 1..n : g[i] = t.floating[i]
  BY SeqFacts DEF Reveals, Flotsams
<1>2. \A i \in 1..d : g[n + i].new # Absent /\ g[n + i].id = <<T.id, t.id + i - 1>>
  <2>1. \A k \in t.id..u.id - 1 : g[n + 1 + (k - t.id)].new # Absent
                                  /\ g[n + 1 + (k - t.id)].id = <<T.id, k>>
    BY DEF Reveals
  <2>2. ASSUME NEW i \in 1..d
        PROVE  /\ t.id + i - 1 \in t.id..u.id - 1
               /\ n + 1 + ((t.id + i - 1) - t.id) = n + i
    <3>1. ASSUME NEW a \in Nat, NEW b \in Nat, NEW c \in Nat, NEW j \in 1..b - a
          PROVE  a + j - 1 \in a..b - 1 /\ c + 1 + ((a + j - 1) - a) = c + j
      OBVIOUS
    <3>2. i \in 1..u.id - t.id /\ n \in Nat /\ t.id \in Nat /\ u.id \in Nat
      BY <1>1
    <3>. HIDE DEF d, n, g
    <3>. QED BY <3>1, <3>2
  <2>. HIDE DEF d, n, g
  <2>. QED BY <2>1, <2>2
<1>3. IsSeq(more) /\ Len(more) = d /\ DOMAIN more = 1..d
  BY <1>1, FcnSeq
<1>4. IsConcat(g, t.floating, more)
  <2>1. \A i \in 1..d : g[n + i] = more[i]
    OBVIOUS
  <2>. HIDE DEF more
  <2>. QED BY <1>1, <1>3, <2>1 DEF IsConcat
<1>5. \A i \in 1..d : Key(more[i]) = New(<<T.id, t.id + i - 1>>)
  BY <1>2 DEF Key
<1>. HIDE DEF more, d, n, g
<1>6. \A x, y, a, b : New(<<x, a>>) = New(<<y, b>>) => a = b
  BY DEF New
<1>7. Apart(more)
  <2>. SUFFICES ASSUME NEW i \in 1..d, NEW j \in 1..d, Key(more[i]) = Key(more[j]) PROVE i = j
    BY <1>3 DEF Apart
  <2>1. t.id + i - 1 = t.id + j - 1
    BY <1>5, <1>6
  <2>. QED BY <1>1, <2>1
<1>8. Keys(more) = {New(x) : x \in N}
  <2>1. ASSUME NEW i \in 1..d PROVE Key(more[i]) \in {New(x) : x \in N}
    <3>1. t.id + i - 1 \in t.id..u.id - 1
      BY <1>1 DEF d
    <3>. QED BY <1>5, <3>1
  <2>2. ASSUME NEW x \in N PROVE New(x) \in Keys(more)
    <3>1. PICK k \in t.id..u.id - 1 : x = <<T.id, k>>
      OBVIOUS
    <3>2. k - t.id + 1 \in 1..d /\ t.id + (k - t.id + 1) - 1 = k
      <4>1. t.id \in Nat /\ u.id \in Nat /\ d = u.id - t.id
        BY <1>1 DEF d
      <4>2. k \in Int /\ t.id <= k /\ k <= u.id - 1
        BY <3>1, <4>1
      <4>. QED BY <4>1, <4>2
    <3>. QED BY <1>3, <1>5, <3>1, <3>2 DEF Keys
  <2>. HIDE DEF N
  <2>. QED BY <1>3, <2>1, <2>2 DEF Keys
<1>9. \A k \in Keys(t.floating) : k \notin Keys(more)
  <2>1. \A x \in N : New(x) \notin Keys(t.floating)
    BY <1>1
  <2>. HIDE DEF N
  <2>. QED BY <1>8, <2>1
<1>10. Keys(g) = Keys(t.floating) \cup Keys(more) /\ Apart(g)
  BY <1>3, <1>4, <1>7, <1>9, KeysConcat
<1>. QED BY <1>8, <1>10 DEF g

\* An entry without inscriptions leaves; the others stay as they are.
LEMMA AllOnEmptied ==
  ASSUME NEW m, NEW r, NEW o, Spread(m), DOMAIN r = DOMAIN m \ {o},
         o \in DOMAIN m => On(m[o]) = {},
         \A p \in DOMAIN r : On(r[p]) = On(m[p]) /\ (Single(m[p]) => Single(r[p]))
  PROVE  AllOn(r) = AllOn(m) /\ Spread(r)
<1>1. ASSUME NEW k \in AllOn(m) PROVE k \in AllOn(r)
  <2>1. PICK p \in DOMAIN m : k \in On(m[p])
    BY <1>1, AllOnIs
  <2>2. p \in DOMAIN r /\ k \in On(r[p])
    BY <2>1
  <2>. QED BY <2>2, AllOnIs
<1>2. ASSUME NEW k \in AllOn(r) PROVE k \in AllOn(m)
  <2>1. PICK p \in DOMAIN r : k \in On(r[p])
    BY <1>2, AllOnIs
  <2>2. p \in DOMAIN m /\ k \in On(m[p])
    BY <2>1
  <2>. QED BY <2>2, AllOnIs
<1>3. Spread(r)
  BY DEF Spread
<1>. QED BY <1>1, <1>2, <1>3

\* The id of the transaction in progress is new.
LEMMA ThisIdNew ==
  ASSUME Frame, tx # Absent
  PROVE  T.id \notin Known(Len(chain)) /\ T.id \notin Spent(run.tx) /\ T.id \in Spent(run.tx + 1)
<1>1. block # None /\ run.tx \in 1..Len(Txs) /\ Linked /\ Len(Txs) \in Nat
  BY InTxFacts DEF Frame
<1>2. /\ \A i, j \in 1..Len(Txs) : Txs[i].id = Txs[j].id => i = j
      /\ TxIds(block) = {Txs[i].id : i \in 1..Len(Txs)}
      /\ Known(Len(chain)) \cap TxIds(block) = {}
  BY <1>1, TxsFacts
<1>3. T.id \in TxIds(block)
  BY <1>1, <1>2 DEF T
<1>4. /\ run.tx \notin 1..run.tx - 1 /\ run.tx \in 1..(run.tx + 1) - 1
      /\ \A i \in 1..run.tx - 1 : i \in 1..Len(Txs)
  BY <1>1
<1>5. T.id \notin Spent(run.tx)
  BY <1>1, <1>2, <1>4 DEF Spent, T
<1>6. T.id \in Spent(run.tx + 1)
  BY <1>4 DEF Spent, T
<1>. QED BY <1>2, <1>3, <1>5, <1>6

\* The input that is done has nothing left, and the next is as it was spent.
LEMMA NextInputUntaken ==
  ASSUME Frame, Frame', AtInput, run.inscription > Len(Moved), ViewsReading, ViewsReading',
         tx' # Absent, tx'.ins = tx.ins, run'.input = run.input + 1, run'.inscription = 1,
         Coinbase' <=> Coinbase, IsLast' <=> IsLast, Spread(Untaken)
  PROVE  AllOn(Untaken') = AllOn(Untaken) /\ Spread(Untaken')
<1>1. /\ run # Absent /\ tx # Absent /\ (IsLast <=> Coinbase) /\ TxOK(tx)
  BY InTxFacts DEF AtInput
<1>2. CASE Coinbase
  <2>1. Untaken = << >> /\ Untaken' = << >>
    BY <1>1, <1>2 DEF Untaken
  <2>. QED BY <2>1
<1>3. CASE ~Coinbase
  <2>. DEFINE o == run.input
              n == Len(tx.ins)
              entries == tx.ins
              at == run.inscription
  <2>1. /\ Untaken = [i \in run.input..Len(tx.ins) |->
                        IF i = run.input THEN InOrderFrom(tx.ins[i].ins, run.inscription)
                        ELSE tx.ins[i]]
        /\ Untaken' = [i \in run.input + 1..Len(tx.ins) |->
                        IF i = run.input + 1 THEN InOrderFrom(tx.ins[i].ins, 1)
                        ELSE tx.ins[i]]
    <3>1. (Frame /\ tx # Absent /\ ViewsReading /\ ~Coinbase =>
             Untaken = [i \in run.input..Len(tx.ins) |->
                          IF i = run.input THEN InOrderFrom(tx.ins[i].ins, run.inscription)
                          ELSE tx.ins[i]])'
      BY UntakenReading, PTL
    <3>. QED BY <1>1, <1>3, <3>1, UntakenReading
  <2>2. /\ o \in Nat /\ n \in Nat /\ o \in 1..n /\ DOMAIN entries = 1..n
        /\ \A i \in 1..n : EntryOK(entries[i])
    <3>1. run.input \in 1..Inputs /\ Inputs \in Nat /\ Len(tx.ins) = Inputs
      BY <1>3, AtInputFacts
    <3>2. DOMAIN tx.ins = 1..Len(tx.ins) /\ \A i \in DOMAIN tx.ins : EntryOK(tx.ins[i])
      BY <1>1, SeqFacts DEF TxOK, WorkOK
    <3>. QED BY <3>1, <3>2
  <2>3. On(InOrderFrom(entries[o].ins, at)) = {}
    <3>. DEFINE ins == entries[o].ins
    <3>1. ins \in Seq(Nat \X Nat)
      BY <2>2 DEF EntryOK
    <3>2. Moved = Sorted(ins, [i \in DOMAIN ins |-> ins[i][1]])
      BY <1>3 DEF Moved
    <3>3. run.inscription \in Nat
      BY <1>1, InTxFacts DEF RunOK
    <3>. HIDE DEF entries
    <3>4. Len(Moved) = Len(ins)
      BY <3>1, <3>2, InOrderFromFacts
    <3>. QED BY <3>1, <3>3, <3>4, InOrderEnds
  <2>4. \A i \in o + 1..n : /\ On(InOrderFrom(entries[i].ins, 1)) = On(entries[i])
                            /\ Single(entries[i]) => Single(InOrderFrom(entries[i].ins, 1))
    <3>. SUFFICES ASSUME NEW i \in o + 1..n
                  PROVE  /\ On(InOrderFrom(entries[i].ins, 1)) = On(entries[i])
                         /\ Single(entries[i]) => Single(InOrderFrom(entries[i].ins, 1))
      OBVIOUS
    <3>1. i \in 1..n
      BY <2>2
    <3>2. entries[i].ins \in Seq(Nat \X Nat)
      BY <2>2, <3>1 DEF EntryOK
    <3>. QED BY <3>2, InOrderEnds
  <2>5. /\ DOMAIN Untaken' = DOMAIN Untaken \ {o} /\ o \in DOMAIN Untaken
        /\ Untaken[o] = InOrderFrom(entries[o].ins, at)
        /\ \A i \in DOMAIN Untaken' : i \in o + 1..n /\ Untaken[i] = entries[i]
                                      /\ Untaken'[i] \in {entries[i], InOrderFrom(entries[i].ins, 1)}
    <3>1. /\ o + 1..n = (o..n) \ {o} /\ o \in o..n
          /\ \A i \in o + 1..n : i \in o..n /\ i # o
      BY <2>2
    <3>2. /\ DOMAIN Untaken = o..n /\ DOMAIN Untaken' = o + 1..n
          /\ Untaken[o] = InOrderFrom(entries[o].ins, at)
          /\ \A i \in o + 1..n : Untaken[i] = entries[i]
      BY <2>1, <3>1
    <3>3. \A i \in o + 1..n : Untaken'[i] \in {entries[i], InOrderFrom(entries[i].ins, 1)}
      BY <2>1
    <3>. HIDE DEF o, n, entries
    <3>. QED BY <3>1, <3>2, <3>3
  <2>. HIDE DEF o, n, entries, at
  <2>6. \A i \in DOMAIN Untaken' : /\ On(Untaken'[i]) = On(Untaken[i])
                                   /\ Single(Untaken[i]) => Single(Untaken'[i])
    BY <2>4, <2>5
  <2>. QED BY <2>3, <2>5, <2>6, AllOnEmptied
<1>. QED BY <1>2, <1>3

LEMMA FinishInputSited == ASSUME Frame, Frame', Sited, FinishInput PROVE Sited'
<1>. DEFINE value == IF Coinbase THEN Subsidy ELSE Len(tx.ins[run.input].sats)
            w == Revealed(tx.inValue, value)
            N == {<<T.id, k>> : k \in tx.id..w.id - 1}
<1>1. /\ AtInput /\ run.inscription > Len(Moved)
      /\ tx' = [w EXCEPT !.inValue = w.inValue + value]
      /\ run' = [run EXCEPT !.input = run.input + 1, !.inscription = 1]
      /\ UNCHANGED <<chain, tab, records, block, cursor, staged, saved, past>>
  BY DEF FinishInput
<1>2. /\ run # Absent /\ TxOK(tx) /\ RunOK(run) /\ Indexing /\ InTx /\ block # None
      /\ At = run /\ Work = tx /\ Accounts = run
      /\ This = T /\ (IsLast <=> Coinbase) /\ InputCount = Inputs
      /\ tx # Absent /\ tx.phase = "inputs" /\ ContentOK(T)
      /\ tx.id \in Nat /\ tx.inValue \in Nat /\ IsSeq(tx.floating)
  BY <1>1, InTxFacts DEF AtInput, TxOK, Flotsams
<1>3. ~Resumes
  BY <1>1, AtInputFacts
<1>. HIDE DEF value
<1>4. Reveals(tx, w)
  BY <1>2, RevealedReveals
<1>. HIDE DEF w
<1>5. /\ TxShape(w) /\ w.id \in Nat /\ tx.id <= w.id
      /\ w.phase = tx.phase /\ w.ins = tx.ins /\ w.outs = tx.outs
  BY <1>4 DEF Reveals
<1>7. /\ "phase" \in DOMAIN tx' /\ tx'.phase = "inputs" /\ tx'.outs = tx.outs /\ tx'.ins = tx.ins
      /\ tx'.id = w.id /\ tx'.floating = w.floating
  BY <1>1, <1>2, <1>5 DEF TxShape
<1>8. /\ "tx" \in DOMAIN run' /\ run'.tx = run.tx /\ run'.input = run.input + 1
      /\ run'.inscription = 1 /\ run'.flotsam = run.flotsam
  BY <1>1, <1>2 DEF RunOK, RunShape
<1>9. tx' # Absent /\ run' # Absent
  BY <1>7, <1>8, HasFields
<1>10. ViewsReading /\ ViewsReading'
  <2>1. (Frame /\ tx # Absent /\ tx.phase = "inputs" /\ ~Resumes => ViewsReading)'
    BY ViewReading, PTL
  <2>. QED BY <1>1, <1>2, <1>3, <1>7, <1>9, <2>1, ViewReading DEF Resumes
<1>11. /\ Txs' = Txs /\ Indexing' /\ At' = run' /\ This' = This
       /\ (Coinbase' <=> Coinbase) /\ (IsLast' <=> IsLast)
       /\ Reading /\ Reading' /\ Entering' = Entering /\ Entering = run.tx
       /\ Queue = tx.floating /\ Queue' = w.floating /\ Outs' = Outs /\ Waiting' = Waiting
       /\ Located = << >> /\ Located' = << >> /\ Envelope = tx.id /\ Envelope' = w.id
  BY <1>1, <1>2, <1>7, <1>8, <1>9, <1>10
     DEF ViewsReading, Txs, InOrder, At, This, Coinbase, IsLast, Entering
<1>12. Rest = << >> /\ Rest' = << >>
  BY <1>11, NoneRest DEF Rest, From
<1>13. Positions'
  BY <1>1, <1>2, <1>7, <1>8, <1>9, <1>10, ReadingPositions DEF Sited
<1>14. T.id \notin Known(Len(chain)) /\ T.id \notin Spent(run.tx) /\ T.id \in Spent(run.tx + 1)
  BY <1>2, ThisIdNew
<1>15. \A x \in N : x[1] = T.id
  OBVIOUS
<1>16. ASSUME Held PROVE Held'
  <2>. DEFINE I == AllOn(Untaken)
              Q == Keys(Queue)
              W == Keys(Waiting)
              J == {New(x) : x \in N}
  <2>1. Apart(Queue) /\ Apart(Waiting) /\ Spread(Untaken) /\ Separate({}, {}, {}, I, Q, {}, W)
    BY <1>16 DEF Held, Placed, EachApart, AllApart, Separate
  <2>2. /\ NewFrom(W, Spent(At.tx)) /\ NewFrom(Q, Spent(At.tx + 1))
        /\ \A y : New(y) \in Q => \E k \in 0..tx.id - 1 : y = <<T.id, k>>
        /\ IdsFrom(tab.ids, Known(Len(chain)) \cup Spent(run.tx))
    BY <1>2, <1>11, <1>16 DEF Held, FromDone, Q, W
  <2>3. \A k \in Nat : k >= tx.id => New(<<T.id, k>>) \notin Q
    <3>. SUFFICES ASSUME NEW k \in Nat, k >= tx.id, New(<<T.id, k>>) \in Q PROVE FALSE
      OBVIOUS
    <3>1. PICK j \in 0..tx.id - 1 : <<T.id, k>> = <<T.id, j>>
      BY <2>2
    <3>2. k = j
      BY <3>1
    <3>. QED BY <1>2, <3>2
  <2>4. Keys(Queue') = Q \cup J /\ Apart(Queue')
    BY <1>2, <1>4, <1>11, <2>1, <2>3, RevealedKeys
  <2>5. AllOn(Untaken') = I /\ Spread(Untaken')
    BY <1>1, <1>7, <1>8, <1>9, <1>10, <1>11, <2>1, NextInputUntaken
  <2>6. Keys(Waiting') = W /\ Keys(Rest) = {} /\ Keys(Rest') = {} /\ Apart(Rest')
    BY <1>11, <1>12, NoKeys
  <2>7. \A x \in N : x \notin DOMAIN tab.ids
    BY <1>14, <1>15, <2>2 DEF IdsFrom
  <2>8. \A j \in J : j \notin I /\ j \notin W
    <3>1. ASSUME NEW x \in N PROVE New(x) \notin I /\ New(x) \notin W
      <4>1. New(x) \notin I
        BY OnlyOld
      <4>2. New(x) \notin W
        BY <1>2, <1>14, <1>15, <2>2, <3>1 DEF NewFrom
      <4>. QED BY <4>1, <4>2
    <3>. QED BY <3>1
  <2>9. /\ NewFrom(Q \cup J, Spent(At.tx + 1)) /\ NewFrom({}, Spent(At.tx + 1))
    <3>1. \A y : New(y) \in J => y \in N
      BY KeysDiffer
    <3>. HIDE DEF N, J, Q, W
    <3>. QED BY <1>2, <1>14, <1>15, <2>2, <3>1 DEF NewFrom
  <2>10. \A y : New(y) \in Q \cup J => \E k \in 0..w.id - 1 : y = <<T.id, k>>
    <3>. SUFFICES ASSUME NEW y, New(y) \in Q \cup J PROVE \E k \in 0..w.id - 1 : y = <<T.id, k>>
      OBVIOUS
    <3>1. CASE New(y) \in Q
      <4>1. PICK k \in 0..tx.id - 1 : y = <<T.id, k>>
        BY <2>2, <3>1
      <4>2. k \in 0..w.id - 1
        BY <1>2, <1>5
      <4>. QED BY <4>1, <4>2
    <3>2. CASE New(y) \in J
      <4>1. y \in N
        BY <3>2, KeysDiffer
      <4>2. PICK k \in tx.id..w.id - 1 : y = <<T.id, k>>
        BY <4>1
      <4>3. k \in 0..w.id - 1
        BY <1>2, <1>5
      <4>. QED BY <4>2, <4>3
    <3>. QED BY <3>1, <3>2
  <2>. HIDE DEF I, Q, W, J
  <2>11. /\ Separate({}, {}, {}, I, Q \cup J, {}, W)
         /\ I \cup (Q \cup J) \cup {} \cup W = I \cup Q \cup {} \cup W \cup J
    BY <2>1, <2>8 DEF Separate
  <2>. HIDE DEF N
  <2>12. MovesAdding(N)
    BY <1>1, <1>2, <1>8, <1>11, <2>1, <2>4, <2>5, <2>6, <2>7, <2>11 DEF MovesAdding, I, Q, W, J
  <2>. QED BY <1>2, <1>11, <1>16, <2>2, <2>4, <2>6, <2>9, <2>10, <2>12, AddsHeld DEF W
<1>. QED BY <1>1, <1>13, <1>16 DEF Sited

\* Parents that are dropped do not make an inscription another.
LEMMA OwnKeys ==
  ASSUME NEW s, Flotsams(s), NEW present
  PROVE  /\ Keys(Own(s, present)) = Keys(s) /\ (Apart(s) => Apart(Own(s, present)))
         /\ IsSeq(Own(s, present))
<1>. DEFINE own == Own(s, present)
<1>0. own = [i \in DOMAIN s |-> IF s[i].new = Absent THEN s[i]
                                ELSE [s[i] EXCEPT !.new.parents = @ \cap present]]
  BY DEF Own
<1>. HIDE DEF own
<1>1. ASSUME NEW f, FlotsamOK(f), f.new # Absent
      PROVE  Key([f EXCEPT !.new.parents = @ \cap present]) = Key(f)
  <2>. DEFINE p == f.new.parents \cap present
              n == [f.new EXCEPT !.parents = p]
              g == [f EXCEPT !.new = n]
  <2>1. [f EXCEPT !.new.parents = @ \cap present] = g
    BY <1>1 DEF FlotsamOK
  <2>. HIDE DEF p
  <2>2. "parents" \in DOMAIN n
    BY <1>1 DEF FlotsamOK, NewOK
  <2>. HIDE DEF n
  <2>3. n # Absent
    BY <2>2, HasFields
  <2>4. g.new = n /\ g.id = f.id
    BY <1>1 DEF FlotsamOK
  <2>. HIDE DEF g
  <2>5. Key(g) = New(f.id)
    BY <2>3, <2>4 DEF Key
  <2>6. Key(f) = New(f.id)
    BY <1>1 DEF Key
  <2>. QED BY <2>1, <2>5, <2>6
<1>2. \A i \in DOMAIN s : FlotsamOK(s[i])
  BY DEF Flotsams
<1>3. DOMAIN own = DOMAIN s /\ \A i \in DOMAIN s : Key(own[i]) = Key(s[i])
  BY <1>0, <1>1, <1>2
<1>4. Keys(own) = Keys(s) /\ (Apart(s) => Apart(own))
  BY <1>3, KeysSame
<1>. QED BY <1>4, OwnFlotsams DEF own, Flotsams

LEMMA SortedKeys ==
  ASSUME NEW s, Flotsams(s)
  PROVE  LET r == Sorted(s, [i \in DOMAIN s |-> s[i].offset])
         IN Keys(r) = Keys(s) /\ (Apart(s) => Apart(r))
<1>. DEFINE key == [i \in DOMAIN s |-> s[i].offset]
            r == Sorted(s, key)
<1>1. IsSeq(s) /\ \A i \in DOMAIN s : key[i] \in Int
  BY DEF Flotsams, FlotsamOK
<1>. HIDE DEF key
<1>2. \E p : Permutes(r, s, p)
  BY <1>1, SortedPermutes
<1>. HIDE DEF r
<1>3. Keys(r) = Keys(s) /\ (Apart(s) => Apart(r))
  BY <1>2, KeysPermuted
<1>. QED BY <1>3 DEF r, key

\* The inputs end for the first time: what floats is put in order, in the
\* coinbase with what the fees carry.
LEMMA FinishInputsFirst ==
  ASSUME Frame, Frame', Sited, FinishInputs, ~Resumes
  PROVE  Sited'
<1>. DEFINE present == {tx.floating[i].id : i \in DOMAIN tx.floating}
            own == Own(tx.floating, present)
            fees == IF Coinbase THEN run.flotsam ELSE << >>
            all == own \o fees
            queue == Sorted(all, [i \in DOMAIN all |-> all[i].offset])
            flotsam == IF Coinbase THEN << >> ELSE run.flotsam
<1>1. /\ run # Absent /\ tx # Absent /\ tx.phase = "inputs" /\ run.input > Inputs
      /\ saved.in2 = Absent /\ saved.in3 = Absent
      /\ tx' = [tx EXCEPT !.phase = "outputs", !.queue = queue]
      /\ run' = [run EXCEPT !.input = 1, !.flotsam = flotsam]
      /\ saved' = [saved EXCEPT !.in1 = Absent]
      /\ UNCHANGED <<chain, tab, records, block, cursor, staged, past>>
  BY DEF FinishInputs, Own, Resumes
<1>. HIDE DEF present
<1>2. /\ Indexing /\ InTx /\ At = run /\ Work = tx /\ Accounts = run /\ TxOK(tx) /\ RunOK(run)
      /\ (IsLast <=> Coinbase) /\ InputCount = Inputs /\ This = T /\ ContentOK(T)
      /\ Len(Txs) \in Nat /\ run.tx \in 1..Len(Txs) /\ Flotsams(tx.floating) /\ Flotsams(run.flotsam)
  BY <1>1, InTxFacts DEF TxOK, RunOK, AccountsOK
<1>3. /\ Flotsams(own) /\ Keys(own) = Keys(tx.floating) /\ (Apart(tx.floating) => Apart(own))
      /\ IsSeq(own)
  BY <1>2, OwnFlotsams, OwnKeys
<1>4. /\ Flotsams(fees) /\ IsSeq(fees) /\ (Apart(run.flotsam) => Apart(fees) /\ Apart(flotsam))
      /\ Keys(flotsam) \cup Keys(fees) = Keys(run.flotsam)
      /\ Keys(fees) = {} \/ Keys(flotsam) = {}
  BY <1>2, EmptyLists, NoKeys DEF Flotsams
<1>. HIDE DEF own, fees, flotsam
<1>5. Flotsams(all) /\ IsConcat(all, own, fees)
  BY <1>3, <1>4, ConcatFlotsams, ConcatSeq
<1>. HIDE DEF all
<1>6. Keys(queue) = Keys(all) /\ (Apart(all) => Apart(queue))
  BY <1>5, SortedKeys
<1>. HIDE DEF queue
<1>7. /\ "tx" \in DOMAIN run' /\ run'.tx = run.tx /\ run'.flotsam = flotsam
      /\ run'.inscription = run.inscription
  BY <1>1, <1>2 DEF RunOK, RunShape
<1>8. /\ "phase" \in DOMAIN tx' /\ tx'.phase = "outputs" /\ tx'.outs = tx.outs /\ tx'.loc = tx.loc
      /\ tx'.queue = queue /\ tx'.located = tx.located
  BY <1>1, <1>2 DEF TxOK, TxShape
<1>9. tx' # Absent /\ run' # Absent
  BY <1>7, <1>8, HasFields
<1>10. saved'.in3 = Absent /\ tx.located = << >>
  BY <1>1 DEF Frame, Types, SavedOK, SavedShape, Pending
<1>11. ViewsReading /\ ViewsLocals'
  <2>1. (Frame /\ tx # Absent
           /\ ((tx.phase = "outputs" /\ saved.in3 = Absent) \/ tx.phase \in {"locations", "rest"})
           => ViewsLocals)'
    BY ViewLocals, PTL
  <2>. QED BY <1>1, <1>8, <1>9, <1>10, <2>1, ViewReading
<1>12. /\ Txs' = Txs /\ At' = run' /\ Work' = tx' /\ This' = This /\ Indexing'
       /\ Reading /\ ~Reading' /\ InTx' /\ Entering' = Entering + 1
       /\ Queue = tx.floating /\ Queue' = queue /\ Outs' = Outs
       /\ Waiting = run.flotsam /\ Waiting' = flotsam
       /\ Located = << >> /\ Located' = << >> /\ Untaken' = << >>
  <2>1. /\ Txs' = Txs /\ At' = run' /\ Work' = tx' /\ Indexing'
        /\ Reading /\ ~Reading' /\ InTx'
        /\ Queue = tx.floating /\ Queue' = queue /\ Outs' = Outs
        /\ Waiting = run.flotsam /\ Waiting' = flotsam
        /\ Located = << >> /\ Located' = << >> /\ Untaken' = << >>
    BY <1>1, <1>2, <1>7, <1>8, <1>9, <1>10, <1>11
       DEF ViewsReading, ViewsLocals, Txs, InOrder, At, Work
  <2>2. This' = This /\ Entering' = Entering + 1
    BY <1>2, <1>7, <2>1 DEF This, Entering
  <2>. QED BY <2>1, <2>2
<1>13. Rest = << >> /\ Rest' = << >>
  BY <1>12, NoneRest DEF Rest
<1>14. AllOn(Untaken) = {}
  <2>1. AllOn(Untaken) = {}
    <3>1. CASE Coinbase
      <4>1. IsLast
        BY <1>2, <3>1
      <4>. HIDE DEF Reading, IsLast, Work
      <4>2. Untaken = << >>
        BY <4>1 DEF Untaken
      <4>. QED BY <4>2, AllOnNothing
    <3>2. CASE ~Coinbase
      <4>. DEFINE o == run.input
                  n == Len(tx.ins)
                  g == [i \in o..n |-> IF i = o THEN InOrderFrom(tx.ins[i].ins, run.inscription)
                                       ELSE tx.ins[i]]
      <4>1. Untaken = g
        BY <1>1, <1>11, <3>2, UntakenReading
      <4>2. Inputs = Len(T.ins) /\ Len(T.ins) = n /\ n \in Nat /\ o \in Nat /\ o > n
        <5>1. Inputs = Len(T.ins) /\ Len(T.ins) = n
          BY <1>2, <3>2 DEF Inputs, Frame, Counts
        <5>2. Len(T.ins) \in Nat
          BY <1>2, SeqFacts DEF ContentOK
        <5>. QED BY <1>1, <1>2, <5>1, <5>2 DEF RunOK
      <4>3. o..n = {}
        <5>. HIDE DEF o, n
        <5>. QED BY <4>2
      <4>4. DOMAIN g = {}
        BY <4>3
      <4>. HIDE DEF g
      <4>5. AllOn(g) = {}
        BY <4>4 DEF AllOn
      <4>. QED BY <4>1, <4>5
    <3>. QED BY <3>1, <3>2
  <2>. QED BY <2>1
<1>15. Positions'
  <2>1. run.inscription = 1
    <3>1. Inputs \in Nat /\ run.input \in Nat
      <4>1. Len(T.ins) \in Nat
        BY <1>2, SeqFacts DEF ContentOK
      <4>. QED BY <1>2, <4>1 DEF Inputs, RunOK
    <3>2. ~(At.input <= InputCount)
      BY <1>1, <1>2, <3>1
    <3>. QED BY <1>2, <3>2 DEF Sited, Positions
  <2>2. DOMAIN Work'.outs = 1..Len(This'.outs)
    BY <1>2, <1>8, <1>12 DEF Sited, Positions
  <2>3. ~(At'.tx > Len(Txs'))
    BY <1>2, <1>7, <1>12
  <2>. QED BY <1>7, <1>8, <1>12, <2>1, <2>2, <2>3 DEF Positions
<1>16. ASSUME Held PROVE Held'
  <2>. DEFINE Q == Keys(Queue)
              W == Keys(Waiting)
              F == Keys(fees)
              V == Keys(flotsam)
  <2>1. Apart(Queue) /\ Apart(Waiting) /\ Separate({}, {}, {}, {}, Q, {}, W)
    BY <1>16 DEF Held, Placed, EachApart, AllApart, Separate
  <2>2. F \subseteq W /\ V \subseteq W /\ V \cup F = W /\ (F = {} \/ V = {})
        /\ Keys(own) = Q /\ Apart(own) /\ Apart(fees) /\ Apart(flotsam)
    BY <1>3, <1>4, <1>12, <2>1
  <2>3. \A k \in Q : k \notin F
    BY <2>1, <2>2 DEF Separate
  <2>4. Keys(all) = Q \cup F /\ Apart(all)
    BY <1>3, <1>4, <1>5, <2>2, <2>3, KeysConcat
  <2>5. /\ Keys(Queue') = Q \cup F /\ Apart(Queue') /\ Keys(Waiting') = V /\ Apart(Waiting')
        /\ Keys(Rest) = {} /\ Keys(Rest') = {} /\ Apart(Rest')
        /\ AllOn(Untaken') = {} /\ Spread(Untaken')
    BY <1>6, <1>12, <1>13, <2>2, <2>4, NoKeys, AllOnNothing
  <2>6. NewFrom(W, Spent(At.tx)) /\ NewFrom(Q, Spent(At.tx + 1))
    BY <1>2, <1>16 DEF Held, FromDone, Q, W
  <2>7. Spent(At.tx) \subseteq Spent(At.tx + 1)
    BY <1>2 DEF Spent
  <2>. HIDE DEF Q, W, F, V
  <2>8. /\ NewFrom(V, Spent(At.tx)) /\ NewFrom(Q \cup F, Spent(At.tx + 1))
        /\ NewFrom({}, Spent(At.tx + 1))
    BY <2>2, <2>6, <2>7 DEF NewFrom
  <2>9. /\ Separate({}, {}, {}, {}, Q \cup F, {}, V)
        /\ {} \cup (Q \cup F) \cup {} \cup V = {} \cup Q \cup {} \cup W
    BY <2>1, <2>2 DEF Separate
  <2>10. MovesWithin
    BY <1>1, <1>2, <1>7, <1>12, <1>14, <2>5, <2>9 DEF MovesWithin, Q, W
  <2>. QED BY <1>2, <1>12, <1>16, <2>5, <2>8, <2>10, WithinHeld
<1>. QED BY <1>1, <1>15, <1>16 DEF Sited

=============================================================================
