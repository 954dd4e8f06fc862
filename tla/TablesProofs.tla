------------------------------ MODULE TablesProofs ------------------------------
(* What the tables hold while blocks are indexed, interrupted and rolled      *)
(* back, for every content of the blocks, every jubilee and every end of a    *)
(* message.  Of a rollback it uses that it brought the tables back, as the    *)
(* history variable past.clean says; its last part is about when it does: a   *)
(* reorg brings the tables back by what the change records say of the writes  *)
(* of their blocks.                                                           *)
EXTENDS FrameProofs

-----------------------------------------------------------------------------
(* The tables by sequence number                                             *)

NoteShape(e) ==
  e = [id |-> e.id, number |-> e.number, height |-> e.height, sat |-> e.sat,
       charms |-> e.charms, parents |-> e.parents]

\* The entries of t and their numbers when s counts the inscriptions.
Numbered(t, s) ==
  /\ DOMAIN t.entries = 0..s.blessed + s.cursed - 1
  /\ DOMAIN t.numbers = -s.cursed..s.blessed - 1
  /\ \A seq \in DOMAIN t.entries : LET e == t.entries[seq]
                                   IN /\ NoteShape(e) /\ e.number \in DOMAIN t.numbers
                                      /\ t.numbers[e.number] = seq

\* They are in the order of their heights: t.last has where each of the first
\* n heights ends.
Dated(t, s, n) ==
  /\ \A h \in 0..n - 1 : h \in DOMAIN t.last /\ t.last[h] \in 0..s.blessed + s.cursed
  /\ \A seq \in DOMAIN t.entries :
       /\ t.entries[seq].height \in 0..n
       /\ \A h \in 0..n - 1 : t.entries[seq].height <= h <=> seq < t.last[h]

\* Children, and the inscriptions on each sat, in both directions.
ChildrenAgree(t) ==
  /\ \A p \in DOMAIN t.children :
       /\ p \in DOMAIN t.entries
       /\ \A c \in t.children[p] : c \in DOMAIN t.entries /\ p \in t.entries[c].parents
  /\ \A c \in DOMAIN t.entries : \A p \in t.entries[c].parents :
       p \in DOMAIN t.children /\ c \in t.children[p]

SatsAgree(t) ==
  /\ \A s \in DOMAIN t.satSeqs :
       /\ t.satSeqs[s] # {}
       /\ \A c \in t.satSeqs[s] : c \in DOMAIN t.entries /\ t.entries[c].sat = {s}
  /\ \A c \in DOMAIN t.entries : \A s \in t.entries[c].sat :
       s \in DOMAIN t.satSeqs /\ c \in t.satSeqs[s]

IdsEntered(t) == \A x \in DOMAIN t.ids : t.ids[x] \in DOMAIN t.entries

Indexed(t, s, n) ==
  Numbered(t, s) /\ Dated(t, s, n) /\ ChildrenAgree(t) /\ SatsAgree(t) /\ IdsEntered(t)

\* The statistics in force.
Count == IF run = Absent THEN tab.stats ELSE run.stats

Listed ==
  /\ \A h \in DOMAIN past.tab : TabShape(past.tab[h])
  /\ past.clean =>
       /\ \A h \in DOMAIN past.tab : Indexed(past.tab[h], past.tab[h].stats, h)
       /\ Indexed(tab, Count, Len(chain))
       /\ Committing => Dated(tab, Count, Len(chain) + 1)
       /\ run # Absent => run.next = run.stats.blessed + run.stats.cursed

-----------------------------------------------------------------------------
(* Steps that leave the entries alone                                        *)

SameIndexes(t, u) ==
  /\ u.entries = t.entries /\ u.numbers = t.numbers /\ u.ids = t.ids
  /\ u.children = t.children /\ u.satSeqs = t.satSeqs
SameCount(s, r) == r.blessed = s.blessed /\ r.cursed = s.cursed

LEMMA IndexedSame ==
  ASSUME NEW t, NEW u, NEW s, NEW r, NEW n, SameIndexes(t, u), u.last = t.last, SameCount(s, r)
  PROVE  (Indexed(t, s, n) => Indexed(u, r, n)) /\ (Dated(t, s, n) => Dated(u, r, n))
<1>1. Numbered(t, s) => Numbered(u, r)
  BY DEF SameIndexes, SameCount, Numbered
<1>2. Dated(t, s, n) => Dated(u, r, n)
  BY DEF SameIndexes, SameCount, Dated
<1>3. ChildrenAgree(t) => ChildrenAgree(u)
  BY DEF SameIndexes, ChildrenAgree
<1>4. SatsAgree(t) => SatsAgree(u)
  BY DEF SameIndexes, SatsAgree
<1>5. IdsEntered(t) => IdsEntered(u)
  BY DEF SameIndexes, IdsEntered
<1>. QED BY <1>1, <1>2, <1>3, <1>4, <1>5 DEF Indexed

-----------------------------------------------------------------------------
(* An inscription is entered, or burned                                      *)

\* Inscription seq, the next one, is entered in t with entry e, which gives u.
Enters(t, u, s, r, seq, e) ==
  /\ u.entries = Put(t.entries, seq, e)
  /\ u.numbers = Put(t.numbers, e.number, seq)
  /\ u.children = AddTo(t.children, e.parents, seq)
  /\ u.satSeqs = AddTo(t.satSeqs, e.sat, seq)
  /\ u.ids = Put(t.ids, e.id, seq)
  /\ u.last = t.last
  /\ NoteShape(e)
  /\ seq = s.blessed + s.cursed
  /\ \/ /\ e.number = s.blessed
        /\ r.blessed = s.blessed + 1 /\ r.cursed = s.cursed
     \/ /\ e.number = -(s.cursed + 1)
        /\ r.blessed = s.blessed /\ r.cursed = s.cursed + 1

LEMMA BelowCount ==
  ASSUME NEW t, NEW s, s.blessed \in Nat, s.cursed \in Nat, Numbered(t, s)
  PROVE  \A seq \in DOMAIN t.entries : seq < s.blessed + s.cursed
<1>1. DOMAIN t.entries = 0..s.blessed + s.cursed - 1
  BY DEF Numbered
<1>. DEFINE n == s.blessed + s.cursed
<1>2. n \in Nat /\ DOMAIN t.entries = 0..n - 1
  BY <1>1
<1>. HIDE DEF n
<1>3. \A seq \in DOMAIN t.entries : seq < n
  BY <1>2
<1>. QED BY <1>3 DEF n

LEMMA EnterNumbered ==
  ASSUME NEW t, NEW u, NEW s, NEW r, NEW seq, NEW e, Enters(t, u, s, r, seq, e),
         s.blessed \in Nat, s.cursed \in Nat, Numbered(t, s)
  PROVE  Numbered(u, r)
<1>. DEFINE b == s.blessed
            c == s.cursed
<1>1. /\ DOMAIN u.entries = DOMAIN t.entries \cup {seq}
      /\ u.entries[seq] = e /\ \A x \in DOMAIN t.entries : x # seq => u.entries[x] = t.entries[x]
      /\ DOMAIN u.numbers = DOMAIN t.numbers \cup {e.number}
      /\ u.numbers[e.number] = seq
      /\ \A x \in DOMAIN t.numbers : x # e.number => u.numbers[x] = t.numbers[x]
  BY DEF Enters, Put
<1>2. /\ DOMAIN t.entries = 0..b + c - 1 /\ DOMAIN t.numbers = -c..b - 1
      /\ b \in Nat /\ c \in Nat /\ seq = b + c
      /\ \/ e.number = b /\ r.blessed = b + 1 /\ r.cursed = c
         \/ e.number = -(c + 1) /\ r.blessed = b /\ r.cursed = c + 1
  BY DEF Numbered, Enters
<1>. HIDE DEF b, c
<1>3. DOMAIN u.entries = 0..r.blessed + r.cursed - 1
  <2>1. r.blessed + r.cursed - 1 = b + c
    BY <1>2
  <2>2. DOMAIN u.entries = (0..b + c - 1) \cup {b + c}
    BY <1>1, <1>2
  <2>3. (0..b + c - 1) \cup {b + c} = 0..b + c
    BY <1>2
  <2>. QED BY <2>1, <2>2, <2>3
<1>4. DOMAIN u.numbers = -r.cursed..r.blessed - 1
  <2>1. CASE e.number = b /\ r.blessed = b + 1 /\ r.cursed = c
    <3>1. DOMAIN u.numbers = (-c..b - 1) \cup {b}
      BY <1>1, <1>2, <2>1
    <3>2. (-c..b - 1) \cup {b} = -c..b + 1 - 1
      BY <1>2
    <3>. QED BY <2>1, <3>1, <3>2
  <2>2. CASE e.number = -(c + 1) /\ r.blessed = b /\ r.cursed = c + 1
    <3>1. DOMAIN u.numbers = (-c..b - 1) \cup {-(c + 1)}
      BY <1>1, <1>2, <2>2
    <3>2. (-c..b - 1) \cup {-(c + 1)} = -(c + 1)..b - 1
      BY <1>2
    <3>. QED BY <2>2, <3>1, <3>2
  <2>. QED BY <1>2, <2>1, <2>2
<1>5. e.number \notin DOMAIN t.numbers /\ seq \notin DOMAIN t.entries
  BY <1>2
<1>6. ASSUME NEW x \in DOMAIN u.entries
      PROVE  /\ NoteShape(u.entries[x]) /\ u.entries[x].number \in DOMAIN u.numbers
             /\ u.numbers[u.entries[x].number] = x
  <2>1. CASE x = seq
    BY <1>1, <2>1 DEF Enters
  <2>2. CASE x # seq
    <3>1. x \in DOMAIN t.entries /\ u.entries[x] = t.entries[x]
      BY <1>1, <2>2
    <3>. DEFINE n == t.entries[x].number
    <3>2. NoteShape(t.entries[x]) /\ n \in DOMAIN t.numbers /\ t.numbers[n] = x
      BY <3>1 DEF Numbered
    <3>. HIDE DEF n
    <3>3. n # e.number /\ n \in DOMAIN u.numbers /\ u.numbers[n] = x
      BY <1>1, <1>5, <3>2
    <3>. QED BY <3>1, <3>2, <3>3 DEF n
  <2>. QED BY <2>1, <2>2
<1>. QED BY <1>3, <1>4, <1>6 DEF Numbered

LEMMA EnterDated ==
  ASSUME NEW t, NEW u, NEW s, NEW r, NEW seq, NEW e, NEW n \in Nat, Enters(t, u, s, r, seq, e),
         s.blessed \in Nat, s.cursed \in Nat, Numbered(t, s), Dated(t, s, n), e.height = n
  PROVE  Dated(u, r, n)
<1>. DEFINE m == s.blessed + s.cursed
<1>1. /\ DOMAIN u.entries = DOMAIN t.entries \cup {seq}
      /\ u.entries[seq] = e /\ \A x \in DOMAIN t.entries : x # seq => u.entries[x] = t.entries[x]
      /\ u.last = t.last
  BY DEF Enters, Put
<1>0. seq \notin DOMAIN t.entries /\ m \in Nat /\ seq = m /\ r.blessed + r.cursed = m + 1
  <2>1. DOMAIN t.entries = 0..m - 1 /\ seq = m
    BY DEF Numbered, Enters
  <2>2. r.blessed + r.cursed = m + 1
    BY DEF Enters
  <2>. QED BY <2>1, <2>2
<1>. HIDE DEF m
<1>2. \A h \in 0..n - 1 : h \in DOMAIN u.last /\ u.last[h] \in 0..m
  BY <1>1 DEF Dated, m
<1>3. ASSUME NEW x \in DOMAIN u.entries
      PROVE  /\ u.entries[x].height \in 0..n
             /\ \A h \in 0..n - 1 : u.entries[x].height <= h <=> x < u.last[h]
  <2>1. CASE x = seq
    BY <1>0, <1>1, <1>2, <2>1
  <2>2. CASE x # seq
    BY <1>1, <2>2 DEF Dated
  <2>. QED BY <2>1, <2>2
<1>4. \A h \in 0..n - 1 : u.last[h] \in 0..r.blessed + r.cursed
  BY <1>0, <1>2
<1>. QED BY <1>2, <1>3, <1>4 DEF Dated

LEMMA EnterChildren ==
  ASSUME NEW t, NEW u, NEW s, NEW r, NEW seq, NEW e, Enters(t, u, s, r, seq, e),
         seq \notin DOMAIN t.entries, ChildrenAgree(t), e.parents \subseteq DOMAIN t.entries
  PROVE  ChildrenAgree(u)
<1>1. /\ DOMAIN u.entries = DOMAIN t.entries \cup {seq}
      /\ u.entries[seq] = e /\ \A x \in DOMAIN t.entries : u.entries[x] = t.entries[x]
  BY DEF Enters, Put
<1>2. /\ DOMAIN u.children = DOMAIN t.children \cup e.parents
      /\ \A p \in DOMAIN u.children : \A c :
           c \in u.children[p] <=> \/ p \in DOMAIN t.children /\ c \in t.children[p]
                                   \/ p \in e.parents /\ c = seq
  BY DEF Enters, AddTo
<1>. QED BY <1>1, <1>2 DEF ChildrenAgree

LEMMA EnterSats ==
  ASSUME NEW t, NEW u, NEW s, NEW r, NEW seq, NEW e, Enters(t, u, s, r, seq, e),
         seq \notin DOMAIN t.entries, SatsAgree(t), NEW x, e.sat = {} \/ e.sat = {x}
  PROVE  SatsAgree(u)
<1>1. /\ DOMAIN u.entries = DOMAIN t.entries \cup {seq}
      /\ u.entries[seq] = e /\ \A y \in DOMAIN t.entries : u.entries[y] = t.entries[y]
  BY DEF Enters, Put
<1>2. /\ DOMAIN u.satSeqs = DOMAIN t.satSeqs \cup e.sat
      /\ \A p \in DOMAIN u.satSeqs : \A c :
           c \in u.satSeqs[p] <=> \/ p \in DOMAIN t.satSeqs /\ c \in t.satSeqs[p]
                                  \/ p \in e.sat /\ c = seq
  BY DEF Enters, AddTo
<1>. QED BY <1>1, <1>2 DEF SatsAgree

LEMMA EnterIds ==
  ASSUME NEW t, NEW u, NEW s, NEW r, NEW seq, NEW e, Enters(t, u, s, r, seq, e), IdsEntered(t)
  PROVE  IdsEntered(u)
  BY DEF Enters, Put, IdsEntered

\* The charms of an inscription say nothing of the other tables.
LEMMA CharmsOnly ==
  ASSUME NEW t, NEW u, NEW s, NEW n, NEW seq, Indexed(t, s, n),
         u.entries = Burned(t.entries, seq),
         u.numbers = t.numbers, u.ids = t.ids, u.children = t.children,
         u.satSeqs = t.satSeqs, u.last = t.last
  PROVE  Indexed(u, s, n)
<1>1. \A x \in DOMAIN t.entries : NoteShape(t.entries[x])
  BY DEF Indexed, Numbered
<1>2. /\ DOMAIN u.entries = DOMAIN t.entries
      /\ \A x \in DOMAIN t.entries :
           /\ NoteShape(u.entries[x])
           /\ u.entries[x].number = t.entries[x].number /\ u.entries[x].id = t.entries[x].id
           /\ u.entries[x].height = t.entries[x].height /\ u.entries[x].sat = t.entries[x].sat
           /\ u.entries[x].parents = t.entries[x].parents
  <2>1. DOMAIN u.entries = DOMAIN t.entries
    BY DEF Burned
  <2>2. ASSUME NEW x \in DOMAIN t.entries
        PROVE  u.entries[x] = IF x = seq THEN [t.entries[x] EXCEPT !.charms = @ \cup {"Burned"}]
                              ELSE t.entries[x]
    BY DEF Burned
  <2>. QED BY <1>1, <2>1, <2>2 DEF NoteShape
<1>3. Numbered(u, s)
  BY <1>2 DEF Indexed, Numbered
<1>4. Dated(u, s, n)
  BY <1>2 DEF Indexed, Dated
<1>5. ChildrenAgree(u)
  BY <1>2 DEF Indexed, ChildrenAgree
<1>6. SatsAgree(u)
  BY <1>2 DEF Indexed, SatsAgree
<1>7. IdsEntered(u)
  BY <1>2 DEF Indexed, IdsEntered
<1>. QED BY <1>3, <1>4, <1>5, <1>6, <1>7 DEF Indexed

-----------------------------------------------------------------------------
(* The steps                                                                 *)

LEMMA InertListed ==
  ASSUME Listed, past' = past, chain' = chain, SameIndexes(tab, tab'), tab'.last = tab.last,
         SameCount(Count, Count'), Committing' => Committing,
         run' # Absent => IF run = Absent
                          THEN (Listed /\ past.clean) => run'.next = run'.stats.blessed + run'.stats.cursed
                          ELSE /\ run'.next = run.next /\ SameCount(run.stats, run'.stats)
  PROVE  Listed'
<1>1. \A n : (Indexed(tab, Count, n) => Indexed(tab', Count', n))
             /\ (Dated(tab, Count, n) => Dated(tab', Count', n))
  BY IndexedSame
<1>. HIDE DEF Count
<1>. QED BY <1>1 DEF Listed, SameCount

LEMMA InitListed == ASSUME Init PROVE Listed
<1>1. /\ tab = NoTables /\ run = Absent /\ block = None /\ past.tab = << >> /\ chain = << >>
  BY DEF Init
<1>2. DOMAIN past.tab = {} /\ Len(chain) = 0 /\ Count = NoStats /\ ~Committing
  BY <1>1 DEF Count, NoTables, Committing
<1>3. /\ NoTables.entries = << >> /\ NoTables.numbers = << >> /\ NoTables.ids = << >>
      /\ NoTables.children = << >> /\ NoTables.satSeqs = << >>
      /\ NoStats.blessed = 0 /\ NoStats.cursed = 0
  BY DEF NoTables, NoStats
<1>4. DOMAIN << >> = {}
  OBVIOUS
<1>5. Indexed(NoTables, NoStats, 0)
  <2>1. Numbered(NoTables, NoStats)
    BY <1>3, <1>4 DEF Numbered
  <2>. QED BY <1>3, <1>4, <2>1 DEF Indexed, Dated, ChildrenAgree, SatsAgree, IdsEntered
<1>. QED BY <1>1, <1>2, <1>5 DEF Listed

\* Max(DOMAIN tab.entries) + 1 is the number of inscriptions.
LEMMA NextIsCount ==
  ASSUME NEW m \in Nat, DOMAIN tab.entries = 0..m - 1
  PROVE  NextSequence = m
<1>1. CASE m = 0
  BY <1>1 DEF NextSequence
<1>2. CASE m # 0
  <2>. DEFINE S == DOMAIN tab.entries
  <2>1. m - 1 \in S /\ S # {} /\ S \subseteq 0..m - 1 /\ m - 1 \in Nat
    BY <1>2
  <2>. HIDE DEF S
  <2>2. Bounded(S)
    BY <2>1, BoundedSubset
  <2>3. /\ Max(S) \in S /\ Max(S) \in Nat /\ \A x \in S : x \in Nat /\ x <= Max(S)
    BY <2>1, <2>2, BoundedFacts
  <2>4. Max(S) = m - 1
    BY <2>1, <2>3
  <2>5. NextSequence = Max(S) + 1
    BY <2>1 DEF NextSequence, S
  <2>. QED BY <2>4, <2>5
<1>. QED BY <1>1, <1>2

LEMMA CountTypes ==
  ASSUME Frame
  PROVE  /\ Count.blessed \in Nat /\ Count.cursed \in Nat
         /\ (run # Absent => Count = run.stats) /\ (run = Absent => Count = tab.stats)
  BY DEF Frame, Types, TabOK, RunOK, StatsOK, Count

LEMMA BeginListed == ASSUME Frame, Listed, Begin PROVE Listed'
<1>1. /\ block # None /\ run = Absent /\ run' # Absent
      /\ run'.stats = tab.stats /\ run'.next = NextSequence
      /\ UNCHANGED <<chain, tab, block, staged, past>>
  <2>1. /\ block # None /\ run = Absent /\ run'.stats = tab.stats /\ run'.next = NextSequence
        /\ UNCHANGED <<chain, tab, block, staged, past>> /\ "tx" \in DOMAIN run'
    BY DEF Begin
  <2>. QED BY <2>1, HasFields
<1>2. Count = tab.stats /\ Count' = tab.stats
  BY <1>1 DEF Count
<1>3. tab.stats.blessed \in Nat /\ tab.stats.cursed \in Nat
  BY <1>2, CountTypes
<1>4. past.clean => NextSequence = tab.stats.blessed + tab.stats.cursed
  <2>. DEFINE m == tab.stats.blessed + tab.stats.cursed
  <2>1. ASSUME past.clean PROVE DOMAIN tab.entries = 0..m - 1
    <3>1. Numbered(tab, tab.stats)
      BY <1>2, <2>1 DEF Listed, Indexed
    <3>. QED BY <1>3, <3>1 DEF Numbered
  <2>2. m \in Nat
    BY <1>3
  <2>. HIDE DEF m
  <2>3. past.clean => NextSequence = m
    BY <2>1, <2>2, NextIsCount
  <2>. QED BY <2>3 DEF m
<1>5. SameIndexes(tab, tab') /\ SameCount(Count, Count') /\ tab'.last = tab.last
      /\ (Committing' => Committing)
  BY <1>1, <1>2 DEF SameIndexes, SameCount, Committing
<1>. QED BY <1>1, <1>4, <1>5, InertListed

LEMMA StageListed == ASSUME Frame, Listed, Stage PROVE Listed'
<1>1. /\ block = None /\ staged = NoStaged /\ run = Absent /\ run' = Absent /\ tab' = tab
      /\ chain' = chain /\ staged' = staged
      /\ \E h : past' = [past EXCEPT !.tab = Put(past.tab, h, tab)]
  BY DEF Stage, Frame, Control, Indexing
<1>2. PICK b \in Blocks : /\ block' = b /\ past' = [past EXCEPT !.tab = Put(past.tab, Height[b], tab)]
  BY DEF Stage
<1>3. Height[b] = Len(chain)
  <2>1. Linked'
    BY StageFrame DEF Frame
  <2>2. block' # None
    BY <1>2, NoneAssumption
  <2>. QED BY <1>1, <1>2, <2>1, <2>2 DEF Linked
<1>4. past'.tab = Put(past.tab, Len(chain), tab) /\ past'.clean = past.clean
  BY <1>2, <1>3 DEF Frame, Types, PastOK
<1>5. /\ DOMAIN past'.tab = DOMAIN past.tab \cup {Len(chain)}
      /\ past'.tab[Len(chain)] = tab
      /\ \A h \in DOMAIN past.tab : h # Len(chain) => past'.tab[h] = past.tab[h]
  BY <1>4 DEF Put
<1>6. ~Committing' /\ Count' = Count /\ Count = tab.stats
  BY <1>1 DEF Committing, NoStaged, Count
<1>7. TabShape(tab)
  BY DEF Frame, Types, TabOK
<1>. QED BY <1>1, <1>4, <1>5, <1>6, <1>7 DEF Listed

LEMMA FinishBlockListed == ASSUME Frame, Listed, FinishBlock PROVE Listed'
<1>1. /\ run # Absent /\ run' = Absent /\ UNCHANGED <<chain, past>>
      /\ SameIndexes(tab, tab') /\ tab'.last = Put(tab.last, H, run.next)
      /\ SameCount(run.stats, tab'.stats)
  <2>. DEFINE lost == tab.stats.lost + Len(run.lost)
  <2>1. /\ run # Absent /\ run' = Absent /\ UNCHANGED <<chain, past>>
        /\ SameIndexes(tab, tab') /\ tab'.last = Put(tab.last, H, run.next)
        /\ tab'.stats = [run.stats EXCEPT !.lost = lost]
    BY DEF FinishBlock, Frame, Types, TabOK, TabShape, SameIndexes
  <2>2. StatsOK(run.stats)
    BY <2>1 DEF Frame, Types, RunOK
  <2>. HIDE DEF lost
  <2>. QED BY <2>1, <2>2 DEF SameCount, StatsOK
<1>2. H = Len(chain) /\ Len(chain) \in Nat
  BY <1>1 DEF Frame, Control, Indexing, Linked, H
<1>3. Count = run.stats /\ Count' = tab'.stats /\ Count.blessed \in Nat /\ Count.cursed \in Nat
  BY <1>1, CountTypes DEF Count
<1>. DEFINE n == Len(chain)
            m == run.stats.blessed + run.stats.cursed
<1>4. ASSUME past.clean
      PROVE  /\ Numbered(tab, Count) /\ Dated(tab, Count, n) /\ ChildrenAgree(tab)
             /\ SatsAgree(tab) /\ IdsEntered(tab) /\ run.next = m
  BY <1>1, <1>4 DEF Listed, Indexed
<1>5. ASSUME past.clean PROVE Dated(tab', Count', n + 1) /\ Dated(tab', Count', n)
  <2>1. /\ tab'.entries = tab.entries /\ n \in DOMAIN tab'.last /\ tab'.last[n] = m
        /\ \A h \in 0..n - 1 : h \in DOMAIN tab.last => h \in DOMAIN tab'.last /\ tab'.last[h] = tab.last[h]
    BY <1>1, <1>2, <1>4, <1>5 DEF SameIndexes, Put
  <2>2. m \in Nat /\ Count'.blessed + Count'.cursed = m /\ Count.blessed + Count.cursed = m
    BY <1>1, <1>3 DEF SameCount
  <2>3. \A seq \in DOMAIN tab.entries : seq < m /\ tab.entries[seq].height \in 0..n
    <3>1. \A seq \in DOMAIN tab.entries : seq < Count.blessed + Count.cursed
      BY <1>3, <1>4, <1>5, BelowCount
    <3>2. \A seq \in DOMAIN tab.entries : tab.entries[seq].height \in 0..n
      BY <1>4, <1>5 DEF Dated
    <3>3. Count.blessed + Count.cursed = m
      BY <2>2
    <3>. HIDE DEF n, m
    <3>. QED BY <3>1, <3>2, <3>3
  <2>. HIDE DEF n, m
  <2>4. /\ \A h \in 0..n - 1 : h \in DOMAIN tab'.last /\ tab'.last[h] \in 0..m
        /\ \A seq \in DOMAIN tab.entries : \A h \in 0..n - 1 : tab.entries[seq].height <= h <=> seq < tab'.last[h]
    <3>1. /\ \A h \in 0..n - 1 : h \in DOMAIN tab.last /\ tab.last[h] \in 0..Count.blessed + Count.cursed
          /\ \A seq \in DOMAIN tab.entries : \A h \in 0..n - 1 : tab.entries[seq].height <= h <=> seq < tab.last[h]
      BY <1>4, <1>5 DEF Dated, n
    <3>2. \A h \in 0..n - 1 : h \in DOMAIN tab'.last /\ tab'.last[h] = tab.last[h]
      BY <2>1, <3>1
    <3>3. 0..Count.blessed + Count.cursed = 0..m
      BY <2>2
    <3>. QED BY <3>1, <3>2, <3>3
  <2>5. n \in Nat
    BY <1>2 DEF n
  <2>6. Dated(tab', Count', n)
    BY <2>1, <2>2, <2>3, <2>4 DEF Dated
  <2>7. \A h \in 0..n : h = n \/ h \in 0..n - 1
    BY <2>5
  <2>8. \A seq \in DOMAIN tab.entries : tab.entries[seq].height <= n /\ tab.entries[seq].height \in 0..n + 1
    BY <2>3, <2>5
  <2>9. Dated(tab', Count', n + 1)
    <3>1. 0..(n + 1) - 1 = 0..n
      BY <2>5
    <3>2. \A h \in 0..n : h \in DOMAIN tab'.last /\ tab'.last[h] \in 0..m
      BY <2>1, <2>2, <2>4, <2>7
    <3>3. ASSUME NEW seq \in DOMAIN tab.entries, NEW h \in 0..n
          PROVE  tab.entries[seq].height <= h <=> seq < tab'.last[h]
      BY <2>1, <2>3, <2>4, <2>7, <2>8
    <3>. QED BY <2>1, <2>2, <2>8, <3>1, <3>2, <3>3 DEF Dated
  <2>. QED BY <2>6, <2>9
<1>6. ASSUME past.clean
      PROVE  Numbered(tab', Count') /\ ChildrenAgree(tab') /\ SatsAgree(tab') /\ IdsEntered(tab')
  BY <1>1, <1>3, <1>4, <1>6 DEF SameIndexes, SameCount, Numbered, ChildrenAgree, SatsAgree, IdsEntered
<1>. QED BY <1>1, <1>5, <1>6 DEF Listed, Indexed

LEMMA BreakListed == ASSUME Frame, Listed, Break PROVE Listed'
<1>1. /\ block # None /\ Indexing /\ run # Absent /\ run' = Absent /\ tab'.last = Put(tab.last, H, run.next)
      /\ SameIndexes(tab, tab') /\ tab'.stats = [run.stats EXCEPT !.lost = tab.stats.lost]
      /\ UNCHANGED <<staged, block, chain, past>>
  BY DEF Break, BreakInputs, BreakOutputs, BreakLocations, AtInput, Placeable, AtOutputs,
         AtLocations, Suspend, Frame, Types, TabOK, TabShape, Control, Indexing, SameIndexes
<1>2. SameCount(run.stats, tab'.stats)
  <2>1. StatsOK(run.stats)
    BY <1>1 DEF Frame, Types, RunOK
  <2>. QED BY <1>1, <2>1 DEF SameCount, StatsOK
<1>3. H = Len(chain) /\ Len(chain) \in Nat
  BY <1>1 DEF Frame, Linked, H
<1>4. Count = run.stats /\ Count' = tab'.stats
  BY <1>1 DEF Count
<1>5. \A h \in 0..Len(chain) - 1 : h \in DOMAIN tab.last => h \in DOMAIN tab'.last /\ tab'.last[h] = tab.last[h]
  BY <1>1, <1>3 DEF Put
<1>6. Dated(tab, Count, Len(chain)) => Dated(tab', Count', Len(chain))
  BY <1>1, <1>2, <1>4, <1>5 DEF Dated, SameIndexes, SameCount
<1>7. Numbered(tab, Count) => Numbered(tab', Count')
  BY <1>1, <1>2, <1>4 DEF Numbered, SameIndexes, SameCount
<1>8. /\ ChildrenAgree(tab) => ChildrenAgree(tab')
      /\ SatsAgree(tab) => SatsAgree(tab')
      /\ IdsEntered(tab) => IdsEntered(tab')
  BY <1>1 DEF ChildrenAgree, SatsAgree, IdsEntered, SameIndexes
<1>9. ~Committing'
  BY <1>1 DEF Indexing, Committing
<1>. HIDE DEF Count
<1>10. Indexed(tab, Count, Len(chain)) => Indexed(tab', Count', Len(chain))
  BY <1>6, <1>7, <1>8 DEF Indexed
<1>. QED BY <1>1, <1>9, <1>10 DEF Listed

LEMMA CommitListed == ASSUME Frame, Listed, CommitOutput \/ CommitInscription PROVE Listed'
<1>1. /\ SameIndexes(tab, tab') /\ tab'.last = tab.last /\ tab'.stats = tab.stats
      /\ UNCHANGED <<block, chain, past, run>> /\ Committing
  BY DEF CommitOutput, CommitInscription, Frame, Types, TabOK, TabShape, SameIndexes
<1>2. run = Absent
  BY <1>1 DEF Frame, Control, Indexing, Committing
<1>3. SameCount(Count, Count')
  BY <1>1 DEF SameCount, Count
<1>. QED BY <1>1, <1>2, <1>3, InertListed

LEMMA SaveListed == ASSUME Frame, Listed, Save PROVE Listed'
<1>1. /\ Committing /\ block' = None /\ chain' = Append(chain, block) /\ UNCHANGED <<tab, run, past>>
  BY DEF Save
<1>2. chain \in Seq(Blocks) /\ block \in Blocks /\ run = Absent
  BY <1>1 DEF Committing, Frame, Linked, Control, Indexing
<1>3. Len(chain') = Len(chain) + 1
  BY <1>1, <1>2
<1>4. Count' = Count /\ ~Committing'
  BY <1>1 DEF Count, Committing
<1>. QED BY <1>1, <1>2, <1>3, <1>4 DEF Listed, Indexed

LEMMA HandleReorgListed == ASSUME Frame, Listed, HandleReorg PROVE Listed'
<1>1. PICK n \in 1..MaxUndo :
        /\ n <= Len(chain) - 1
        /\ chain' = SubSeq(chain, 1, Len(chain) - 1 - n + 1)
        /\ past' = [tab |-> Drop(past.tab, Len(chain) - 1 - n + 1 .. Len(chain) - 1),
                    reorgs |-> past.reorgs + 1,
                    clean |-> past.clean /\ Plain(tab') = Plain(past.tab[Len(chain) - 1 - n + 1])]
  BY DEF HandleReorg
<1>2. /\ block = None /\ block' = None /\ run' = Absent
  BY DEF HandleReorg, Frame, Control, Indexing
<1>3. n \in Nat /\ Len(chain) \in Nat /\ chain \in Seq(Blocks) /\ DOMAIN past.tab = 0..Len(chain) - 1
  BY <1>2, UndoAssumption DEF Frame, Linked
<1>. DEFINE m == Len(chain) - n
<1>4. /\ m \in DOMAIN past.tab /\ Len(chain') = m /\ Len(chain) - 1 - n + 1 = m
  BY <1>1, <1>3
<1>5. /\ DOMAIN past'.tab \subseteq DOMAIN past.tab /\ \A h \in DOMAIN past'.tab : past'.tab[h] = past.tab[h]
      /\ past'.clean => past.clean /\ Plain(tab') = Plain(past.tab[m])
  BY <1>1, <1>4 DEF Drop
<1>. HIDE DEF m
<1>6. TabShape(tab') /\ TabShape(past.tab[m])
  BY <1>4, HandleReorgFrame DEF Frame, Types, TabOK, Listed
<1>7. past'.clean => /\ SameIndexes(past.tab[m], tab') /\ tab'.last = past.tab[m].last
                     /\ tab'.stats = past.tab[m].stats
  BY <1>5, <1>6 DEF Plain, TabShape, SameIndexes
<1>8. Count' = tab'.stats /\ ~Committing'
  BY <1>2 DEF Count, Committing
<1>9. past'.clean => Indexed(past.tab[m], past.tab[m].stats, m)
  BY <1>4, <1>5 DEF Listed
<1>10. past'.clean => Indexed(tab', Count', m)
  BY <1>7, <1>8, <1>9, IndexedSame DEF SameCount
<1>. QED BY <1>2, <1>4, <1>5, <1>8, <1>10 DEF Listed

\* Flotsam f comes down on outpoint o, in a transaction of block H.
LEMMA SettleListed ==
  ASSUME Frame, Listed, block # None, Indexing, run # Absent, UNCHANGED <<chain, past, block>>,
         NEW f, FlotsamOK(f), NEW o, NEW burn, NEW cache,
         IF f.new = Absent THEN Transfer(f, burn, cache) ELSE Inscribe(f, o, burn, cache),
         run' # Absent
  PROVE  Listed'
<1>1. TabOK(tab) /\ StagedOK(staged) /\ RunOK(run) /\ H = Len(chain) /\ H \in Nat
  BY DEF Frame, Types, Linked, H
<1>2. Count = run.stats /\ Count' = run'.stats /\ Count.blessed \in Nat /\ Count.cursed \in Nat
  BY CountTypes DEF Count
<1>3. CASE f.new = Absent
  <2>0. Transfer(f, burn, cache) /\ TabOK(tab) /\ StagedOK(staged)
    BY <1>1, <1>3
  <2>1. /\ tab'.entries = IF burn THEN Burned(tab.entries, f.seq) ELSE tab.entries
        /\ tab'.numbers = tab.numbers /\ tab'.satSeqs = tab.satSeqs
        /\ tab'.children = tab.children /\ tab'.ids = tab.ids /\ tab'.last = tab.last
        /\ staged'.state = staged.state /\ run' = run
    <3>1. Transfers(f, burn, cache)
      BY <2>0, TransferFacts
    <3>. QED BY <3>1 DEF Transfers
  <2>2. Indexed(tab, Count, Len(chain)) => Indexed(tab', Count', Len(chain))
    <3>1. CASE burn
      <4>1. tab'.entries = Burned(tab.entries, f.seq)
        BY <2>1, <3>1
      <4>2. Count' = Count
        BY <1>2, <2>1
      <4>. HIDE DEF Count
      <4>. QED BY <2>1, <4>1, <4>2, CharmsOnly
    <3>2. CASE ~burn
      <4>1. SameIndexes(tab, tab') /\ Count' = Count
        BY <1>2, <2>1, <3>2 DEF SameIndexes
      <4>. HIDE DEF Count
      <4>. QED BY <2>1, <4>1, IndexedSame DEF SameCount
    <3>. QED BY <3>1, <3>2
  <2>3. ~Committing'
    BY <2>1 DEF Indexing, Committing
  <2>. QED BY <2>1, <2>2, <2>3 DEF Listed
<1>4. CASE f.new # Absent
  <2>. DEFINE e == NewEntry(f, o, burn)
              n == Len(chain)
  <2>1. /\ f.new.parents \subseteq DOMAIN tab.ids
        /\ tab'.numbers = Put(tab.numbers, NewNumber(f), run.next)
        /\ tab'.satSeqs = AddTo(tab.satSeqs, NewSats(f), run.next)
        /\ tab'.children = AddTo(tab.children, NewParents(f), run.next)
        /\ tab'.entries = Put(tab.entries, run.next, e)
        /\ tab'.ids = Put(tab.ids, f.id, run.next)
        /\ tab'.last = tab.last
        /\ staged'.state = staged.state
        /\ run'.next = run.next + 1
        /\ run'.stats.cursed = IF f.new.cursed THEN run.stats.cursed + 1 ELSE run.stats.cursed
        /\ run'.stats.blessed = IF f.new.cursed THEN run.stats.blessed ELSE run.stats.blessed + 1
    <3>1. Inscribes(f, o, burn, cache)
      BY <1>1, <1>4, InscribeFacts
    <3>. QED BY <3>1 DEF Inscribes
  <2>2. /\ NoteShape(e) /\ e.number = NewNumber(f) /\ e.sat = NewSats(f) /\ e.parents = NewParents(f)
        /\ e.id = f.id /\ e.height = n
    BY <1>1 DEF NewEntry, NoteShape
  <2>. HIDE DEF e
  <2>3. ~Committing'
    BY <2>1 DEF Indexing, Committing
  <2>4. CASE ~past.clean
    BY <2>3, <2>4 DEF Listed
  <2>5. CASE past.clean
    <3>1. Enters(tab, tab', run.stats, run'.stats, run.next, e)
      <4>1. run.next = run.stats.blessed + run.stats.cursed
        BY <2>5 DEF Listed
      <4>2. CASE f.new.cursed
        BY <1>2, <2>1, <2>2, <4>1, <4>2 DEF Enters, NewNumber
      <4>3. CASE ~f.new.cursed
        BY <1>2, <2>1, <2>2, <4>1, <4>3 DEF Enters, NewNumber
      <4>. QED BY <4>2, <4>3
    <3>2. /\ Numbered(tab, run.stats) /\ Dated(tab, run.stats, n) /\ ChildrenAgree(tab)
          /\ SatsAgree(tab) /\ IdsEntered(tab)
      BY <1>2, <2>5 DEF Listed, Indexed
    <3>3. n \in Nat /\ run.stats.blessed \in Nat /\ run.stats.cursed \in Nat
      BY <1>1, <1>2
    <3>. HIDE DEF n
    <3>4. run.next \notin DOMAIN tab.entries
      BY <3>1, <3>2, <3>3 DEF Numbered, Enters
    <3>5. e.parents \subseteq DOMAIN tab.entries
      BY <2>1, <2>2, <3>2 DEF NewParents, IdsEntered
    <3>6. e.sat = {} \/ e.sat = {tx.inSats[f.offset + 1]}
      BY <2>2 DEF NewSats
    <3>7. Numbered(tab', run'.stats)
      BY <3>1, <3>2, <3>3, EnterNumbered
    <3>8. Dated(tab', run'.stats, n)
      BY <2>2, <3>1, <3>2, <3>3, EnterDated
    <3>9. ChildrenAgree(tab')
      BY <3>1, <3>2, <3>4, <3>5, EnterChildren
    <3>10. SatsAgree(tab')
      BY <3>1, <3>2, <3>4, <3>6, EnterSats
    <3>11. IdsEntered(tab')
      BY <3>1, <3>2, EnterIds
    <3>12. run'.next = run'.stats.blessed + run'.stats.cursed
      BY <2>1, <3>1, <3>3 DEF Enters
    <3>13. Indexed(tab', Count', Len(chain'))
      BY <1>2, <3>7, <3>8, <3>9, <3>10, <3>11 DEF Indexed, n
    <3>. QED BY <2>3, <3>12, <3>13 DEF Listed
  <2>. QED BY <2>4, <2>5
<1>. QED BY <1>3, <1>4

LEMMA TransactionListed == ASSUME Frame, Listed, Transaction PROVE Listed'
<1>1. CASE Locate \/ Lose
  BY <1>1, SettlesOne, SettleListed DEF Settled
<1>2. CASE Spend
  <2>1. /\ run # Absent /\ SameIndexes(tab, tab') /\ UNCHANGED <<chain, block, past>>
        /\ run'.next = run.next /\ run'.stats = run.stats
    BY <1>2 DEF Spend, Frame, Types, TabOK, TabShape, RunOK, RunShape, SameIndexes
  <2>2. /\ tab'.last = tab.last /\ staged'.state = staged.state
    BY <1>2, TransactionLasts DEF Transaction
  <2>3. run' # Absent
    <3>1. "tx" \in DOMAIN run /\ DOMAIN run' = DOMAIN run
      BY <1>2, <2>1 DEF Spend, Frame, Types, RunOK, RunShape
    <3>. QED BY <3>1, HasFields
  <2>4. SameCount(Count, Count') /\ (Committing' => Committing) /\ SameCount(run.stats, run'.stats)
    BY <2>1, <2>2, <2>3 DEF Count, SameCount, Committing
  <2>. QED BY <2>1, <2>2, <2>4, InertListed
<1>3. CASE FinishTransaction
  <2>1. /\ run # Absent /\ UNCHANGED <<chain, block, past, tab>>
        /\ run'.next = run.next /\ SameCount(run.stats, run'.stats)
    <3>1. UNCHANGED <<chain, block, past, tab>> /\ run # Absent /\ RunOK(run)
      BY <1>3 DEF FinishTransaction, Frame, Types
    <3>. DEFINE next == [run EXCEPT !.tx = run.tx + 1]
                lost == run.stats.lost + run.reward - tx.outValue
                stats == [run.stats EXCEPT !.lost = lost]
                rest == [i \in DOMAIN tx.queue |->
                           [tx.queue[i] EXCEPT !.offset = run.reward + @ - tx.outValue]]
                flotsam == run.flotsam \o rest
                reward == run.reward + tx.inValue - tx.outValue
    <3>2. \/ run' = [next EXCEPT !.stats.lost = lost]
          \/ run' = [next EXCEPT !.flotsam = flotsam, !.reward = reward]
      BY <1>3, <3>1 DEF FinishTransaction, RunOK, RunShape
    <3>. HIDE DEF lost, flotsam, reward
    <3>3. next.stats = run.stats /\ next.next = run.next /\ DOMAIN next = DOMAIN run
      BY <3>1 DEF RunOK, RunShape
    <3>4. \/ run' = [next EXCEPT !.stats = stats]
          \/ run' = [next EXCEPT !.flotsam = flotsam, !.reward = reward]
      BY <3>2, <3>3
    <3>5. SameCount(run.stats, stats)
      BY <3>1 DEF SameCount, RunOK, StatsOK
    <3>. HIDE DEF next, stats
    <3>. QED BY <3>1, <3>3, <3>4, <3>5 DEF RunOK, RunShape, SameCount
  <2>2. staged'.state = staged.state
    BY <1>3, TransactionLasts DEF Transaction
  <2>3. run' # Absent
    <3>1. "tx" \in DOMAIN run /\ DOMAIN run' = DOMAIN run
      BY <1>3, <2>1 DEF FinishTransaction, Frame, Types, RunOK, RunShape
    <3>. QED BY <3>1, HasFields
  <2>4. SameCount(Count, Count') /\ (Committing' => Committing) /\ SameIndexes(tab, tab')
    BY <2>1, <2>2, <2>3 DEF Count, SameCount, Committing, SameIndexes
  <2>. QED BY <2>1, <2>4, InertListed
<1>4. CASE Continue \/ Take \/ FinishInput \/ FinishInputs
           \/ Place \/ NextOutput \/ FinishOutputs \/ FinishLocations
  <2>1. /\ run # Absent /\ UNCHANGED <<chain, block, past, tab, staged>>
        /\ run'.next = run.next /\ run'.stats = run.stats /\ DOMAIN run' = DOMAIN run
    BY <1>4 DEF Continue, Take, FinishInput, FinishInputs, Place, NextOutput, FinishOutputs,
                FinishLocations, AtInput, Placeable, AtOutputs, AtLocations, Frame, Types,
                RunOK, RunShape
  <2>2. run' # Absent
    <3>1. "tx" \in DOMAIN run
      BY <2>1 DEF Frame, Types, RunOK, RunShape
    <3>. QED BY <2>1, <3>1, HasFields
  <2>3. SameCount(Count, Count') /\ (Committing' => Committing) /\ SameIndexes(tab, tab')
        /\ SameCount(run.stats, run'.stats)
    BY <2>1, <2>2 DEF Count, SameCount, Committing, SameIndexes
  <2>. QED BY <2>1, <2>3, InertListed
<1>. QED BY <1>1, <1>2, <1>3, <1>4 DEF Transaction

LEMMA NextListed == ASSUME Frame, Listed, [Next]_vars PROVE Listed'
<1>1. CASE UNCHANGED vars
  <2>1. /\ UNCHANGED <<past, chain, tab, run, block, staged>>
    BY <1>1 DEF vars
  <2>2. Count' = Count /\ Committing' = Committing
    BY <2>1 DEF Count, Committing
  <2>. QED BY <2>1, <2>2 DEF Listed
<1>. QED BY <1>1, StageListed, BeginListed, TransactionListed, BreakListed, FinishBlockListed,
            CommitListed, SaveListed, HandleReorgListed DEF Next

\* However messages end and blocks are rolled back, while the rollbacks are
\* exact: entries by sequence number, numbers and heights are dense and in
\* order, in the tables and in those of before each block (mem_get_next_sequence_number,
\* update_inscription_location, handle_reorg).
THEOREM ListedHolds == Spec => []Listed
<1>1. Init => Listed
  BY InitListed
<1>2. Frame /\ Listed /\ [Next]_vars => Listed'
  BY NextListed
<1>. QED BY <1>1, <1>2, FrameHolds, PTL DEF Spec

\* Children and the inscriptions on each sat are in the secondary indexes as
\* the entries have them (update_inscription_location, handle_reorg).
THEOREM SecondaryIndexes == Spec => []SecondaryIndexesAgree
<1>1. Frame /\ Listed => SecondaryIndexesAgree
  <2>. SUFFICES ASSUME Frame, Listed, Between PROVE ChildrenAgree(tab) /\ SatsAgree(tab)
    BY DEF SecondaryIndexesAgree, ChildrenAgree, SatsAgree, Inscribed
  <2>. QED BY DEF Listed, Between, Indexed
<1>. QED BY <1>1, FrameHolds, ListedHolds, PTL

-----------------------------------------------------------------------------
(* What a change record r of height h says of the tables b before the block   *)
(* and a after it, or in its middle                                          *)

\* g has the entries of f and those of the keys in S, which may replace some.
Grown(f, g, S) ==
  /\ DOMAIN f \subseteq DOMAIN g
  /\ \A x \in DOMAIN g : x \in S \/ (x \in DOMAIN f /\ g[x] = f[x])

Without(f, S) == \A x \in S : x \notin DOMAIN f

\* g has the pairs of f and those of P, which are new.
Added(f, g, P) ==
  /\ \A k \in DOMAIN f : f[k] # {} /\ k \in DOMAIN g /\ \A v \in f[k] : v \in g[k]
  /\ \A k \in DOMAIN g : \A v \in g[k] : (k \in DOMAIN f /\ v \in f[k]) \/ <<k, v>> \in P
  /\ \A k \in DOMAIN f : \A v \in f[k] : <<k, v>> \notin P

\* g has the outputs of f that are not in removed, and new ones in O.
Spends(f, g, O, removed) ==
  /\ \A o \in O : o \in DOMAIN g
  /\ \A o \in DOMAIN g : o \in O \/ (o \in DOMAIN f /\ g[o] = f[o])
  /\ \A o \in DOMAIN f : o \in DOMAIN g \/ <<o, f[o]>> \in removed
  /\ \A p \in removed : p = <<p[1], p[2]>> /\ p[1] \in DOMAIN f /\ f[p[1]] = p[2]

Reverts(b, a, h, r) ==
  /\ Grown(b.entries, a.entries, r.entries)
  /\ Grown(b.ids, a.ids, r.ids) /\ Without(b.ids, r.ids)
  /\ Grown(b.numbers, a.numbers, r.numbers) /\ Without(b.numbers, r.numbers)
  /\ Grown(b.last, a.last, {h}) /\ Without(b.last, {h})
  /\ Added(b.satSeqs, a.satSeqs, r.satSeqs)
  /\ Added(b.children, a.children, r.children)
  /\ Spends(b.utxo, a.utxo, r.outpoints, r.removed) /\ Without(b.utxo, r.outpoints \ Special)

\* The tables are maps.
Maps(t) ==
  /\ t.entries = [x \in DOMAIN t.entries |-> t.entries[x]]
  /\ t.ids = [x \in DOMAIN t.ids |-> t.ids[x]]
  /\ t.numbers = [x \in DOMAIN t.numbers |-> t.numbers[x]]
  /\ t.last = [x \in DOMAIN t.last |-> t.last[x]]
  /\ t.satSeqs = [x \in DOMAIN t.satSeqs |-> t.satSeqs[x]]
  /\ t.children = [x \in DOMAIN t.children |-> t.children[x]]
  /\ t.utxo = [x \in DOMAIN t.utxo |-> t.utxo[x]]

LEMMA DropGrown ==
  ASSUME NEW f, NEW g, NEW S, f = [x \in DOMAIN f |-> f[x]], Grown(f, g, S), Without(f, S)
  PROVE  Drop(g, S) = f
<1>1. DOMAIN g \ S = DOMAIN f
  BY DEF Grown, Without
<1>2. \A x \in DOMAIN f : g[x] = f[x]
  BY DEF Grown, Without
<1>. QED BY <1>1, <1>2 DEF Drop

LEMMA TakeAdded ==
  ASSUME NEW f, NEW g, NEW P, f = [x \in DOMAIN f |-> f[x]], Added(f, g, P)
  PROVE  TakeFrom(g, P) = f
<1>. DEFINE left(k) == {v \in g[k] : <<k, v>> \notin P}
<1>1. \A k \in DOMAIN f : k \in DOMAIN g /\ left(k) = f[k] /\ f[k] # {}
  BY DEF Added
<1>2. \A k \in DOMAIN g : k \notin DOMAIN f => left(k) = {}
  BY DEF Added
<1>3. TakeFrom(g, P) = [k \in {j \in DOMAIN g : left(j) # {}} |-> left(k)]
  BY DEF TakeFrom
<1>. HIDE DEF left
<1>4. {j \in DOMAIN g : left(j) # {}} = DOMAIN f
  BY <1>1, <1>2
<1>. QED BY <1>1, <1>3, <1>4

LEMMA PutBackSpent ==
  ASSUME NEW f, NEW g, NEW O, NEW removed, f = [x \in DOMAIN f |-> f[x]],
         Spends(f, g, O, removed), Without(f, O)
  PROVE  PutAll(Drop(g, O), [o \in {p[1] : p \in removed} |->
                               (CHOOSE p \in removed : p[1] = o)[2]]) = f
<1>. DEFINE K == {p[1] : p \in removed}
            back == [o \in K |-> (CHOOSE p \in removed : p[1] = o)[2]]
            rest == Drop(g, O)
<1>1. \A o \in K : o \in DOMAIN f /\ back[o] = f[o]
  <2>. SUFFICES ASSUME NEW o \in K PROVE o \in DOMAIN f /\ back[o] = f[o]
    OBVIOUS
  <2>1. \E p \in removed : p[1] = o
    OBVIOUS
  <2>. DEFINE q == CHOOSE p \in removed : p[1] = o
  <2>2. q \in removed /\ q[1] = o
    BY <2>1
  <2>3. back[o] = q[2]
    OBVIOUS
  <2>. HIDE DEF q, K
  <2>. QED BY <2>2, <2>3 DEF Spends
<1>2. \A o \in DOMAIN f : o \in K \/ o \in DOMAIN g
  <2>. SUFFICES ASSUME NEW o \in DOMAIN f, <<o, f[o]>> \in removed PROVE o \in K
    BY DEF Spends
  <2>1. <<o, f[o]>>[1] = o
    OBVIOUS
  <2>. QED BY <2>1
<1>3. DOMAIN back = K
  OBVIOUS
<1>. HIDE DEF K, back
<1>4. /\ DOMAIN rest = DOMAIN g \ O
      /\ \A o \in DOMAIN rest : o \in DOMAIN f /\ rest[o] = f[o]
  BY DEF Drop, Spends
<1>5. \A o \in DOMAIN f : o \in K \/ o \in DOMAIN rest
  BY <1>2, <1>4 DEF Without
<1>. HIDE DEF rest
<1>6. DOMAIN rest \cup K = DOMAIN f
  BY <1>1, <1>4, <1>5
<1>7. PutAll(rest, back) = [x \in DOMAIN f |-> IF x \in K THEN back[x] ELSE rest[x]]
  BY <1>3, <1>6 DEF PutAll
<1>8. \A x \in DOMAIN f : (IF x \in K THEN back[x] ELSE rest[x]) = f[x]
  BY <1>1, <1>4, <1>5
<1>9. PutAll(rest, back) = f
  BY <1>7, <1>8
<1>. QED BY <1>9 DEF rest, back, K

-----------------------------------------------------------------------------
(* Undoing one record                                                        *)

\* The outputs that were removed.
Restored(removed) == [o \in {p[1] : p \in removed} |-> (CHOOSE p \in removed : p[1] = o)[2]]

\* u is t with the record undone.
UndoesOne(t, h, r, u) ==
  /\ u.entries = Drop(t.entries, r.entries) /\ u.ids = Drop(t.ids, r.ids)
  /\ u.numbers = Drop(t.numbers, r.numbers) /\ u.last = Drop(t.last, {h})
  /\ u.satSeqs = TakeFrom(t.satSeqs, r.satSeqs)
  /\ u.children = TakeFrom(t.children, r.children)
  /\ u.utxo = PutAll(Drop(t.utxo, r.outpoints), Restored(r.removed))
  /\ u.stats = r.stats
  /\ u.points = Drop(t.points, r.points) /\ u.satPoints = Drop(t.satPoints, r.satPoints)

LEMMA UndoFields ==
  ASSUME NEW t, TabShape(t), NEW h, NEW r
  PROVE  TabShape(Undo(t, h, r)) /\ UndoesOne(t, h, r, Undo(t, h, r))
<1>. DEFINE u == Undo(t, h, r)
            utxo == PutAll(Drop(t.utxo, r.outpoints), Restored(r.removed))
            satSeqs == TakeFrom(t.satSeqs, r.satSeqs)
            children == TakeFrom(t.children, r.children)
            ids == Drop(t.ids, r.ids)
            numbers == Drop(t.numbers, r.numbers)
            satPoints == Drop(t.satPoints, r.satPoints)
            entries == Drop(t.entries, r.entries)
            points == Drop(t.points, r.points)
            last == Drop(t.last, {h})
<1>1. u = [t EXCEPT !.satSeqs = satSeqs, !.children = children, !.ids = ids, !.numbers = numbers,
                    !.utxo = utxo, !.satPoints = satPoints, !.entries = entries,
                    !.points = points, !.stats = r.stats, !.last = last]
  BY DEF Undo, Restored
<1>. HIDE DEF u, utxo, satSeqs, children, ids, numbers, satPoints, entries, points, last
<1>2. /\ TabShape(u) /\ u.entries = entries /\ u.ids = ids /\ u.numbers = numbers /\ u.last = last
      /\ u.satSeqs = satSeqs /\ u.children = children /\ u.utxo = utxo /\ u.stats = r.stats
      /\ u.points = points /\ u.satPoints = satPoints
  BY <1>1 DEF TabShape
<1>3. UndoesOne(t, h, r, u)
  BY <1>2 DEF UndoesOne, utxo, satSeqs, children, ids, numbers, satPoints, entries, points, last
<1>. QED BY <1>2, <1>3 DEF u

\* Tables that agree but for the satpoints.
Alike(t, u) ==
  /\ u.entries = t.entries /\ u.ids = t.ids /\ u.numbers = t.numbers /\ u.last = t.last
  /\ u.satSeqs = t.satSeqs /\ u.children = t.children /\ u.utxo = t.utxo /\ u.stats = t.stats

LEMMA PlainFields ==
  ASSUME NEW t, TabShape(t)
  PROVE  /\ TabShape(Plain(t)) /\ Alike(t, Plain(t))
         /\ Plain(t).points = << >> /\ Plain(t).satPoints = << >>
<1>. DEFINE n == << >>
            u == Plain(t)
<1>1. u = [t EXCEPT !.points = n, !.satPoints = n]
  BY DEF Plain
<1>. HIDE DEF n, u
<1>2. /\ TabShape(u) /\ u.entries = t.entries /\ u.ids = t.ids /\ u.numbers = t.numbers
      /\ u.last = t.last /\ u.satSeqs = t.satSeqs /\ u.children = t.children
      /\ u.utxo = t.utxo /\ u.stats = t.stats /\ u.points = n /\ u.satPoints = n
  BY <1>1 DEF TabShape
<1>. QED BY <1>2 DEF Alike, n, u

LEMMA AlikePlain ==
  ASSUME NEW t, NEW u, TabShape(t), TabShape(u)
  PROVE  Plain(t) = Plain(u) <=> Alike(t, u)
<1>. DEFINE p == Plain(t)
            q == Plain(u)
<1>1. /\ TabShape(p) /\ Alike(t, p) /\ p.points = << >> /\ p.satPoints = << >>
      /\ TabShape(q) /\ Alike(u, q) /\ q.points = << >> /\ q.satPoints = << >>
  BY PlainFields
<1>. HIDE DEF p, q
<1>2. ASSUME Alike(t, u) PROVE p = q
  <2>1. /\ p.entries = q.entries /\ p.ids = q.ids /\ p.numbers = q.numbers /\ p.last = q.last
        /\ p.satSeqs = q.satSeqs /\ p.children = q.children /\ p.utxo = q.utxo
        /\ p.stats = q.stats /\ p.points = q.points /\ p.satPoints = q.satPoints
    BY <1>1, <1>2 DEF Alike
  <2>. QED BY <1>1, <2>1 DEF TabShape
<1>3. ASSUME p = q PROVE Alike(t, u)
  BY <1>1, <1>3 DEF Alike
<1>. QED BY <1>2, <1>3 DEF p, q

\* A record brings back what the block changed, if it listed nothing that was
\* there before.
LEMMA UndoExact ==
  ASSUME NEW b, NEW a, NEW h, NEW r, TabShape(b), TabShape(a), Maps(b), Reverts(b, a, h, r),
         Without(b.entries, r.entries), r.outpoints \cap Special = {}, r.stats = b.stats
  PROVE  Alike(b, Undo(a, h, r))
<1>1. Drop(a.entries, r.entries) = b.entries /\ Drop(a.ids, r.ids) = b.ids
      /\ Drop(a.numbers, r.numbers) = b.numbers /\ Drop(a.last, {h}) = b.last
  BY DropGrown DEF Reverts, Maps
<1>2. TakeFrom(a.satSeqs, r.satSeqs) = b.satSeqs /\ TakeFrom(a.children, r.children) = b.children
  BY TakeAdded DEF Reverts, Maps
<1>3. PutAll(Drop(a.utxo, r.outpoints), Restored(r.removed)) = b.utxo
  <2>1. Without(b.utxo, r.outpoints)
    BY DEF Reverts, Without
  <2>. QED BY <2>1, PutBackSpent DEF Reverts, Maps, Restored
<1>4. UndoesOne(a, h, r, Undo(a, h, r))
  BY UndoFields
<1>. QED BY <1>1, <1>2, <1>3, <1>4 DEF Alike, UndoesOne

\* Satpoints do not matter to the rest.
LEMMA UndoAlike ==
  ASSUME NEW t, NEW u, NEW h, NEW r, TabShape(t), TabShape(u), Alike(t, u)
  PROVE  Alike(Undo(t, h, r), Undo(u, h, r))
<1>1. UndoesOne(t, h, r, Undo(t, h, r)) /\ UndoesOne(u, h, r, Undo(u, h, r))
  BY UndoFields
<1>. QED BY <1>1 DEF Alike, UndoesOne

-----------------------------------------------------------------------------
(* New inscriptions have ids of transactions of the block                    *)

NewIn(s, X) == \A i \in DOMAIN s : s[i].new = Absent \/ s[i].id[1] \in X
LandedIn(s, X) == \A i \in DOMAIN s : s[i].flotsam.new = Absent \/ s[i].flotsam.id[1] \in X

TxNew(t, X) == NewIn(t.floating, X) /\ NewIn(t.queue, X) /\ LandedIn(t.located, X)
SavedNew(s, X) ==
  /\ s.block # Absent => NewIn(s.block.flotsam, X)
  /\ s.in1 # Absent => NewIn(s.in1.floating, X)
  /\ s.in2 # Absent => NewIn(s.in2.queue, X) /\ LandedIn(s.in2.located, X)
  /\ s.in3 # Absent => NewIn(s.in3.queue, X) /\ LandedIn(s.in3.located, X)

NewHere ==
  /\ run # Absent => NewIn(run.flotsam, TxIds(block))
  /\ tx # Absent => TxNew(tx, TxIds(block))
  /\ SavedNew(saved, TxIds(block))

LEMMA NothingNew == \A X : NewIn(<< >>, X) /\ LandedIn(<< >>, X)
  BY DEF NewIn, LandedIn

LEMMA AppendNew ==
  ASSUME NEW s, IsSeq(s), NEW f, NEW X
  PROVE  /\ NewIn(s, X) /\ (f.new = Absent \/ f.id[1] \in X) => NewIn(Append(s, f), X)
         /\ LandedIn(s, X) /\ (f.flotsam.new = Absent \/ f.flotsam.id[1] \in X)
              => LandedIn(Append(s, f), X)
<1>. DEFINE r == Append(s, f)
<1>1. IsAppend(r, s, f)
  BY AppendSeq
<1>. HIDE DEF r
<1>2. /\ Len(s) \in Nat /\ DOMAIN s = 1..Len(s) /\ DOMAIN r = 1..Len(s) + 1
      /\ (\A i \in 1..Len(s) : r[i] = s[i]) /\ r[Len(s) + 1] = f
  BY <1>1, SeqFacts DEF IsAppend
<1>3. \A i \in DOMAIN r : r[i] = f \/ (i \in DOMAIN s /\ r[i] = s[i])
  BY <1>2
<1>. QED BY <1>3 DEF NewIn, LandedIn, r

LEMMA TailNew ==
  ASSUME NEW s, IsSeq(s), s # << >>, NEW X, NewIn(s, X)
  PROVE  NewIn(Tail(s), X) /\ (Head(s).new = Absent \/ Head(s).id[1] \in X)
<1>1. IsTail(Tail(s), s) /\ Head(s) = s[1]
  BY TailSeq
<1>. DEFINE r == Tail(s)
<1>. HIDE DEF r
<1>2. IsTail(r, s)
  BY <1>1 DEF r
<1>3. /\ Len(s) \in Nat /\ Len(s) >= 1 /\ DOMAIN s = 1..Len(s) /\ DOMAIN r = 1..Len(s) - 1
      /\ (\A i \in 1..Len(s) - 1 : r[i] = s[i + 1])
  BY <1>2, SeqFacts DEF IsTail
<1>4. \A i \in DOMAIN r : i + 1 \in DOMAIN s /\ r[i] = s[i + 1]
  BY <1>3
<1>5. 1 \in DOMAIN s
  BY <1>3
<1>. QED BY <1>1, <1>4, <1>5 DEF NewIn, r

LEMMA ConcatNew ==
  ASSUME NEW s, IsSeq(s), NEW t, IsSeq(t), NEW X, NewIn(s, X), NewIn(t, X)
  PROVE  NewIn(s \o t, X)
<1>. DEFINE r == s \o t
<1>1. IsConcat(r, s, t)
  BY ConcatSeq
<1>. HIDE DEF r
<1>2. /\ Len(s) \in Nat /\ DOMAIN s = 1..Len(s) /\ Len(t) \in Nat /\ DOMAIN t = 1..Len(t)
      /\ DOMAIN r = 1..Len(s) + Len(t)
      /\ (\A i \in 1..Len(s) : r[i] = s[i]) /\ (\A i \in 1..Len(t) : r[Len(s) + i] = t[i])
  BY <1>1, SeqFacts DEF IsConcat
<1>3. \A i \in DOMAIN r : i \in DOMAIN s \/ (i - Len(s) \in DOMAIN t /\ Len(s) + (i - Len(s)) = i)
  BY <1>2
<1>4. \A i \in DOMAIN r : \/ i \in DOMAIN s /\ r[i] = s[i]
                          \/ i - Len(s) \in DOMAIN t /\ r[i] = t[i - Len(s)]
  BY <1>2, <1>3
<1>. QED BY <1>4 DEF NewIn, r

LEMMA SortedNew ==
  ASSUME NEW s, Flotsams(s), NEW X, NewIn(s, X)
  PROVE  NewIn(Sorted(s, [i \in DOMAIN s |-> s[i].offset]), X)
<1>. DEFINE key == [i \in DOMAIN s |-> s[i].offset]
            q == Sorted(s, key)
<1>1. IsSeq(s) /\ \A i \in DOMAIN s : key[i] \in Int
  BY DEF Flotsams, FlotsamOK
<1>2. Len(s) \in Nat /\ DOMAIN s = 1..Len(s)
  BY <1>1, SeqFacts
<1>. HIDE DEF key
<1>3. PICK p : Sorts(p, key, Len(s)) /\ Sorted(s, key) = [i \in 1..Len(s) |-> s[p[i]]]
  BY <1>1, SortedIs
<1>4. \A i \in 1..Len(s) : p[i] \in 1..Len(s)
  BY <1>3 DEF Sorts
<1>5. DOMAIN q = 1..Len(s) /\ \A i \in 1..Len(s) : q[i] = s[p[i]] /\ p[i] \in DOMAIN s
  BY <1>2, <1>3, <1>4
<1>. HIDE DEF q
<1>. QED BY <1>5 DEF NewIn, q, key

\* Where there are no locals and nothing is staged.
LEMMA NoneNew ==
  ASSUME Frame', ~Indexing' \/ (run' = Absent /\ tx' = Absent /\ saved' = NoSaved)
  PROVE  NewHere'
<1>1. run' = Absent /\ tx' = Absent /\ saved' = NoSaved
  BY DEF Frame, Control
<1>2. /\ saved'.block = Absent /\ saved'.in1 = Absent /\ saved'.in2 = Absent /\ saved'.in3 = Absent
  BY <1>1 DEF NoSaved
<1>. QED BY <1>1, <1>2 DEF NewHere, SavedNew

LEMMA InitNew == ASSUME Init PROVE NewHere
<1>1. run = Absent /\ tx = Absent /\ saved = NoSaved
  BY DEF Init
<1>2. /\ saved.block = Absent /\ saved.in1 = Absent /\ saved.in2 = Absent /\ saved.in3 = Absent
  BY <1>1 DEF NoSaved
<1>. QED BY <1>1, <1>2 DEF NewHere, SavedNew

LEMMA BeginNew == ASSUME NewHere, Begin PROVE NewHere'
<1>1. run'.flotsam = Kept.flotsam /\ UNCHANGED <<block, saved, tx>>
  BY DEF Begin
<1>2. NewIn(Kept.flotsam, TxIds(block))
  BY NothingNew DEF Kept, NewBlock, NewHere, SavedNew
<1>. QED BY <1>1, <1>2 DEF NewHere

LEMMA SpendNew == ASSUME Frame, NewHere, Spend PROVE NewHere'
<1>1. UNCHANGED <<block, saved>> /\ run # Absent /\ RunOK(run)
  BY DEF Spend, Frame, Types
<1>2. run'.flotsam = run.flotsam
  BY <1>1 DEF Spend, RunOK, RunShape
<1>3. tx'.floating = << >> /\ tx'.queue = << >> /\ tx'.located = << >>
  BY DEF Spend, Fresh
<1>4. TxNew(tx', TxIds(block))
  BY <1>3, NothingNew DEF TxNew
<1>. QED BY <1>1, <1>2, <1>4 DEF NewHere

LEMMA ContinueNew == ASSUME Frame, NewHere, Continue PROVE NewHere'
<1>1. UNCHANGED <<block, saved, run>>
  BY DEF Continue
<1>2. /\ tx'.queue = << >> /\ tx'.located = << >>
      /\ IF saved.in1 = Absent THEN tx'.floating = << >> ELSE tx'.floating = saved.in1.floating
  BY DEF Continue, Fresh
<1>3. TxNew(tx', TxIds(block))
  BY <1>2, NothingNew DEF TxNew, NewHere, SavedNew
<1>. QED BY <1>1, <1>3 DEF NewHere

LEMMA TakeNew == ASSUME Frame, NewHere, Take PROVE NewHere'
<1>. DEFINE m == Moved[run.inscription]
            f == [id |-> tab.entries[m[1]].id, offset |-> tx.inValue + m[2],
                  seq |-> m[1], new |-> Absent]
            floating == Append(tx.floating, f)
            offsets == Counted(tx.offsets, tx.inValue + m[2], tab.entries[m[1]].id)
<1>1. /\ run # Absent /\ tx # Absent
      /\ tx' = [tx EXCEPT !.floating = floating, !.offsets = offsets]
      /\ run' = [run EXCEPT !.inscription = run.inscription + 1]
      /\ UNCHANGED <<block, saved>>
  BY DEF Take, AtInput
<1>2. TxOK(tx) /\ RunOK(run)
  BY <1>1 DEF Frame, Types
<1>3. f.new = Absent
  OBVIOUS
<1>. HIDE DEF f, offsets
<1>4. NewIn(floating, TxIds(block))
  BY <1>1, <1>2, <1>3, AppendNew DEF NewHere, TxNew, TxOK, Flotsams
<1>. HIDE DEF floating
<1>5. /\ tx'.floating = floating /\ tx'.queue = tx.queue /\ tx'.located = tx.located
      /\ run'.flotsam = run.flotsam
  BY <1>1, <1>2 DEF TxOK, TxShape, RunOK, RunShape
<1>. QED BY <1>1, <1>4, <1>5 DEF NewHere, TxNew

\* Ids of this transaction.
LEMMA ThisIdHere ==
  ASSUME Frame, tx # Absent
  PROVE  T.id \in TxIds(block)
<1>1. block # None /\ run.tx \in 1..Len(Txs) /\ Linked
  BY InTxFacts DEF Frame
<1>2. TxIds(block) = {Txs[i].id : i \in 1..Len(Txs)}
  BY <1>1, TxsFacts
<1>. QED BY <1>1, <1>2 DEF T

LEMMA FinishInputNew == ASSUME Frame, NewHere, FinishInput PROVE NewHere'
<1>. DEFINE value == IF Coinbase THEN Subsidy ELSE Len(tx.ins[run.input].sats)
            w == Revealed(tx.inValue, value)
<1>1. /\ run # Absent /\ tx # Absent
      /\ tx' = [w EXCEPT !.inValue = w.inValue + value]
      /\ run' = [run EXCEPT !.input = run.input + 1, !.inscription = 1]
      /\ UNCHANGED <<block, saved>>
  BY DEF FinishInput, AtInput
<1>2. /\ TxOK(tx) /\ RunOK(run) /\ ContentOK(T) /\ T.id \in TxIds(block)
  BY <1>1, InTxFacts, ThisIdHere
<1>. HIDE DEF value
<1>3. Reveals(tx, w)
  <2>1. tx.inValue \in Nat
    BY <1>2 DEF TxOK
  <2>. QED BY <1>2, <2>1, RevealedReveals
<1>. HIDE DEF w
<1>4. /\ tx'.floating = w.floating /\ tx'.queue = tx.queue /\ tx'.located = tx.located
      /\ run'.flotsam = run.flotsam
  BY <1>1, <1>2, <1>3 DEF Reveals, TxShape, RunOK, RunShape
<1>5. NewIn(w.floating, TxIds(block))
  <2>. DEFINE n == Len(tx.floating)
              g == w.floating
  <2>1. /\ n \in Nat /\ tx.id \in Nat /\ w.id \in Nat /\ tx.id <= w.id
        /\ DOMAIN g = 1..n + (w.id - tx.id) /\ DOMAIN tx.floating = 1..n
        /\ \A i \in 1..n : g[i] = tx.floating[i]
        /\ \A k \in tx.id..w.id - 1 : g[n + 1 + (k - tx.id)].id = <<T.id, k>>
    BY <1>2, <1>3, SeqFacts DEF Reveals, TxOK, Flotsams
  <2>2. NewIn(tx.floating, TxIds(block))
    BY <1>1 DEF NewHere, TxNew
  <2>. HIDE DEF n, g
  <2>3. \A i \in 1..n : g[i].new = Absent \/ g[i].id[1] \in TxIds(block)
    BY <2>1, <2>2 DEF NewIn
  <2>4. ASSUME NEW i \in n + 1..n + (w.id - tx.id) PROVE g[i].id[1] \in TxIds(block)
    <3>. DEFINE k == tx.id + (i - n - 1)
    <3>1. k \in tx.id..w.id - 1 /\ n + 1 + (k - tx.id) = i
      BY <2>1
    <3>. HIDE DEF k
    <3>2. g[i].id = <<T.id, k>>
      BY <2>1, <3>1
    <3>3. <<T.id, k>>[1] = T.id
      OBVIOUS
    <3>. QED BY <1>2, <3>2, <3>3
  <2>5. \A i \in 1..n + (w.id - tx.id) : i \in 1..n \/ i \in n + 1..n + (w.id - tx.id)
    BY <2>1
  <2>6. NewIn(g, TxIds(block))
    BY <2>1, <2>3, <2>4, <2>5 DEF NewIn
  <2>. QED BY <2>6 DEF g
<1>. QED BY <1>1, <1>4, <1>5 DEF NewHere, TxNew

LEMMA OwnNew ==
  ASSUME NEW s, Flotsams(s), NEW present, NEW X, NewIn(s, X)
  PROVE  NewIn(Own(s, present), X)
<1>1. DOMAIN Own(s, present) = DOMAIN s
  BY DEF Own
<1>2. ASSUME NEW f, FlotsamOK(f), f.new # Absent
      PROVE  [f EXCEPT !.new.parents = @ \cap present].id = f.id
  <2>. DEFINE n == [f.new EXCEPT !.parents = f.new.parents \cap present]
  <2>1. [f EXCEPT !.new.parents = @ \cap present] = [f EXCEPT !.new = n]
    BY <1>2 DEF FlotsamOK
  <2>. HIDE DEF n
  <2>. QED BY <1>2, <2>1 DEF FlotsamOK
<1>3. \A i \in DOMAIN s : \/ s[i].new = Absent /\ Own(s, present)[i] = s[i]
                          \/ s[i].new # Absent /\ Own(s, present)[i].id = s[i].id
  BY <1>2 DEF Own, Flotsams
<1>. QED BY <1>1, <1>3 DEF NewIn

LEMMA FinishInputsNew == ASSUME Frame, NewHere, FinishInputs PROVE NewHere'
<1>. DEFINE present == {tx.floating[i].id : i \in DOMAIN tx.floating}
            own == Own(tx.floating, present)
            fees == IF Coinbase THEN run.flotsam ELSE << >>
            all == own \o fees
            queue == Sorted(all, [i \in DOMAIN all |-> all[i].offset])
            flotsam == IF Coinbase THEN << >> ELSE run.flotsam
            X == TxIds(block)
<1>1. /\ run # Absent /\ tx # Absent
      /\ tx' = IF saved.in2 # Absent
               THEN [tx EXCEPT !.phase = "outputs", !.located = saved.in2.located,
                               !.outValue = saved.in2.outValue,
                               !.inValue = saved.in2.inValue,
                               !.out = saved.in2.out, !.queue = saved.in2.queue]
               ELSE [tx EXCEPT !.phase = "outputs", !.queue = queue]
      /\ run' = [run EXCEPT !.input = 1, !.flotsam = flotsam]
      /\ saved' = [saved EXCEPT !.in1 = Absent]
      /\ UNCHANGED <<block>>
  BY DEF FinishInputs, Own
<1>. HIDE DEF present
<1>2. TxOK(tx) /\ RunOK(run) /\ SavedOK(saved)
  BY <1>1 DEF Frame, Types
<1>3. Flotsams(own) /\ NewIn(own, X)
  BY <1>1, <1>2, OwnFlotsams, OwnNew DEF TxOK, NewHere, TxNew
<1>4. Flotsams(fees) /\ NewIn(fees, X) /\ NewIn(flotsam, X)
  BY <1>1, <1>2, EmptyLists, NothingNew DEF RunOK, AccountsOK, NewHere
<1>. HIDE DEF own, fees, flotsam
<1>5. Flotsams(all) /\ NewIn(all, X)
  BY <1>3, <1>4, ConcatFlotsams, ConcatNew DEF Flotsams
<1>. HIDE DEF all
<1>6. NewIn(queue, X)
  BY <1>5, SortedNew
<1>. HIDE DEF queue
<1>7. /\ tx'.floating = tx.floating
      /\ IF saved.in2 = Absent THEN tx'.queue = queue /\ tx'.located = tx.located
         ELSE tx'.queue = saved.in2.queue /\ tx'.located = saved.in2.located
  BY <1>1, <1>2 DEF TxOK, TxShape
<1>8. /\ run'.flotsam = flotsam
      /\ saved'.block = saved.block /\ saved'.in1 = Absent /\ saved'.in2 = saved.in2
      /\ saved'.in3 = saved.in3
  BY <1>1, <1>2 DEF RunOK, RunShape, SavedOK, SavedShape
<1>9. TxNew(tx', X)
  BY <1>1, <1>6, <1>7 DEF NewHere, TxNew, SavedNew
<1>. QED BY <1>1, <1>4, <1>8, <1>9 DEF NewHere, SavedNew

LEMMA PlaceNew == ASSUME Frame, NewHere, Place PROVE NewHere'
<1>. DEFINE l == [flotsam |-> Head(tx.queue), out |-> tx.out,
                  offset |-> Head(tx.queue).offset - tx.outValue]
            located == Append(tx.located, l)
            queue == Tail(tx.queue)
<1>1. /\ run # Absent /\ tx # Absent /\ tx.queue # << >>
      /\ tx' = [tx EXCEPT !.located = located, !.queue = queue]
      /\ UNCHANGED <<block, saved, run>>
  BY DEF Place, Placeable, AtOutputs
<1>2. TxOK(tx) /\ IsSeq(tx.queue) /\ IsSeq(tx.located)
  BY <1>1 DEF Frame, Types, TxOK, Flotsams, Landed
<1>3. NewIn(queue, TxIds(block)) /\ (l.flotsam.new = Absent \/ l.flotsam.id[1] \in TxIds(block))
  BY <1>1, <1>2, TailNew DEF NewHere, TxNew
<1>. HIDE DEF l, queue
<1>4. LandedIn(located, TxIds(block))
  BY <1>1, <1>2, <1>3, AppendNew DEF NewHere, TxNew
<1>. HIDE DEF located
<1>5. tx'.floating = tx.floating /\ tx'.queue = queue /\ tx'.located = located
  BY <1>1, <1>2 DEF TxOK, TxShape
<1>. QED BY <1>1, <1>3, <1>4, <1>5 DEF NewHere, TxNew

LEMMA NextOutputNew == ASSUME Frame, NewHere, NextOutput PROVE NewHere'
<1>1. /\ tx # Absent /\ UNCHANGED <<block, saved, run>>
  BY DEF NextOutput, AtOutputs
<1>2. tx'.floating = tx.floating /\ tx'.queue = tx.queue /\ tx'.located = tx.located
  BY <1>1 DEF NextOutput, Frame, Types, TxOK, TxShape
<1>. QED BY <1>1, <1>2 DEF NewHere, TxNew

LEMMA FinishOutputsNew == ASSUME Frame, NewHere, FinishOutputs PROVE NewHere'
<1>1. /\ tx # Absent /\ UNCHANGED <<block, run>> /\ TxOK(tx) /\ SavedOK(saved)
      /\ saved' = [saved EXCEPT !.in2 = Absent]
      /\ tx' = IF saved.in3 = Absent THEN [tx EXCEPT !.phase = "locations"]
               ELSE [tx EXCEPT !.phase = "locations", !.located = saved.in3.located,
                               !.outValue = saved.in3.outValue,
                               !.inValue = saved.in3.inValue,
                               !.queue = saved.in3.queue, !.loc = saved.in3.loc]
  BY DEF FinishOutputs, AtOutputs, Frame, Types
<1>2. /\ tx'.floating = tx.floating
      /\ IF saved.in3 = Absent THEN tx'.queue = tx.queue /\ tx'.located = tx.located
         ELSE tx'.queue = saved.in3.queue /\ tx'.located = saved.in3.located
  BY <1>1 DEF TxOK, TxShape
<1>3. /\ saved'.block = saved.block /\ saved'.in1 = saved.in1 /\ saved'.in2 = Absent
      /\ saved'.in3 = saved.in3
  BY <1>1 DEF SavedOK, SavedShape
<1>4. TxNew(tx', TxIds(block))
  BY <1>1, <1>2 DEF NewHere, TxNew, SavedNew
<1>. QED BY <1>1, <1>3, <1>4 DEF NewHere, SavedNew

LEMMA FinishLocationsNew == ASSUME Frame, NewHere, FinishLocations PROVE NewHere'
<1>1. /\ tx # Absent /\ UNCHANGED <<block, run>> /\ TxOK(tx) /\ SavedOK(saved)
      /\ saved' = [saved EXCEPT !.in3 = Absent]
      /\ tx' = [tx EXCEPT !.phase = "rest"]
  BY DEF FinishLocations, AtLocations, Frame, Types
<1>2. /\ tx'.floating = tx.floating /\ tx'.queue = tx.queue /\ tx'.located = tx.located
  BY <1>1 DEF TxOK, TxShape
<1>3. /\ saved'.block = saved.block /\ saved'.in1 = saved.in1 /\ saved'.in2 = saved.in2
      /\ saved'.in3 = Absent
  BY <1>1 DEF SavedOK, SavedShape
<1>. QED BY <1>1, <1>2, <1>3 DEF NewHere, TxNew, SavedNew

\* What comes down was floating, and leaves the rest of it.
LEMMA SettlesNew ==
  ASSUME Frame, NewHere, Locate \/ Lose
  PROVE  /\ NewHere'
         /\ \E f, o, burn, cache : /\ Settled(f, o, burn, cache)
                                   /\ f.new = Absent \/ f.id[1] \in TxIds(block)
                                   /\ \A p \in DOMAIN cache : p \in DOMAIN staged.cache \cup Special
<1>1. /\ run # Absent /\ tx # Absent /\ UNCHANGED <<block, saved>>
  BY DEF Locate, Lose, AtLocations
<1>2. /\ TxOK(tx) /\ RunOK(run) /\ TabOK(tab) /\ StagedOK(staged)
      /\ IsSeq(tx.queue) /\ Flotsams(tx.queue) /\ Landed(tx.located) /\ ContentOK(T)
  BY <1>1, InTxFacts DEF Frame, Types, TxOK, Flotsams
<1>. DEFINE X == TxIds(block)
<1>3. \E t, f, o, offset, burn :
        /\ Settle(t, f, o, offset, burn) /\ FlotsamOK(f) /\ offset \in Nat
        /\ TxShape(t) /\ EntriesOK(t.outs)
        /\ t.floating = tx.floating /\ t.located = tx.located /\ NewIn(t.queue, X)
        /\ f.new = Absent \/ f.id[1] \in X
  <2>1. CASE Locate
    <3>. DEFINE l == tx.located[tx.loc]
                t == [tx EXCEPT !.loc = tx.loc + 1]
    <3>1. Settle(t, l.flotsam, <<T.id, l.out>>, l.offset, T.outs[l.out].burn)
      BY <2>1 DEF Locate
    <3>2. tx.loc \in DOMAIN tx.located
      <4>1. tx.loc \in Nat \ {0} /\ tx.loc <= Len(tx.located)
        BY <1>2, <2>1 DEF Locate, AtLocations, TxOK
      <4>2. DOMAIN tx.located = 1..Len(tx.located) /\ Len(tx.located) \in Nat
        BY <1>2, SeqFacts DEF Landed
      <4>. QED BY <4>1, <4>2
    <3>3. LocationOK(l) /\ (l.flotsam.new = Absent \/ l.flotsam.id[1] \in X)
      BY <1>1, <1>2, <3>2 DEF Landed, NewHere, TxNew, LandedIn
    <3>4. /\ TxShape(t) /\ EntriesOK(t.outs) /\ t.floating = tx.floating
          /\ t.located = tx.located /\ t.queue = tx.queue
      BY <1>2 DEF TxOK, TxShape, WorkOK
    <3>5. NewIn(t.queue, X)
      BY <1>1, <3>4 DEF NewHere, TxNew
    <3>. HIDE DEF l, t
    <3>. QED BY <3>1, <3>3, <3>4, <3>5 DEF LocationOK
  <2>2. CASE Lose
    <3>. DEFINE f == Head(tx.queue)
                queue == Tail(tx.queue)
                t == [tx EXCEPT !.queue = queue]
                offset == run.stats.lost + f.offset - tx.outValue
    <3>1. Settle(t, f, Null, offset, FALSE) /\ tx.queue # << >> /\ tx.phase = "rest"
      BY <2>2 DEF Lose
    <3>2. NewIn(queue, X) /\ (f.new = Absent \/ f.id[1] \in X)
      BY <1>1, <1>2, <3>1, TailNew DEF NewHere, TxNew
    <3>3. FlotsamOK(f) /\ tx.outValue <= f.offset
      <4>1. Ready(tx.queue, tx.outValue)
        BY <1>1, <3>1 DEF Frame, Counts
      <4>. QED BY <3>1, <4>1, TailReady
    <3>. HIDE DEF f, queue
    <3>4. offset \in Nat
      <4>1. run.stats.lost \in Nat /\ f.offset \in Nat /\ tx.outValue \in Nat
        BY <1>2, <3>3 DEF RunOK, StatsOK, FlotsamOK, TxOK
      <4>. QED BY <3>3, <4>1
    <3>. HIDE DEF offset
    <3>5. /\ TxShape(t) /\ EntriesOK(t.outs) /\ t.floating = tx.floating
          /\ t.located = tx.located /\ t.queue = queue
      BY <1>2 DEF TxOK, TxShape, WorkOK
    <3>. HIDE DEF t
    <3>. QED BY <3>1, <3>2, <3>3, <3>4, <3>5
  <2>. QED BY <1>1, <2>1, <2>2
<1>4. PICK t, f, o, offset, burn :
        /\ Settle(t, f, o, offset, burn) /\ FlotsamOK(f) /\ offset \in Nat
        /\ TxShape(t) /\ EntriesOK(t.outs)
        /\ t.floating = tx.floating /\ t.located = tx.located /\ NewIn(t.queue, X)
        /\ f.new = Absent \/ f.id[1] \in X
  BY <1>3
<1>5. /\ run'.flotsam = run.flotsam
      /\ tx'.floating = t.floating /\ tx'.located = t.located /\ tx'.queue = t.queue
  BY <1>2, <1>4, SettleFacts
<1>6. NewHere'
  <2>1. TxNew(tx', X)
    BY <1>1, <1>4, <1>5 DEF NewHere, TxNew
  <2>. QED BY <1>1, <1>5, <2>1 DEF NewHere
<1>7. \E cache : /\ IF f.new = Absent THEN Transfer(f, burn, cache) ELSE Inscribe(f, o, burn, cache)
                 /\ \A p \in DOMAIN cache : p \in DOMAIN staged.cache \cup Special
  <2>. DEFINE unbound == IF f.new = Absent THEN FALSE ELSE f.new.unbound
              to == IF unbound THEN Unbound ELSE o
              place == <<IF f.new = Absent THEN f.seq ELSE run.next,
                         IF unbound THEN run.stats.unbound ELSE offset>>
              entry == Pushed(Cached(staged.cache, to), place)
              cache == IF to \in Special THEN Put(staged.cache, to, entry) ELSE staged.cache
  <2>1. IF f.new = Absent THEN Transfer(f, burn, cache) ELSE Inscribe(f, o, burn, cache)
    BY <1>4 DEF Settle, Pushed
  <2>. HIDE DEF to, entry
  <2>2. \A p \in DOMAIN cache : p \in DOMAIN staged.cache \cup Special
    BY DEF Put
  <2>. HIDE DEF cache
  <2>. QED BY <2>1, <2>2
<1>. QED BY <1>4, <1>6, <1>7 DEF Settled

LEMMA FinishTransactionNew == ASSUME Frame, NewHere, FinishTransaction PROVE NewHere'
<1>. DEFINE rest == [i \in DOMAIN tx.queue |->
                       [tx.queue[i] EXCEPT !.offset = run.reward + tx.queue[i].offset - tx.outValue]]
            X == TxIds(block)
<1>1. /\ run # Absent /\ tx # Absent /\ tx.phase = "rest" /\ TxOK(tx) /\ RunOK(run) /\ SavedOK(saved)
      /\ tx' = Absent /\ block' = block /\ saved' = [saved EXCEPT !.tx = Absent]
  BY DEF FinishTransaction, Frame, Types
<1>2. run'.flotsam = IF Coinbase THEN run.flotsam ELSE run.flotsam \o rest
  <2>. DEFINE r == [run EXCEPT !.tx = run.tx + 1]
              lost == r.stats.lost + run.reward - tx.outValue
              stats == [r.stats EXCEPT !.lost = lost]
              fl == r.flotsam \o rest
              reward == r.reward + tx.inValue - tx.outValue
  <2>1. run' = IF Coinbase THEN [r EXCEPT !.stats = stats]
               ELSE [r EXCEPT !.flotsam = fl, !.reward = reward]
    <3>1. run' = IF Coinbase THEN [r EXCEPT !.stats.lost = @ + run.reward - tx.outValue]
                 ELSE [r EXCEPT !.flotsam = @ \o rest, !.reward = @ + tx.inValue - tx.outValue]
      BY DEF FinishTransaction
    <3>2. RunShape(r)
      BY <1>1 DEF RunOK, RunShape
    <3>. HIDE DEF r, rest
    <3>. QED BY <3>1, <3>2 DEF RunShape
  <2>2. RunShape(r) /\ r.flotsam = run.flotsam
    BY <1>1 DEF RunOK, RunShape
  <2>. HIDE DEF r, stats, reward, rest
  <2>3. run'.flotsam = IF Coinbase THEN r.flotsam ELSE fl
    <3>. HIDE DEF fl
    <3>. QED BY <2>1, <2>2 DEF RunShape
  <2>. QED BY <2>2, <2>3
<1>3. Flotsams(rest) /\ NewIn(rest, X)
  <2>1. Ready(tx.queue, tx.outValue) /\ tx.outValue \in Nat /\ run.reward \in Nat
    BY <1>1 DEF Frame, Counts, TxOK, RunOK, AccountsOK
  <2>2. \A i \in DOMAIN tx.queue : rest[i].new = tx.queue[i].new /\ rest[i].id = tx.queue[i].id
    <3>. SUFFICES ASSUME NEW i \in DOMAIN tx.queue
                  PROVE  rest[i].new = tx.queue[i].new /\ rest[i].id = tx.queue[i].id
      OBVIOUS
    <3>. DEFINE f == tx.queue[i]
                d == run.reward + tx.queue[i].offset - tx.outValue
    <3>1. rest[i] = [f EXCEPT !.offset = d] /\ FlotsamOK(f)
      BY <2>1 DEF Ready, Flotsams
    <3>. HIDE DEF f, d, rest
    <3>2. rest[i].new = f.new /\ rest[i].id = f.id
      BY <3>1 DEF FlotsamOK
    <3>. QED BY <3>2 DEF f
  <2>3. NewIn(tx.queue, X)
    BY <1>1 DEF NewHere, TxNew
  <2>4. DOMAIN rest = DOMAIN tx.queue
    OBVIOUS
  <2>5. Flotsams(rest)
    BY <2>1, RestFlotsams
  <2>. HIDE DEF rest
  <2>. QED BY <2>2, <2>3, <2>4, <2>5 DEF NewIn
<1>. HIDE DEF rest
<1>4. NewIn(run'.flotsam, X)
  <2>1. NewIn(run.flotsam, X) /\ Flotsams(run.flotsam)
    BY <1>1 DEF NewHere, RunOK, AccountsOK
  <2>. QED BY <1>2, <1>3, <2>1, ConcatNew DEF Flotsams
<1>5. /\ saved'.block = saved.block /\ saved'.in1 = saved.in1 /\ saved'.in2 = saved.in2
      /\ saved'.in3 = saved.in3
  BY <1>1 DEF SavedOK, SavedShape
<1>. QED BY <1>1, <1>4, <1>5 DEF NewHere, SavedNew

LEMMA BreakNew == ASSUME Frame, NewHere, Break PROVE NewHere'
<1>1. /\ run # Absent /\ tx # Absent /\ TxOK(tx) /\ RunOK(run) /\ SavedOK(saved)
      /\ run' = Absent /\ tx' = Absent /\ block' = block
  BY DEF Break, BreakInputs, BreakOutputs, BreakLocations, AtInput, Placeable, AtOutputs,
         AtLocations, Suspend, Frame, Types
<1>2. /\ saved'.block # Absent => saved'.block.flotsam = run.flotsam
      /\ \/ saved'.in1 = saved.in1 \/ saved'.in1.floating = tx.floating
      /\ \/ saved'.in2 = saved.in2
         \/ saved'.in2.queue = tx.queue /\ saved'.in2.located = tx.located
      /\ \/ saved'.in3 = saved.in3
         \/ saved'.in3.queue = tx.queue /\ saved'.in3.located = tx.located
  <2>. DEFINE b == [flotsam |-> run.flotsam, reward |-> run.reward,
                    fees |-> run.fees, lost |-> run.lost]
              t == [ins |-> tx.ins, outs |-> tx.outs, inSats |-> tx.inSats]
              in1 == [floating |-> tx.floating, offsets |-> tx.offsets,
                      id |-> tx.id, inValue |-> tx.inValue]
              in2 == [located |-> tx.located, outValue |-> tx.outValue,
                      inValue |-> tx.inValue, out |-> tx.out, queue |-> tx.queue]
              in3 == [located |-> tx.located, outValue |-> tx.outValue,
                      inValue |-> tx.inValue, queue |-> tx.queue, loc |-> tx.loc]
  <2>1. \/ saved' = [[saved EXCEPT !.in1 = in1] EXCEPT !.block = b, !.tx = t]
        \/ saved' = [[saved EXCEPT !.in2 = in2] EXCEPT !.block = b, !.tx = t]
        \/ saved' = [[saved EXCEPT !.in3 = in3] EXCEPT !.block = b, !.tx = t]
    BY DEF Break, BreakInputs, BreakOutputs, BreakLocations, Suspend
  <2>2. /\ b.flotsam = run.flotsam /\ in1.floating = tx.floating
        /\ in2.queue = tx.queue /\ in2.located = tx.located
        /\ in3.queue = tx.queue /\ in3.located = tx.located
    OBVIOUS
  <2>. HIDE DEF b, t, in1, in2, in3
  <2>3. /\ saved'.block = b
        /\ saved'.in1 = saved.in1 \/ saved'.in1 = in1
        /\ saved'.in2 = saved.in2 \/ saved'.in2 = in2
        /\ saved'.in3 = saved.in3 \/ saved'.in3 = in3
    BY <1>1, <2>1 DEF SavedOK, SavedShape
  <2>. QED BY <2>2, <2>3
<1>3. TxNew(tx, TxIds(block)) /\ NewIn(run.flotsam, TxIds(block)) /\ SavedNew(saved, TxIds(block))
  BY <1>1 DEF NewHere
<1>4. SavedNew(saved', TxIds(block))
  BY <1>2, <1>3 DEF SavedNew, TxNew
<1>. QED BY <1>1, <1>4 DEF NewHere

LEMMA NextNew == ASSUME Frame, NewHere, [Next]_vars PROVE NewHere'
<1>1. CASE Transaction
  BY <1>1, SpendNew, ContinueNew, TakeNew, FinishInputNew, FinishInputsNew, PlaceNew,
     NextOutputNew, FinishOutputsNew, SettlesNew, FinishLocationsNew, FinishTransactionNew
     DEF Transaction
<1>2. CASE UNCHANGED vars
  BY <1>2 DEF vars, NewHere
<1>3. CASE Stage \/ FinishBlock \/ CommitOutput \/ CommitInscription \/ Save \/ HandleReorg
  <2>1. Frame'
    BY NextFrame
  <2>2. CASE Stage
    <3>1. ~Indexing /\ UNCHANGED <<run, tx, saved>>
      BY <2>2 DEF Stage, Indexing
    <3>2. run' = Absent /\ tx' = Absent /\ saved' = NoSaved
      BY <3>1 DEF Frame, Control
    <3>. QED BY <2>1, <3>2, NoneNew
  <2>3. CASE ~Stage
    <3>1. ~Indexing'
      BY <1>3, <2>3 DEF FinishBlock, CommitOutput, CommitInscription, Save, HandleReorg, Indexing,
                        Committing, Frame, Types, StagedOK, StagedShape
    <3>. QED BY <2>1, <3>1, NoneNew
  <2>. QED BY <2>2, <2>3
<1>. QED BY <1>1, <1>2, <1>3, BeginNew, BreakNew DEF Next

-----------------------------------------------------------------------------
(* What a write adds to a change record                                      *)

LEMMA PutGrown ==
  ASSUME NEW f, NEW g, NEW S, Grown(f, g, S), NEW x, NEW e
  PROVE  Grown(f, Put(g, x, e), S \cup {x})
  BY DEF Grown, Put

LEMMA BurnGrown ==
  ASSUME NEW f, NEW g, NEW S, Grown(f, g, S), NEW seq
  PROVE  Grown(f, Burned(g, seq), S \cup {seq})
  BY DEF Grown, Burned

LEMMA AddAdded ==
  ASSUME NEW f, NEW g, NEW P, Added(f, g, P), NEW S, NEW v, \A k \in DOMAIN f : v \notin f[k]
  PROVE  Added(f, AddTo(g, S, v), P \cup (S \X {v}))
<1>. DEFINE r == AddTo(g, S, v)
<1>1. /\ DOMAIN r = DOMAIN g \cup S
      /\ \A k \in DOMAIN r : r[k] = (IF k \in DOMAIN g THEN g[k] ELSE {}) \cup (IF k \in S THEN {v} ELSE {})
  BY DEF AddTo
<1>. HIDE DEF r
<1>. DEFINE N == S \X {v}
<1>2. \A k, w : <<k, w>> \in N <=> k \in S /\ w = v
  OBVIOUS
<1>. HIDE DEF N
<1>3. \A k \in DOMAIN f : f[k] # {} /\ k \in DOMAIN r /\ \A w \in f[k] : w \in r[k]
  BY <1>1 DEF Added
<1>4. \A k \in DOMAIN r : \A w \in r[k] : (k \in DOMAIN f /\ w \in f[k]) \/ <<k, w>> \in P \cup N
  <2>. SUFFICES ASSUME NEW k \in DOMAIN r, NEW w \in r[k]
                PROVE  (k \in DOMAIN f /\ w \in f[k]) \/ <<k, w>> \in P \cup N
    OBVIOUS
  <2>1. CASE k \in DOMAIN g /\ w \in g[k]
    BY <2>1 DEF Added
  <2>2. CASE k \in S /\ w = v
    BY <1>2, <2>2
  <2>. QED BY <1>1, <2>1, <2>2
<1>5. \A k \in DOMAIN f : \A w \in f[k] : <<k, w>> \notin P \cup N
  <2>. SUFFICES ASSUME NEW k \in DOMAIN f, NEW w \in f[k] PROVE <<k, w>> \notin P \cup N
    OBVIOUS
  <2>1. <<k, w>> \notin P
    BY DEF Added
  <2>2. <<k, w>> \notin N
    BY <1>2
  <2>. QED BY <2>1, <2>2
<1>6. Added(f, r, P \cup N)
  BY <1>3, <1>4, <1>5 DEF Added
<1>. QED BY <1>6 DEF r, N

LEMMA SpendSpends ==
  ASSUME NEW f, NEW g, NEW removed, Spends(f, g, {}, removed), NEW S, S \subseteq DOMAIN g
  PROVE  Spends(f, Drop(g, S), {}, removed \cup {<<o, g[o]>> : o \in S})
<1>. DEFINE r == Drop(g, S)
            pairs == {<<o, g[o]>> : o \in S}
<1>1. DOMAIN r = DOMAIN g \ S /\ \A o \in DOMAIN r : r[o] = g[o]
  BY DEF Drop
<1>. HIDE DEF r
<1>2. \A o \in DOMAIN g : o \in DOMAIN f /\ g[o] = f[o]
  BY DEF Spends
<1>3. \A o \in S : <<o, f[o]>> \in pairs
  BY <1>2
<1>4. \A p \in pairs : p = <<p[1], p[2]>> /\ p[1] \in DOMAIN f /\ f[p[1]] = p[2]
  BY <1>2
<1>. HIDE DEF pairs
<1>5. Spends(f, r, {}, removed \cup pairs)
  BY <1>1, <1>2, <1>3, <1>4 DEF Spends
<1>. QED BY <1>5 DEF r, pairs

LEMMA CommitSpends ==
  ASSUME NEW f, NEW g, NEW O, NEW removed, Spends(f, g, O, removed), NEW x, NEW e
  PROVE  Spends(f, Put(g, x, e), O \cup {x}, removed)
<1>. DEFINE r == Put(g, x, e)
<1>1. DOMAIN r = DOMAIN g \cup {x} /\ \A o \in DOMAIN g : o # x => r[o] = g[o]
  BY DEF Put
<1>. HIDE DEF r
<1>2. Spends(f, r, O \cup {x}, removed)
  BY <1>1 DEF Spends
<1>. QED BY <1>2 DEF r

\* No list of a table of lists is empty.
Filled(t) ==
  /\ \A k \in DOMAIN t.satSeqs : t.satSeqs[k] # {}
  /\ \A k \in DOMAIN t.children : t.children[k] # {}

Lists(g) == g = [k \in DOMAIN g |-> g[k]] /\ \A k \in DOMAIN g : g[k] # {}

LEMMA AddFilled ==
  ASSUME NEW g, \A k \in DOMAIN g : g[k] # {}, NEW S, NEW v
  PROVE  Lists(AddTo(g, S, v))
<1>. DEFINE r == AddTo(g, S, v)
<1>1. /\ DOMAIN r = DOMAIN g \cup S /\ r = [k \in DOMAIN r |-> r[k]]
      /\ \A k \in DOMAIN r : r[k] = (IF k \in DOMAIN g THEN g[k] ELSE {}) \cup (IF k \in S THEN {v} ELSE {})
  BY DEF AddTo
<1>. HIDE DEF r
<1>2. \A k \in DOMAIN r : r[k] # {}
  BY <1>1
<1>. QED BY <1>1, <1>2 DEF r, Lists

\* Nothing is changed in the beginning.
LEMMA StageReverts ==
  ASSUME NEW t, Filled(t), NEW h, h \notin DOMAIN t.last
  PROVE  Reverts(t, t, h, NoRecord)
<1>1. /\ NoRecord.entries = {} /\ NoRecord.ids = {} /\ NoRecord.numbers = {}
      /\ NoRecord.satSeqs = {} /\ NoRecord.children = {} /\ NoRecord.outpoints = {}
      /\ NoRecord.removed = {}
  BY DEF NoRecord
<1>2. \A f : Grown(f, f, {}) /\ Without(f, {}) /\ Spends(f, f, {}, {})
  BY DEF Grown, Without, Spends
<1>3. Grown(t.last, t.last, {h}) /\ Without(t.last, {h})
  BY DEF Grown, Without
<1>4. Added(t.satSeqs, t.satSeqs, {}) /\ Added(t.children, t.children, {})
  BY DEF Added, Filled
<1>. QED BY <1>1, <1>2, <1>3, <1>4 DEF Reverts

-----------------------------------------------------------------------------
(* The invariant                                                             *)

\* The inscriptions and the outputs in t are of transactions in X.
OutsFrom(m, X) == \A o \in DOMAIN m : o \in Special \/ o[1] \in X
Origin(t, X) == (\A x \in DOMAIN t.ids : x[1] \in X) /\ OutsFrom(t.utxo, X)

\* The tables after the block at height h.
After(h) == IF h + 1 \in DOMAIN past.tab THEN past.tab[h + 1] ELSE tab

\* The change record of the block in progress notes what it has written.
Noted ==
  /\ Reverts(past.tab[Len(chain)], tab, Len(chain), staged.record)
  /\ Indexing => staged.record.outpoints = {}
  /\ Origin(tab, Known(Len(chain)) \cup TxIds(block))
  /\ OutsFrom(staged.cache, TxIds(block))

Reversible ==
  past.clean =>
    /\ Maps(tab) /\ Filled(tab)
    /\ \A h \in DOMAIN past.tab :
         Maps(past.tab[h]) /\ Filled(past.tab[h]) /\ Origin(past.tab[h], Known(h))
    /\ \A h \in DOMAIN records : Reverts(past.tab[h], After(h), h, records[h])
    /\ IF block = None THEN Origin(tab, Known(Len(chain))) ELSE Noted

-----------------------------------------------------------------------------
(* Steps that leave alone what a record reverts                              *)

SameTables(t, u) ==
  /\ u.entries = t.entries /\ u.ids = t.ids /\ u.numbers = t.numbers /\ u.last = t.last
  /\ u.satSeqs = t.satSeqs /\ u.children = t.children /\ u.utxo = t.utxo
SameNotes(r, s) ==
  /\ s.entries = r.entries /\ s.ids = r.ids /\ s.numbers = r.numbers
  /\ s.satSeqs = r.satSeqs /\ s.children = r.children
  /\ s.outpoints = r.outpoints /\ s.removed = r.removed

LEMMA SameReverts ==
  ASSUME NEW b, NEW t, NEW u, NEW h, NEW r, NEW s, Reverts(b, t, h, r),
         SameTables(t, u), SameNotes(r, s)
  PROVE  Reverts(b, u, h, s)
  BY DEF Reverts, SameTables, SameNotes

LEMMA SameWhole ==
  ASSUME NEW t, NEW u, SameTables(t, u)
  PROVE  /\ Maps(t) => Maps(u)
         /\ Filled(t) => Filled(u)
         /\ \A X : Origin(t, X) => Origin(u, X)
<1>1. Maps(t) => Maps(u)
  BY DEF Maps, SameTables
<1>2. Filled(t) => Filled(u)
  BY DEF Filled, SameTables
<1>3. \A X : Origin(t, X) => Origin(u, X)
  BY DEF Origin, SameTables
<1>. QED BY <1>1, <1>2, <1>3

\* In the middle of a block.
LEMMA NotedStep ==
  ASSUME Frame, Reversible, block # None, UNCHANGED <<chain, block, past, records>>,
         past.clean => Maps(tab') /\ Filled(tab') /\ Noted'
  PROVE  Reversible'
<1>1. Len(chain) \in Nat /\ DOMAIN records = 0..Len(chain) - 1 /\ DOMAIN past.tab = 0..Len(chain)
  BY DEF Frame, Linked
<1>2. \A h \in DOMAIN records : h + 1 \in DOMAIN past.tab
  BY <1>1
<1>3. \A h \in DOMAIN records : After(h)' = After(h)
  BY <1>2 DEF After
<1>4. \A h : Known(h)' = Known(h)
  BY DEF Known
<1>. QED BY <1>3, <1>4 DEF Reversible

LEMMA InertReversible ==
  ASSUME Frame, Reversible, block # None, UNCHANGED <<chain, block, past, records>>,
         SameTables(tab, tab'), SameNotes(staged.record, staged'.record),
         Indexing' => Indexing,
         OutsFrom(staged.cache, TxIds(block)) => OutsFrom(staged'.cache, TxIds(block))
  PROVE  Reversible'
<1>1. Known(Len(chain))' = Known(Len(chain))
  BY DEF Known
<1>2. ASSUME past.clean PROVE Maps(tab') /\ Filled(tab') /\ Noted'
  <2>1. Maps(tab) /\ Filled(tab) /\ Noted
    BY <1>2 DEF Reversible
  <2>2. Reverts(past.tab[Len(chain)], tab', Len(chain), staged'.record)
    BY <2>1, SameReverts DEF Noted
  <2>3. Indexing' => staged'.record.outpoints = {}
    BY <2>1 DEF Noted, SameNotes
  <2>4. Origin(tab', Known(Len(chain)) \cup TxIds(block)) /\ Maps(tab') /\ Filled(tab')
    BY <2>1, SameWhole DEF Noted
  <2>5. OutsFrom(staged'.cache, TxIds(block))
    BY <2>1 DEF Noted
  <2>. QED BY <1>1, <2>2, <2>3, <2>4, <2>5 DEF Noted
<1>. QED BY <1>2, NotedStep

-----------------------------------------------------------------------------
(* The steps                                                                 *)

LEMMA InitReversible == ASSUME Init PROVE Reversible
<1>1. /\ tab = NoTables /\ block = None /\ past.tab = << >> /\ chain = << >> /\ records = << >>
  BY DEF Init
<1>2. /\ DOMAIN past.tab = {} /\ DOMAIN records = {}
  BY <1>1
<1>3. /\ NoTables.entries = << >> /\ NoTables.numbers = << >> /\ NoTables.ids = << >>
      /\ NoTables.children = << >> /\ NoTables.satSeqs = << >> /\ NoTables.utxo = << >>
      /\ NoTables.last = << >>
  BY DEF NoTables
<1>4. DOMAIN << >> = {} /\ << >> = [x \in DOMAIN << >> |-> << >>[x]]
  OBVIOUS
<1>5. Maps(tab) /\ Filled(tab)
  BY <1>1, <1>3, <1>4 DEF Maps, Filled
<1>6. \A X : Origin(tab, X)
  BY <1>1, <1>3, <1>4 DEF Origin, OutsFrom
<1>. QED BY <1>1, <1>2, <1>5, <1>6 DEF Reversible

LEMMA StageReversible == ASSUME Frame, LastsOK, Reversible, Stage PROVE Reversible'
<1>. DEFINE n == Len(chain)
<1>1. /\ block = None /\ staged = NoStaged /\ tab' = tab /\ chain' = chain /\ staged' = staged
      /\ records' = records
  BY DEF Stage, Frame, Control
<1>2. PICK b \in Blocks : /\ block' = b /\ past' = [past EXCEPT !.tab = Put(past.tab, Height[b], tab)]
  BY DEF Stage
<1>3. b # None /\ Height[b] = n
  <2>1. Linked'
    BY StageFrame DEF Frame
  <2>2. block' # None
    BY <1>2, NoneAssumption
  <2>. QED BY <1>1, <1>2, <2>1, <2>2 DEF Linked
<1>4. past'.tab = Put(past.tab, n, tab) /\ past'.clean = past.clean
  BY <1>2, <1>3 DEF Frame, Types, PastOK
<1>5. /\ n \in Nat /\ DOMAIN past.tab = 0..n - 1 /\ DOMAIN records = 0..n - 1
      /\ n \notin DOMAIN tab.last
  BY <1>1 DEF Frame, Linked, LastsOK
<1>6. /\ DOMAIN past'.tab = 0..n /\ past'.tab[n] = tab
      /\ \A h \in 0..n - 1 : past'.tab[h] = past.tab[h]
  BY <1>4, <1>5 DEF Put
<1>7. \A h \in DOMAIN records : After(h)' = After(h)
  <2>. SUFFICES ASSUME NEW h \in 0..n - 1 PROVE After(h)' = After(h)
    BY <1>5
  <2>1. CASE h + 1 = n
    <3>1. h + 1 \in DOMAIN past'.tab /\ h + 1 \notin DOMAIN past.tab /\ past'.tab[h + 1] = tab
      BY <1>5, <1>6, <2>1
    <3>. QED BY <1>1, <3>1 DEF After
  <2>2. CASE h + 1 # n
    <3>1. h + 1 \in DOMAIN past'.tab /\ h + 1 \in DOMAIN past.tab /\ past'.tab[h + 1] = past.tab[h + 1]
      BY <1>5, <1>6, <2>2
    <3>. QED BY <3>1 DEF After
  <2>. QED BY <2>1, <2>2
<1>8. \A h : Known(h)' = Known(h)
  BY <1>1 DEF Known
<1>9. ASSUME past.clean PROVE Noted'
  <2>1. /\ NoStaged.record = NoRecord /\ NoStaged.cache = << >> /\ NoRecord.outpoints = {}
    BY DEF NoStaged, NoRecord
  <2>2. Maps(tab) /\ Filled(tab) /\ Origin(tab, Known(n))
    BY <1>1, <1>9 DEF Reversible
  <2>3. Reverts(tab, tab, n, NoRecord)
    BY <1>5, <2>2, StageReverts
  <2>4. Origin(tab, Known(n) \cup TxIds(b))
    BY <2>2 DEF Origin, OutsFrom
  <2>5. OutsFrom(<< >>, TxIds(b))
    BY DEF OutsFrom
  <2>. QED BY <1>1, <1>2, <1>6, <1>8, <2>1, <2>3, <2>4, <2>5 DEF Noted
<1>10. \A h \in 0..n : h = n \/ h \in 0..n - 1
  BY <1>5
<1>11. ASSUME past.clean
       PROVE  \A h \in DOMAIN past'.tab :
                Maps(past'.tab[h]) /\ Filled(past'.tab[h]) /\ Origin(past'.tab[h], Known(h))
  BY <1>1, <1>5, <1>6, <1>10, <1>11 DEF Reversible
<1>12. ASSUME past.clean
       PROVE  \A h \in DOMAIN records' : Reverts(past'.tab[h], After(h)', h, records'[h])
  BY <1>1, <1>5, <1>6, <1>7, <1>12 DEF Reversible
<1>13. block' # None
  BY <1>2, <1>3
<1>. QED BY <1>1, <1>4, <1>8, <1>9, <1>11, <1>12, <1>13 DEF Reversible

LEMMA SameSame == \A t : SameTables(t, t) /\ SameNotes(t, t)
  BY DEF SameTables, SameNotes

LEMMA QuietReversible ==
  ASSUME Frame, Reversible,
         Begin \/ Continue \/ Take \/ FinishInput \/ FinishInputs \/ Place \/ NextOutput
           \/ FinishOutputs \/ FinishLocations
  PROVE  Reversible'
<1>1. block # None /\ UNCHANGED <<chain, block, past, records, tab, staged>>
  <2>1. UNCHANGED <<chain, block, past, records, tab, staged>> /\ (Begin \/ run # Absent)
    BY DEF Begin, Continue, Take, FinishInput, FinishInputs, Place, NextOutput, FinishOutputs,
           FinishLocations, AtInput, Placeable, AtOutputs, AtLocations
  <2>2. block # None
    BY <2>1 DEF Begin, Frame, Control, Indexing
  <2>. QED BY <2>1, <2>2
<1>2. Indexing' => Indexing
  BY <1>1 DEF Indexing
<1>. QED BY <1>1, <1>2, SameSame, InertReversible

LEMMA CommitInscriptionReversible ==
  ASSUME Frame, Reversible, CommitInscription PROVE Reversible'
<1>. DEFINE points == Put(tab.points, Head(staged.pending)[1],
                          [outpoint |-> staged.outpoint, offset |-> Head(staged.pending)[2]])
            noted == staged.record.points \cup {Head(staged.pending)[1]}
            pending == Tail(staged.pending)
            record == [staged.record EXCEPT !.points = noted]
<1>1. /\ block # None /\ UNCHANGED <<chain, block, past, records>> /\ TabShape(tab)
      /\ StagedShape(staged) /\ RecordShape(staged.record)
      /\ tab' = [tab EXCEPT !.points = points]
      /\ staged' = [staged EXCEPT !.pending = pending, !.record.points = noted]
  BY DEF CommitInscription, Committing, Frame, Types, TabOK, StagedOK, RecordOK
<1>. HIDE DEF points, noted, pending
<1>2. staged' = [staged EXCEPT !.pending = pending, !.record = record]
  BY <1>1 DEF StagedShape
<1>3. SameNotes(staged.record, record)
  BY <1>1 DEF SameNotes, RecordShape
<1>. HIDE DEF record
<1>4. /\ staged'.record = record /\ staged'.cache = staged.cache /\ staged'.state = staged.state
  BY <1>1, <1>2 DEF StagedShape
<1>5. SameTables(tab, tab')
  BY <1>1 DEF SameTables, TabShape
<1>6. Indexing' => Indexing
  BY <1>1, <1>4 DEF Indexing
<1>. QED BY <1>1, <1>3, <1>4, <1>5, <1>6, InertReversible

LEMMA FinishTransactionReversible ==
  ASSUME Frame, Reversible, FinishTransaction PROVE Reversible'
<1>. DEFINE outs == [o \in {<<T.id, v>> : v \in DOMAIN tx.outs} |-> tx.outs[o[2]]]
            cache == PutAll(staged.cache, outs)
<1>1. /\ run # Absent /\ tx # Absent /\ block # None /\ UNCHANGED <<chain, block, past, records, tab>>
      /\ StagedShape(staged) /\ staged' = [staged EXCEPT !.cache = cache]
      /\ Indexing
  BY DEF FinishTransaction, Frame, Control, Indexing, Types, StagedOK
<1>2. T.id \in TxIds(block)
  BY <1>1, ThisIdHere
<1>3. \A o \in DOMAIN outs : o[1] = T.id
  OBVIOUS
<1>. HIDE DEF outs
<1>4. DOMAIN cache = DOMAIN staged.cache \cup DOMAIN outs
  BY DEF PutAll
<1>. HIDE DEF cache
<1>5. OutsFrom(staged.cache, TxIds(block)) => OutsFrom(cache, TxIds(block))
  BY <1>2, <1>3, <1>4 DEF OutsFrom
<1>6. staged'.cache = cache /\ staged'.record = staged.record
  BY <1>1 DEF StagedShape
<1>. QED BY <1>1, <1>5, <1>6, SameSame, InertReversible

\* The last sequence number is written.
LEMMA LastReversible ==
  ASSUME Frame, Reversible, block # None, UNCHANGED <<chain, block, past, records>>,
         NEW v, tab'.last = Put(tab.last, Len(chain), v),
         tab'.entries = tab.entries, tab'.ids = tab.ids, tab'.numbers = tab.numbers,
         tab'.satSeqs = tab.satSeqs, tab'.children = tab.children, tab'.utxo = tab.utxo,
         SameNotes(staged.record, staged'.record), Indexing,
         OutsFrom(staged.cache, TxIds(block)) => OutsFrom(staged'.cache, TxIds(block))
  PROVE  Reversible'
<1>. DEFINE n == Len(chain)
            b == past.tab[n]
<1>1. Known(n)' = Known(n)
  BY DEF Known
<1>2. ASSUME past.clean PROVE Maps(tab') /\ Filled(tab') /\ Noted'
  <2>1. Maps(tab) /\ Filled(tab) /\ Noted
    BY <1>2 DEF Reversible
  <2>2. tab'.last = [x \in DOMAIN tab'.last |-> tab'.last[x]]
    BY DEF Put
  <2>3. Maps(tab') /\ Filled(tab')
    BY <2>1, <2>2 DEF Maps, Filled
  <2>4. Reverts(b, tab', n, staged'.record)
    <3>1. Reverts(b, tab, n, staged.record)
      BY <2>1 DEF Noted
    <3>. HIDE DEF b, n
    <3>2. Grown(b.last, Put(tab.last, n, v), {n} \cup {n})
      BY <3>1, PutGrown DEF Reverts
    <3>3. Grown(b.last, tab'.last, {n})
      BY <3>2 DEF n
    <3>. QED BY <3>1, <3>3 DEF Reverts, SameNotes
  <2>5. staged'.record.outpoints = {}
    BY <2>1 DEF Noted, SameNotes
  <2>6. Origin(tab', Known(n) \cup TxIds(block))
    BY <2>1 DEF Origin, Noted
  <2>7. OutsFrom(staged'.cache, TxIds(block))
    BY <2>1 DEF Noted
  <2>. QED BY <1>1, <2>3, <2>4, <2>5, <2>6, <2>7 DEF Noted
<1>. QED BY <1>2, NotedStep

LEMMA BreakReversible == ASSUME Frame, Reversible, Break PROVE Reversible'
<1>1. /\ run # Absent /\ UNCHANGED <<chain, block, past, records, staged>> /\ TabShape(tab)
      /\ tab' = [tab EXCEPT !.last = Put(tab.last, H, run.next),
                            !.stats = [run.stats EXCEPT !.lost = tab.stats.lost]]
  BY DEF Break, BreakInputs, BreakOutputs, BreakLocations, AtInput, Placeable, AtOutputs,
         AtLocations, Suspend, Frame, Types, TabOK
<1>2. block # None /\ Indexing /\ H = Len(chain)
  BY <1>1, TxsFacts DEF Frame, Control, Indexing
<1>. DEFINE last == Put(tab.last, H, run.next)
            stats == [run.stats EXCEPT !.lost = tab.stats.lost]
<1>3. tab' = [tab EXCEPT !.last = last, !.stats = stats]
  BY <1>1
<1>. HIDE DEF last, stats
<1>4. /\ tab'.last = last /\ tab'.entries = tab.entries /\ tab'.ids = tab.ids
      /\ tab'.numbers = tab.numbers /\ tab'.satSeqs = tab.satSeqs
      /\ tab'.children = tab.children /\ tab'.utxo = tab.utxo
  BY <1>1, <1>3 DEF TabShape
<1>5. tab'.last = Put(tab.last, Len(chain), run.next)
  BY <1>2, <1>4 DEF last
<1>. QED BY <1>1, <1>2, <1>4, <1>5, SameSame, LastReversible

LEMMA FinishBlockReversible == ASSUME Frame, Reversible, FinishBlock PROVE Reversible'
<1>. DEFINE rare == RareOn(Null, run.lost, tab.stats.lost)
            null == Merged(Cached(staged.cache, Null), [sats |-> run.lost, ins |-> << >>])
            last == Put(tab.last, H, run.next)
            satPoints == PutAll(tab.satPoints, rare)
            stats == [run.stats EXCEPT !.lost = tab.stats.lost + Len(run.lost)]
            cache == IF run.lost = << >> THEN staged.cache ELSE Put(staged.cache, Null, null)
            noted == staged.record.satPoints \cup DOMAIN rare
            before == tab.stats
            record == [staged.record EXCEPT !.satPoints = noted, !.stats = before]
            commit == "Commit"
<1>1. /\ run # Absent /\ UNCHANGED <<chain, block, past, records>> /\ TabShape(tab)
      /\ StagedShape(staged) /\ RecordShape(staged.record)
      /\ tab' = [tab EXCEPT !.last = last, !.satPoints = satPoints, !.stats = stats]
      /\ staged' = [staged EXCEPT !.state = commit, !.cache = cache,
                                  !.record.satPoints = noted, !.record.stats = before]
  BY DEF FinishBlock, Frame, Types, TabOK, StagedOK, RecordOK
<1>2. block # None /\ Indexing /\ H = Len(chain)
  BY <1>1, TxsFacts DEF Frame, Control, Indexing
<1>3. \A o \in DOMAIN cache : o \in DOMAIN staged.cache \/ o \in Special
  BY DEF Put, Special
<1>4. last = Put(tab.last, Len(chain), run.next)
  BY <1>2
<1>. HIDE DEF last, satPoints, stats, cache, noted, before, commit
<1>5. staged' = [staged EXCEPT !.state = commit, !.cache = cache, !.record = record]
  BY <1>1 DEF StagedShape
<1>6. SameNotes(staged.record, record)
  BY <1>1 DEF SameNotes, RecordShape
<1>. HIDE DEF record
<1>7. /\ tab'.last = last /\ tab'.entries = tab.entries /\ tab'.ids = tab.ids
      /\ tab'.numbers = tab.numbers /\ tab'.satSeqs = tab.satSeqs
      /\ tab'.children = tab.children /\ tab'.utxo = tab.utxo
  BY <1>1 DEF TabShape
<1>8. staged'.record = record /\ staged'.cache = cache
  BY <1>1, <1>5 DEF StagedShape
<1>9. OutsFrom(staged.cache, TxIds(block)) => OutsFrom(cache, TxIds(block))
  BY <1>3 DEF OutsFrom
<1>. QED BY <1>1, <1>2, <1>4, <1>6, <1>7, <1>8, <1>9, LastReversible

LEMMA SpendReversible == ASSUME Frame, Reversible, Spend PROVE Reversible'
<1>. DEFINE n == Len(chain)
            b == past.tab[n]
            spent == IF Coinbase THEN {} ELSE ToSet(T.ins)
            stored == spent \ DOMAIN staged.cache
            pairs == {<<o, tab.utxo[o]>> : o \in stored}
            entry(o) == IF o \in DOMAIN staged.cache THEN staged.cache[o] ELSE tab.utxo[o]
            ins == IF Coinbase THEN << >> ELSE [i \in DOMAIN T.ins |-> entry(T.ins[i])]
            inSats == IF Coinbase THEN run.fees ELSE SatsOf(ins, Len(ins))
            rare == RareOnOutputs(Outputs(inSats))
            utxo == Drop(tab.utxo, stored)
            satPoints == PutAll(tab.satPoints, rare)
            cache == Drop(staged.cache, spent)
            removed == staged.record.removed \cup pairs
            noted == staged.record.satPoints \cup DOMAIN rare
            record == [staged.record EXCEPT !.removed = removed, !.satPoints = noted]
<1>1. /\ run # Absent /\ UNCHANGED <<chain, block, past, records>> /\ TabShape(tab)
      /\ StagedShape(staged) /\ RecordShape(staged.record)
      /\ stored \subseteq DOMAIN tab.utxo
      /\ tab' = [tab EXCEPT !.utxo = utxo, !.satPoints = satPoints]
      /\ staged' = [staged EXCEPT !.cache = cache, !.record.removed = removed,
                                  !.record.satPoints = noted]
  BY DEF Spend, Frame, Types, TabOK, StagedOK, RecordOK
<1>2. block # None /\ Indexing
  BY <1>1 DEF Frame, Control, Indexing
<1>3. \A o \in DOMAIN cache : o \in DOMAIN staged.cache
  BY DEF Drop
<1>4. \A o \in DOMAIN utxo : o \in DOMAIN tab.utxo
  BY DEF Drop
<1>5. utxo = [o \in DOMAIN utxo |-> utxo[o]]
  BY DEF Drop
<1>6. Known(n)' = Known(n)
  BY <1>1 DEF Known
<1>7. ASSUME NEW f, Spends(f, tab.utxo, {}, staged.record.removed)
      PROVE  Spends(f, utxo, {}, removed)
  <2>. HIDE DEF stored
  <2>. QED BY <1>1, <1>7, SpendSpends
<1>. HIDE DEF utxo, satPoints, cache, removed, noted
<1>8. staged' = [staged EXCEPT !.cache = cache, !.record = record]
  BY <1>1 DEF StagedShape
<1>9. /\ record.entries = staged.record.entries /\ record.ids = staged.record.ids
      /\ record.numbers = staged.record.numbers /\ record.satSeqs = staged.record.satSeqs
      /\ record.children = staged.record.children /\ record.removed = removed
      /\ record.outpoints = staged.record.outpoints
  BY <1>1 DEF RecordShape
<1>. HIDE DEF record
<1>10. /\ tab'.last = tab.last /\ tab'.entries = tab.entries /\ tab'.ids = tab.ids
       /\ tab'.numbers = tab.numbers /\ tab'.satSeqs = tab.satSeqs
       /\ tab'.children = tab.children /\ tab'.utxo = utxo
  BY <1>1 DEF TabShape
<1>11. staged'.record = record /\ staged'.cache = cache
  BY <1>1, <1>8 DEF StagedShape
<1>12. ASSUME past.clean PROVE Maps(tab') /\ Filled(tab') /\ Noted'
  <2>1. Maps(tab) /\ Filled(tab) /\ Noted
    BY <1>2, <1>12 DEF Reversible
  <2>2. Maps(tab') /\ Filled(tab')
    BY <1>5, <1>10, <2>1 DEF Maps, Filled
  <2>3. Reverts(b, tab', n, record) /\ record.outpoints = {}
    <3>1. Reverts(b, tab, n, staged.record) /\ staged.record.outpoints = {}
      BY <1>2, <2>1 DEF Noted
    <3>. HIDE DEF b, n
    <3>2. Spends(b.utxo, utxo, {}, removed)
      BY <1>7, <3>1 DEF Reverts
    <3>. QED BY <1>9, <1>10, <3>1, <3>2 DEF Reverts
  <2>4. Origin(tab', Known(n) \cup TxIds(block))
    BY <1>4, <1>10, <2>1 DEF Origin, OutsFrom, Noted
  <2>5. OutsFrom(cache, TxIds(block))
    BY <1>3, <2>1 DEF Noted, OutsFrom
  <2>. QED BY <1>1, <1>6, <1>11, <2>2, <2>3, <2>4, <2>5 DEF Noted
<1>. QED BY <1>1, <1>2, <1>12, NotedStep

LEMMA CommitOutputReversible == ASSUME Frame, Reversible, CommitOutput PROVE Reversible'
<1>. DEFINE n == Len(chain)
            b == past.tab[n]
            o == CHOOSE o \in DOMAIN staged.cache : TRUE
            entry == IF o \in Special /\ o \in DOMAIN tab.utxo
                     THEN Merged(tab.utxo[o], staged.cache[o]) ELSE staged.cache[o]
            utxo == Put(tab.utxo, o, entry)
            cache == Drop(staged.cache, {o})
            outpoints == staged.record.outpoints \cup {o}
            pending == entry.ins
            record == [staged.record EXCEPT !.outpoints = outpoints]
<1>1. /\ block # None /\ staged.state = "Commit" /\ UNCHANGED <<chain, block, past, records>>
      /\ TabShape(tab) /\ StagedShape(staged) /\ RecordShape(staged.record)
      /\ DOMAIN staged.cache # {}
      /\ tab' = [tab EXCEPT !.utxo = utxo]
      /\ staged' = [staged EXCEPT !.cache = cache, !.outpoint = o, !.pending = pending,
                                  !.record.outpoints = outpoints]
  <2>1. /\ block # None /\ staged.state = "Commit" /\ UNCHANGED <<chain, block, past, records>>
        /\ TabShape(tab) /\ StagedShape(staged) /\ RecordShape(staged.record)
        /\ staged.cache # << >> /\ EntriesOK(staged.cache)
        /\ tab' = [tab EXCEPT !.utxo = utxo]
        /\ staged' = [staged EXCEPT !.cache = cache, !.outpoint = o, !.pending = pending,
                                    !.record.outpoints = outpoints]
    BY DEF CommitOutput, Committing, Frame, Types, TabOK, StagedOK, RecordOK
  <2>. HIDE DEF o, utxo, cache, pending, outpoints
  <2>2. DOMAIN staged.cache # {}
    <3>1. ASSUME NEW f, f = [x \in DOMAIN f |-> f[x]], DOMAIN f = {} PROVE f = << >>
      BY <3>1
    <3>. QED BY <2>1, <3>1 DEF EntriesOK
  <2>. QED BY <2>1, <2>2
<1>2. o \in DOMAIN staged.cache
  BY <1>1
<1>3. \A p \in DOMAIN cache : p \in DOMAIN staged.cache
  BY DEF Drop
<1>. HIDE DEF o
<1>4. DOMAIN utxo = DOMAIN tab.utxo \cup {o} /\ utxo = [p \in DOMAIN utxo |-> utxo[p]]
  BY DEF Put
<1>5. Known(n)' = Known(n)
  BY <1>1 DEF Known
<1>6. ASSUME NEW f, Spends(f, tab.utxo, staged.record.outpoints, staged.record.removed)
      PROVE  Spends(f, utxo, outpoints, staged.record.removed)
  <2>. HIDE DEF entry
  <2>. QED BY <1>6, CommitSpends
<1>7. Known(n) \cap TxIds(block) = {}
  BY <1>1, TxsFacts DEF Frame
<1>. HIDE DEF utxo, cache, pending
<1>8. /\ record.entries = staged.record.entries /\ record.ids = staged.record.ids
      /\ record.numbers = staged.record.numbers /\ record.satSeqs = staged.record.satSeqs
      /\ record.children = staged.record.children /\ record.removed = staged.record.removed
      /\ record.outpoints = outpoints
  <2>. HIDE DEF outpoints
  <2>. QED BY <1>1 DEF RecordShape
<1>9. staged' = [staged EXCEPT !.cache = cache, !.outpoint = o, !.pending = pending,
                               !.record = record]
  <2>. HIDE DEF outpoints
  <2>. QED BY <1>1 DEF StagedShape
<1>. HIDE DEF record
<1>10. /\ tab'.last = tab.last /\ tab'.entries = tab.entries /\ tab'.ids = tab.ids
       /\ tab'.numbers = tab.numbers /\ tab'.satSeqs = tab.satSeqs
       /\ tab'.children = tab.children /\ tab'.utxo = utxo
  BY <1>1 DEF TabShape
<1>11. staged'.record = record /\ staged'.cache = cache /\ staged'.state = staged.state
  BY <1>1, <1>9 DEF StagedShape
<1>12. ASSUME past.clean PROVE Maps(tab') /\ Filled(tab') /\ Noted'
  <2>1. Maps(tab) /\ Filled(tab) /\ Noted /\ Origin(b, Known(n))
    <3>1. n \in DOMAIN past.tab
      BY <1>1 DEF Frame, Linked
    <3>. QED BY <1>1, <1>12, <3>1 DEF Reversible
  <2>2. Maps(tab') /\ Filled(tab')
    BY <1>4, <1>10, <2>1 DEF Maps, Filled
  <2>3. o \in Special \/ o[1] \in TxIds(block)
    BY <1>2, <2>1 DEF Noted, OutsFrom
  <2>4. Reverts(b, tab', n, record)
    <3>1. Reverts(b, tab, n, staged.record)
      BY <2>1 DEF Noted
    <3>2. o \in Special \/ o \notin DOMAIN b.utxo
      BY <1>7, <2>1, <2>3 DEF Origin, OutsFrom
    <3>. HIDE DEF b, n
    <3>3. Spends(b.utxo, utxo, outpoints, staged.record.removed)
      BY <1>6, <3>1 DEF Reverts
    <3>4. Without(b.utxo, outpoints \ Special)
      BY <3>1, <3>2 DEF Reverts, Without
    <3>. HIDE DEF outpoints
    <3>. QED BY <1>8, <1>10, <3>1, <3>3, <3>4 DEF Reverts
  <2>5. Origin(tab', Known(n) \cup TxIds(block))
    BY <1>4, <1>10, <2>1, <2>3 DEF Origin, OutsFrom, Noted
  <2>6. OutsFrom(cache, TxIds(block))
    BY <1>3, <2>1 DEF Noted, OutsFrom
  <2>7. ~Indexing'
    BY <1>1, <1>11 DEF Indexing
  <2>. QED BY <1>1, <1>5, <1>11, <2>2, <2>4, <2>5, <2>6, <2>7 DEF Noted
<1>. QED BY <1>1, <1>12, NotedStep

\* The transactions of the first n blocks of c.
IdsOf(c, n) == UNION {TxIds(c[i]) : i \in 1..n}

\* d has one block more than the n blocks of c.
OneMore(c, d, n, b) == n \in Nat /\ (\A i \in 1..n : d[i] = c[i]) /\ d[n + 1] = b

LEMMA IdsMore ==
  ASSUME NEW c, NEW d, NEW n, NEW b, OneMore(c, d, n, b)
  PROVE  /\ \A h \in 0..n : IdsOf(d, h) = IdsOf(c, h)
         /\ IdsOf(d, n + 1) = IdsOf(c, n) \cup TxIds(b)
<1>0. n \in Nat /\ (\A i \in 1..n : d[i] = c[i]) /\ d[n + 1] = b
  BY DEF OneMore
<1>1. \A e, h, x : x \in IdsOf(e, h) <=> \E i \in 1..h : x \in TxIds(e[i])
  BY DEF IdsOf
<1>2. ASSUME NEW h \in 0..n PROVE IdsOf(d, h) = IdsOf(c, h)
  <2>1. \A i \in 1..h : d[i] = c[i]
    BY <1>0
  <2>2. \A x : x \in IdsOf(d, h) <=> x \in IdsOf(c, h)
    BY <1>1, <2>1
  <2>. QED BY <2>2
<1>3. \A i : i \in 1..n + 1 <=> i \in 1..n \/ i = n + 1
  BY <1>0
<1>4. \A x : x \in IdsOf(d, n + 1) <=> (x \in IdsOf(c, n) \/ x \in TxIds(b))
  <2>. SUFFICES ASSUME NEW x
                PROVE  x \in IdsOf(d, n + 1) <=> (x \in IdsOf(c, n) \/ x \in TxIds(b))
    OBVIOUS
  <2>1. x \in IdsOf(d, n + 1) <=> \E i \in 1..n + 1 : x \in TxIds(d[i])
    BY <1>1
  <2>2. x \in IdsOf(c, n) <=> \E i \in 1..n : x \in TxIds(c[i])
    BY <1>1
  <2>. QED BY <1>0, <1>3, <2>1, <2>2
<1>. QED BY <1>2, <1>4

LEMMA KnownMore ==
  ASSUME chain \in Seq(Blocks), block \in Blocks, chain' = Append(chain, block)
  PROVE  /\ \A h \in 0..Len(chain) : Known(h)' = Known(h)
         /\ Len(chain') = Len(chain) + 1
         /\ Known(Len(chain))' = Known(Len(chain)) \cup TxIds(block)
<1>1. /\ Len(chain) \in Nat /\ Len(chain') = Len(chain) + 1
      /\ \A i \in 1..Len(chain) : chain'[i] = chain[i]
      /\ chain'[Len(chain) + 1] = block
  OBVIOUS
<1>2. /\ \A h \in 0..Len(chain) : IdsOf(chain', h) = IdsOf(chain, h)
      /\ IdsOf(chain', Len(chain) + 1) = IdsOf(chain, Len(chain)) \cup TxIds(block)
  <2>1. OneMore(chain, chain', Len(chain), block)
    BY <1>1 DEF OneMore
  <2>. QED BY <2>1, IdsMore
<1>. QED BY <1>1, <1>2 DEF Known, IdsOf

LEMMA SaveReversible == ASSUME Frame, Reversible, Save PROVE Reversible'
<1>. DEFINE n == Len(chain)
<1>1. /\ block # None /\ block' = None /\ chain' = Append(chain, block) /\ UNCHANGED <<tab, past>>
      /\ records' = Put(records, H, staged.record)
  BY DEF Save, Committing
<1>2. /\ chain \in Seq(Blocks) /\ block \in Blocks /\ H = n /\ n \in Nat
      /\ DOMAIN records = 0..n - 1 /\ DOMAIN past.tab = 0..n
  BY <1>1, TxsFacts DEF Frame, Linked
<1>3. /\ DOMAIN records' = 0..n /\ records'[n] = staged.record
      /\ \A h \in 0..n - 1 : records'[h] = records[h]
  <2>1. DOMAIN records' = (0..n - 1) \cup {n}
    BY <1>1, <1>2 DEF Put
  <2>2. (0..n - 1) \cup {n} = 0..n
    BY <1>2
  <2>3. \A h \in 0..n - 1 : h # n
    BY <1>2
  <2>. QED BY <1>1, <1>2, <2>1, <2>2, <2>3 DEF Put
<1>5. /\ \A h \in 0..n : Known(h)' = Known(h)
      /\ Known(Len(chain))' = Known(n) \cup TxIds(block)
  BY <1>1, <1>2, KnownMore
<1>6. \A h : After(h)' = After(h)
  BY <1>1 DEF After
<1>7. After(n) = tab
  <2>1. n + 1 \notin DOMAIN past.tab
    BY <1>2
  <2>. QED BY <2>1 DEF After
<1>8. \A h \in 0..n : h = n \/ h \in 0..n - 1
  BY <1>2
<1>. HIDE DEF n
<1>9. ASSUME past.clean
      PROVE  \A h \in DOMAIN records' : Reverts(past'.tab[h], After(h)', h, records'[h])
  <2>1. Reverts(past.tab[n], tab, n, staged.record)
    BY <1>1, <1>9 DEF Reversible, Noted, n
  <2>2. \A h \in 0..n - 1 : Reverts(past.tab[h], After(h), h, records[h])
    BY <1>2, <1>9 DEF Reversible
  <2>. QED BY <1>1, <1>3, <1>6, <1>7, <1>8, <2>1, <2>2
<1>10. ASSUME past.clean
       PROVE  /\ Maps(tab') /\ Filled(tab') /\ Origin(tab', Known(Len(chain))')
              /\ \A h \in DOMAIN past'.tab :
                   Maps(past'.tab[h]) /\ Filled(past'.tab[h]) /\ Origin(past'.tab[h], Known(h)')
  <2>1. /\ Maps(tab) /\ Filled(tab) /\ Origin(tab, Known(n) \cup TxIds(block))
    BY <1>1, <1>10 DEF Reversible, Noted, n
  <2>2. \A h \in DOMAIN past.tab :
          Maps(past.tab[h]) /\ Filled(past.tab[h]) /\ Origin(past.tab[h], Known(h))
    BY <1>10 DEF Reversible
  <2>. QED BY <1>1, <1>2, <1>5, <2>1, <2>2
<1>. QED BY <1>1, <1>9, <1>10 DEF Reversible

\* The numbers that are next are not in the tables yet, nor in those of before.
LEMMA NextFree ==
  ASSUME Frame, Listed, run # Absent, past.clean, NEW f
  PROVE  run.next \notin DOMAIN tab.entries /\ NewNumber(f) \notin DOMAIN tab.numbers
<1>. DEFINE b == run.stats.blessed
            c == run.stats.cursed
<1>1. /\ b \in Nat /\ c \in Nat /\ run.next = b + c
      /\ DOMAIN tab.entries = 0..b + c - 1 /\ DOMAIN tab.numbers = -c..b - 1
  <2>1. StatsOK(run.stats) /\ Numbered(tab, run.stats) /\ run.next = b + c
    BY DEF Frame, Types, RunOK, Listed, Indexed, Count
  <2>. QED BY <2>1 DEF StatsOK, Numbered
<1>2. NewNumber(f) = b \/ NewNumber(f) = -(c + 1)
  BY DEF NewNumber
<1>. HIDE DEF b, c
<1>3. b + c \notin 0..b + c - 1 /\ b \notin -c..b - 1 /\ -(c + 1) \notin -c..b - 1
  BY <1>1
<1>. QED BY <1>1, <1>2, <1>3

\* An inscription is entered: the record notes each new key and pair.
EntersOne(t, u, r, s, seq, number, id, sats, parents) ==
  /\ \E e : u.entries = Put(t.entries, seq, e)
  /\ u.numbers = Put(t.numbers, number, seq) /\ u.ids = Put(t.ids, id, seq)
  /\ u.satSeqs = AddTo(t.satSeqs, sats, seq) /\ u.children = AddTo(t.children, parents, seq)
  /\ u.last = t.last /\ u.utxo = t.utxo
  /\ s.entries = r.entries \cup {seq} /\ s.numbers = r.numbers \cup {number}
  /\ s.ids = r.ids \cup {id} /\ s.satSeqs = r.satSeqs \cup (sats \X {seq})
  /\ s.children = r.children \cup (parents \X {seq})
  /\ s.outpoints = r.outpoints /\ s.removed = r.removed

LEMMA EnterReverts ==
  ASSUME NEW b, NEW t, NEW u, NEW h, NEW r, NEW s, NEW seq, NEW number, NEW id,
         NEW sats, NEW parents, EntersOne(t, u, r, s, seq, number, id, sats, parents),
         Reverts(b, t, h, r), number \notin DOMAIN b.numbers, id \notin DOMAIN b.ids,
         \A k \in DOMAIN b.satSeqs : seq \notin b.satSeqs[k],
         \A k \in DOMAIN b.children : seq \notin b.children[k]
  PROVE  Reverts(b, u, h, s)
<1>1. Grown(b.entries, u.entries, s.entries)
  BY PutGrown DEF EntersOne, Reverts
<1>2. Grown(b.ids, u.ids, s.ids) /\ Without(b.ids, s.ids)
  <2>1. Grown(b.ids, u.ids, s.ids)
    BY PutGrown DEF EntersOne, Reverts
  <2>. QED BY <2>1 DEF EntersOne, Reverts, Without
<1>3. Grown(b.numbers, u.numbers, s.numbers) /\ Without(b.numbers, s.numbers)
  <2>1. Grown(b.numbers, u.numbers, s.numbers)
    BY PutGrown DEF EntersOne, Reverts
  <2>. QED BY <2>1 DEF EntersOne, Reverts, Without
<1>4. Added(b.satSeqs, u.satSeqs, s.satSeqs)
  <2>1. Added(b.satSeqs, AddTo(t.satSeqs, sats, seq), r.satSeqs \cup (sats \X {seq}))
    BY AddAdded DEF Reverts
  <2>. QED BY <2>1 DEF EntersOne
<1>5. Added(b.children, u.children, s.children)
  <2>1. Added(b.children, AddTo(t.children, parents, seq), r.children \cup (parents \X {seq}))
    BY AddAdded DEF Reverts
  <2>. QED BY <2>1 DEF EntersOne
<1>6. /\ Spends(b.utxo, u.utxo, s.outpoints, s.removed) /\ Without(b.utxo, s.outpoints \ Special)
      /\ Grown(b.last, u.last, {h}) /\ Without(b.last, {h})
  BY DEF EntersOne, Reverts
<1>. QED BY <1>1, <1>2, <1>3, <1>4, <1>5, <1>6 DEF Reverts

LEMMA EnterMaps ==
  ASSUME NEW t, NEW u, NEW r, NEW s, NEW seq, NEW number, NEW id, NEW sats, NEW parents,
         EntersOne(t, u, r, s, seq, number, id, sats, parents), Maps(t), Filled(t)
  PROVE  /\ Maps(u) /\ Filled(u)
         /\ \A X : Origin(t, X) /\ id[1] \in X => Origin(u, X)
<1>1. u.entries = [x \in DOMAIN u.entries |-> u.entries[x]]
  <2>1. \A f, x, e : LET g == Put(f, x, e) IN g = [y \in DOMAIN g |-> g[y]]
    BY DEF Put
  <2>. QED BY <2>1 DEF EntersOne
<1>2. /\ u.numbers = [x \in DOMAIN u.numbers |-> u.numbers[x]]
      /\ u.ids = [x \in DOMAIN u.ids |-> u.ids[x]] /\ DOMAIN u.ids = DOMAIN t.ids \cup {id}
  BY DEF EntersOne, Put
<1>3. Lists(u.satSeqs)
  <2>1. Lists(AddTo(t.satSeqs, sats, seq))
    BY AddFilled DEF Filled
  <2>. QED BY <2>1 DEF EntersOne
<1>4. Lists(u.children)
  <2>1. Lists(AddTo(t.children, parents, seq))
    BY AddFilled DEF Filled
  <2>. QED BY <2>1 DEF EntersOne
<1>5. u.last = t.last /\ u.utxo = t.utxo
  BY DEF EntersOne
<1>6. Maps(u)
  BY <1>1, <1>2, <1>3, <1>4, <1>5 DEF Maps, Lists
<1>7. Filled(u)
  BY <1>3, <1>4 DEF Filled, Lists
<1>8. \A X : Origin(t, X) /\ id[1] \in X => Origin(u, X)
  BY <1>2, <1>5 DEF Origin
<1>. QED BY <1>6, <1>7, <1>8

\* One that was there gets a charm: the record notes its number.
BurnsOne(t, u, r, s, seq) ==
  /\ u.entries = Burned(t.entries, seq) /\ s.entries = r.entries \cup {seq}
  /\ u.ids = t.ids /\ u.numbers = t.numbers /\ u.last = t.last /\ u.satSeqs = t.satSeqs
  /\ u.children = t.children /\ u.utxo = t.utxo
  /\ s.ids = r.ids /\ s.numbers = r.numbers /\ s.satSeqs = r.satSeqs
  /\ s.children = r.children /\ s.outpoints = r.outpoints /\ s.removed = r.removed

LEMMA BurnReverts ==
  ASSUME NEW b, NEW t, NEW u, NEW h, NEW r, NEW s, NEW seq, Reverts(b, t, h, r), Maps(t), Filled(t),
         BurnsOne(t, u, r, s, seq)
  PROVE  /\ Reverts(b, u, h, s) /\ Maps(u) /\ Filled(u)
         /\ \A X : Origin(t, X) => Origin(u, X)
<1>1. Grown(b.entries, Burned(t.entries, seq), r.entries \cup {seq})
  BY BurnGrown DEF Reverts
<1>2. Grown(b.entries, u.entries, s.entries)
  BY <1>1 DEF BurnsOne
<1>3. u.entries = [x \in DOMAIN u.entries |-> u.entries[x]]
  <2>1. \A f, y : f = [x \in DOMAIN f |-> f[x]]
                    => Burned(f, y) = [x \in DOMAIN Burned(f, y) |-> Burned(f, y)[x]]
    BY DEF Burned
  <2>. QED BY <2>1 DEF Maps, BurnsOne
<1>4. Reverts(b, u, h, s)
  BY <1>2 DEF Reverts, BurnsOne
<1>5. Maps(u)
  BY <1>3 DEF Maps, BurnsOne
<1>6. Filled(u) /\ \A X : Origin(t, X) => Origin(u, X)
  BY DEF Filled, Origin, BurnsOne
<1>. QED BY <1>4, <1>5, <1>6

LEMMA SettlesReversible ==
  ASSUME Frame, Listed, NewHere, Reversible, Locate \/ Lose PROVE Reversible'
<1>. DEFINE n == Len(chain)
            b == past.tab[n]
<1>1. /\ run # Absent /\ block # None /\ Indexing /\ UNCHANGED <<chain, records, block, past>>
      /\ TabOK(tab) /\ StagedOK(staged) /\ RunOK(run)
  BY SettlesOne
<1>2. PICK f, o, burn, cache : /\ Settled(f, o, burn, cache)
                               /\ f.new = Absent \/ f.id[1] \in TxIds(block)
                               /\ \A p \in DOMAIN cache : p \in DOMAIN staged.cache \cup Special
  BY SettlesNew
<1>3. OutsFrom(staged.cache, TxIds(block)) => OutsFrom(cache, TxIds(block))
  BY <1>2 DEF OutsFrom
<1>4. Known(n)' = Known(n)
  BY <1>1 DEF Known
<1>5. n \in DOMAIN past.tab /\ n \in Nat /\ Known(n) \cap TxIds(block) = {}
  BY <1>1, TxsFacts DEF Frame, Linked
<1>. HIDE DEF n
<1>6. CASE f.new = Absent
  <2>1. Transfers(f, burn, cache)
    BY <1>1, <1>2, <1>6, TransferFacts DEF Settled
  <2>2. CASE ~burn
    <3>1. SameTables(tab, tab') /\ SameNotes(staged.record, staged'.record)
      BY <2>1, <2>2 DEF Transfers, SameTables, SameNotes
    <3>2. staged'.cache = cache
      BY <2>1 DEF Transfers
    <3>. QED BY <1>1, <1>3, <3>1, <3>2, InertReversible
  <2>3. CASE burn
    <3>1. ASSUME past.clean PROVE Maps(tab') /\ Filled(tab') /\ Noted'
      <4>1. Maps(tab) /\ Filled(tab) /\ Noted
        BY <1>1, <3>1 DEF Reversible
      <4>2. Reverts(b, tab, n, staged.record) /\ staged.record.outpoints = {}
            /\ Origin(tab, Known(n) \cup TxIds(block)) /\ OutsFrom(staged.cache, TxIds(block))
        BY <1>1, <4>1 DEF Noted, n
      <4>. HIDE DEF b
      <4>3. /\ Reverts(b, tab', n, staged'.record) /\ Maps(tab') /\ Filled(tab')
            /\ \A X : Origin(tab, X) => Origin(tab', X)
        <5>1. BurnsOne(tab, tab', staged.record, staged'.record, f.seq)
          BY <2>1, <2>3 DEF Transfers, BurnsOne
        <5>. QED BY <4>1, <4>2, <5>1, BurnReverts
      <4>4. staged'.cache = cache /\ staged'.record.outpoints = {}
        BY <2>1, <4>2 DEF Transfers
      <4>. QED BY <1>1, <1>3, <1>4, <4>2, <4>3, <4>4 DEF Noted, n, b
    <3>. QED BY <1>1, <3>1, NotedStep
  <2>. QED BY <2>2, <2>3
<1>7. CASE f.new # Absent
  <2>1. Inscribes(f, o, burn, cache)
    BY <1>1, <1>2, <1>7, InscribeFacts DEF Settled
  <2>2. EntersOne(tab, tab', staged.record, staged'.record, run.next, NewNumber(f), f.id,
                  NewSats(f), NewParents(f))
    BY <2>1 DEF Inscribes, EntersOne
  <2>3. ASSUME past.clean PROVE Maps(tab') /\ Filled(tab') /\ Noted'
    <3>1. Maps(tab) /\ Filled(tab) /\ Noted /\ Origin(b, Known(n))
      BY <1>1, <1>5, <2>3 DEF Reversible
    <3>2. Reverts(b, tab, n, staged.record) /\ staged.record.outpoints = {}
          /\ Origin(tab, Known(n) \cup TxIds(block)) /\ OutsFrom(staged.cache, TxIds(block))
      BY <1>1, <3>1 DEF Noted, n
    <3>3. run.next \notin DOMAIN tab.entries /\ NewNumber(f) \notin DOMAIN tab.numbers
      BY <1>1, <2>3, NextFree
    <3>4. SatsAgree(b) /\ ChildrenAgree(b)
      BY <1>5, <2>3 DEF Listed, Indexed
    <3>. HIDE DEF b
    <3>5. \A x \in DOMAIN b.entries : x \in DOMAIN tab.entries
      BY <3>2 DEF Reverts, Grown
    <3>6. NewNumber(f) \notin DOMAIN b.numbers
      BY <3>2, <3>3 DEF Reverts, Grown
    <3>7. f.id[1] \in TxIds(block) /\ f.id \notin DOMAIN b.ids
      BY <1>2, <1>5, <1>7, <3>1 DEF Origin
    <3>8. /\ \A k \in DOMAIN b.satSeqs : run.next \notin b.satSeqs[k]
          /\ \A k \in DOMAIN b.children : run.next \notin b.children[k]
      BY <3>3, <3>4, <3>5 DEF SatsAgree, ChildrenAgree
    <3>9. Reverts(b, tab', n, staged'.record)
      BY <2>2, <3>2, <3>6, <3>7, <3>8, EnterReverts
    <3>10. Maps(tab') /\ Filled(tab') /\ Origin(tab', Known(n) \cup TxIds(block))
      BY <2>2, <3>1, <3>2, <3>7, EnterMaps
    <3>11. staged'.cache = cache /\ staged'.record.outpoints = {}
      BY <2>1, <3>2 DEF Inscribes
    <3>. QED BY <1>1, <1>3, <1>4, <3>2, <3>9, <3>10, <3>11 DEF Noted, n, b
  <2>. QED BY <1>1, <2>3, NotedStep
<1>. QED BY <1>6, <1>7

LEMMA HandleReorgReversible == ASSUME Frame, Listed, Reversible, HandleReorg PROVE Reversible'
<1>1. PICK n \in 1..MaxUndo :
        /\ n <= Len(chain) - 1
        /\ records' = Drop(records, Len(chain) - 1 - n + 1 .. Len(chain) - 1)
        /\ chain' = SubSeq(chain, 1, Len(chain) - 1 - n + 1)
        /\ past' = [tab |-> Drop(past.tab, Len(chain) - 1 - n + 1 .. Len(chain) - 1),
                    reorgs |-> past.reorgs + 1,
                    clean |-> past.clean /\ Plain(tab') = Plain(past.tab[Len(chain) - 1 - n + 1])]
  BY DEF HandleReorg
<1>2. block = None /\ block' = None
  BY DEF HandleReorg
<1>3. /\ n \in Nat /\ Len(chain) \in Nat /\ chain \in Seq(Blocks)
      /\ DOMAIN records = 0..Len(chain) - 1 /\ DOMAIN past.tab = 0..Len(chain) - 1
  BY <1>2, UndoAssumption DEF Frame, Linked
<1>4. Frame'
  BY HandleReorgFrame DEF Frame
<1>. DEFINE m == Len(chain) - n
<1>5. /\ m \in 1..Len(chain) - 1 /\ m \in DOMAIN past.tab /\ m \in Nat
      /\ Len(chain) - 1 - n + 1 = m
  BY <1>1, <1>3
<1>6. Len(chain') = m /\ \A i \in 1..m : chain'[i] = chain[i]
  BY <1>1, <1>3, <1>5
<1>7. /\ past'.tab = Drop(past.tab, m..Len(chain) - 1)
      /\ records' = Drop(records, m..Len(chain) - 1)
      /\ past'.clean => past.clean /\ Plain(tab') = Plain(past.tab[m])
  BY <1>1, <1>5
<1>. HIDE DEF m
<1>8. /\ DOMAIN past'.tab = 0..m - 1 /\ DOMAIN records' = 0..m - 1
      /\ \A h \in 0..m - 1 : past'.tab[h] = past.tab[h] /\ records'[h] = records[h]
  <2>1. (0..Len(chain) - 1) \ (m..Len(chain) - 1) = 0..m - 1
    BY <1>3, <1>5
  <2>. QED BY <1>3, <1>7, <2>1 DEF Drop
<1>9. \A h \in 0..m : Known(h)' = Known(h)
  <2>1. ASSUME NEW h \in 0..m PROVE Known(h)' = Known(h)
    <3>1. \A i \in 1..h : chain'[i] = chain[i]
      BY <1>5, <1>6
    <3>2. IdsOf(chain', h) = IdsOf(chain, h)
      BY <3>1 DEF IdsOf
    <3>. QED BY <3>2 DEF Known, IdsOf
  <2>. QED BY <2>1
<1>10. Known(Len(chain))' = Known(m)
  <2>1. IdsOf(chain', m) = IdsOf(chain, m)
    <3>1. \A i \in 1..m : chain'[i] = chain[i]
      BY <1>6
    <3>. QED BY <3>1 DEF IdsOf
  <2>. QED BY <1>6, <2>1 DEF Known, IdsOf
<1>11. ASSUME past'.clean
       PROVE  /\ past.clean /\ SameTables(past.tab[m], tab') /\ Maps(past.tab[m])
              /\ Filled(past.tab[m]) /\ Origin(past.tab[m], Known(m))
  <2>1. TabShape(tab') /\ TabShape(past.tab[m]) /\ past.clean /\ Plain(past.tab[m]) = Plain(tab')
    BY <1>4, <1>5, <1>7, <1>11 DEF Frame, Types, TabOK, Listed
  <2>2. Alike(past.tab[m], tab')
    BY <2>1, AlikePlain
  <2>. QED BY <1>5, <2>1, <2>2 DEF Alike, SameTables, Reversible
<1>12. ASSUME past'.clean, NEW h \in 0..m - 1
       PROVE  Reverts(past.tab[h], After(h)', h, records[h])
  <2>0. past.clean /\ h \in DOMAIN records /\ h + 1 \in DOMAIN past.tab /\ h + 1 \in 0..m
    BY <1>3, <1>5, <1>11, <1>12
  <2>1. Reverts(past.tab[h], past.tab[h + 1], h, records[h])
    BY <2>0 DEF Reversible, After
  <2>2. CASE h + 1 = m
    <3>1. h + 1 \notin DOMAIN past'.tab
      BY <1>5, <1>8, <2>2
    <3>2. After(h)' = tab'
      BY <3>1 DEF After
    <3>3. SameTables(past.tab[h + 1], tab')
      BY <1>11, <1>12, <2>2
    <3>. QED BY <2>1, <3>2, <3>3, SameReverts, SameSame
  <2>3. CASE h + 1 # m
    <3>1. h + 1 \in DOMAIN past'.tab /\ past'.tab[h + 1] = past.tab[h + 1]
      BY <1>5, <1>8, <2>0, <2>3
    <3>2. After(h)' = past.tab[h + 1]
      BY <3>1 DEF After
    <3>. QED BY <2>1, <3>2
  <2>. QED BY <2>2, <2>3
<1>13. ASSUME past'.clean
       PROVE  /\ Maps(tab') /\ Filled(tab') /\ Origin(tab', Known(Len(chain))')
              /\ \A h \in DOMAIN past'.tab :
                   Maps(past'.tab[h]) /\ Filled(past'.tab[h]) /\ Origin(past'.tab[h], Known(h)')
  <2>1. Maps(tab') /\ Filled(tab') /\ Origin(tab', Known(m))
    BY <1>11, <1>13, SameWhole
  <2>2. \A h \in 0..m - 1 : h \in DOMAIN past.tab /\ h \in 0..m
    BY <1>3, <1>5
  <2>3. \A h \in DOMAIN past.tab :
          Maps(past.tab[h]) /\ Filled(past.tab[h]) /\ Origin(past.tab[h], Known(h))
    BY <1>11, <1>13 DEF Reversible
  <2>. QED BY <1>8, <1>9, <1>10, <2>1, <2>2, <2>3
<1>14. ASSUME past'.clean
       PROVE  \A h \in DOMAIN records' : Reverts(past'.tab[h], After(h)', h, records'[h])
  BY <1>8, <1>12, <1>14
<1>. QED BY <1>2, <1>13, <1>14 DEF Reversible

LEMMA NextReversible ==
  ASSUME Frame, LastsOK, Listed, NewHere, Reversible, [Next]_vars PROVE Reversible'
<1>1. CASE UNCHANGED vars
  BY <1>1 DEF vars, Reversible, Noted, After, Known, Indexing
<1>2. CASE Transaction
  BY <1>2, SpendReversible, QuietReversible, SettlesReversible, FinishTransactionReversible
     DEF Transaction
<1>. QED BY <1>1, <1>2, StageReversible, QuietReversible, BreakReversible, FinishBlockReversible,
            CommitOutputReversible, CommitInscriptionReversible, SaveReversible,
            HandleReorgReversible DEF Next

-----------------------------------------------------------------------------
(* A rollback                                                                *)

LEMMA AlikeAlike ==
  ASSUME NEW t, NEW u, NEW w, Alike(t, u), Alike(u, w)
  PROVE  Alike(t, w)
  BY DEF Alike

\* One more block undone.
LEMMA UndoOneMore ==
  ASSUME NEW b, NEW a, NEW u, NEW h, NEW r, TabShape(b), TabShape(a), TabShape(u),
         Maps(b), Reverts(b, a, h, r), Without(b.entries, r.entries),
         r.outpoints \cap Special = {}, r.stats = b.stats, Alike(a, u)
  PROVE  Alike(b, Undo(u, h, r))
<1>1. Alike(b, Undo(a, h, r)) /\ Alike(Undo(a, h, r), Undo(u, h, r))
  BY UndoExact, UndoAlike
<1>. QED BY <1>1, AlikeAlike

LEMMA UndoOnlyRemoves ==
  ASSUME NEW t, TabShape(t), NEW h, NEW r
  PROVE  /\ DOMAIN Undo(t, h, r).points \subseteq DOMAIN t.points
         /\ DOMAIN Undo(t, h, r).satPoints \subseteq DOMAIN t.satPoints
<1>1. UndoesOne(t, h, r, Undo(t, h, r))
  BY UndoFields
<1>. QED BY <1>1 DEF UndoesOne, Drop

\* handle_reorg undoes the last n blocks, of which the records note all.
LEMMA RollbackRestores ==
  ASSUME Frame, Listed, Reversible, block = None, NEW n \in Nat, n <= Len(chain) - 1, n >= 1,
         NEW u, u = Undone(Len(chain) - 1, n)
  PROVE  LET m == Len(chain) - n
         IN /\ past.clean /\ (\A i \in m..Len(chain) - 1 : ~Irreversible(i))
                 => Alike(past.tab[m], u)
            /\ DOMAIN u.points \subseteq DOMAIN tab.points
            /\ DOMAIN u.satPoints \subseteq DOMAIN tab.satPoints
<1>. DEFINE top == Len(chain) - 1
            m == Len(chain) - n
<1>1. /\ Len(chain) \in Nat /\ top \in Nat /\ m \in 1..top /\ m = top - n + 1
      /\ DOMAIN records = 0..top /\ DOMAIN past.tab = 0..top
  BY DEF Frame, Linked
<1>2. PICK g : Undoes(g, top, n)
  <2>1. top \in Int /\ top - n + 1 .. top \subseteq DOMAIN records /\ Types
    BY <1>1 DEF Frame
  <2>. HIDE DEF top
  <2>. QED BY <2>1, UndoneSteps
<1>. HIDE DEF top, m
<1>3. /\ g[0] = tab /\ g[n] = u
      /\ \A k \in 0..n : TabShape(g[k])
      /\ \A k \in 0..n - 1 : g[k + 1] = Undo(g[k], top - k, records[top - k])
  BY <1>2 DEF Undoes, TabOK, top
<1>4. /\ DOMAIN u.points \subseteq DOMAIN tab.points
      /\ DOMAIN u.satPoints \subseteq DOMAIN tab.satPoints
  <2>. DEFINE S == {k \in Nat : k <= n => /\ DOMAIN g[k].points \subseteq DOMAIN tab.points
                                          /\ DOMAIN g[k].satPoints \subseteq DOMAIN tab.satPoints}
  <2>1. 0 \in S
    BY <1>3
  <2>2. ASSUME NEW k \in Nat, k \in S PROVE k + 1 \in S
    <3>. SUFFICES ASSUME k + 1 <= n
                  PROVE  /\ DOMAIN g[k + 1].points \subseteq DOMAIN tab.points
                         /\ DOMAIN g[k + 1].satPoints \subseteq DOMAIN tab.satPoints
      OBVIOUS
    <3>1. /\ DOMAIN g[k].points \subseteq DOMAIN tab.points
          /\ DOMAIN g[k].satPoints \subseteq DOMAIN tab.satPoints
      BY <2>2
    <3>2. TabShape(g[k]) /\ g[k + 1] = Undo(g[k], top - k, records[top - k])
      BY <1>3
    <3>3. /\ DOMAIN g[k + 1].points \subseteq DOMAIN g[k].points
          /\ DOMAIN g[k + 1].satPoints \subseteq DOMAIN g[k].satPoints
      BY <3>2, UndoOnlyRemoves
    <3>. QED BY <3>1, <3>3
  <2>. HIDE DEF S
  <2>3. \A k \in Nat : k \in S
    BY <2>1, <2>2, NatSetInduction
  <2>4. n \in S
    BY <2>3
  <2>. QED BY <1>3, <2>4 DEF S
<1>5. ASSUME past.clean, \A i \in m..top : ~Irreversible(i) PROVE Alike(past.tab[m], u)
  <2>. DEFINE S == {k \in Nat : k <= n => Alike(After(top - k), g[k])}
  <2>1. 0 \in S
    <3>1. top + 1 \notin DOMAIN past.tab /\ top - 0 = top
      BY <1>1
    <3>2. After(top - 0) = tab
      BY <3>1 DEF After
    <3>3. Alike(tab, tab)
      BY DEF Alike
    <3>. QED BY <1>3, <3>2, <3>3
  <2>2. ASSUME NEW k \in Nat, k \in S PROVE k + 1 \in S
    <3>. SUFFICES ASSUME k + 1 <= n PROVE Alike(After(top - (k + 1)), g[k + 1])
      OBVIOUS
    <3>. DEFINE i == top - k
    <3>1. Alike(After(i), g[k])
      BY <2>2
    <3>2. TabShape(g[k]) /\ g[k + 1] = Undo(g[k], i, records[i])
      BY <1>3
    <3>3. i \in m..top /\ i \in DOMAIN records /\ i \in DOMAIN past.tab /\ top - (k + 1) = i - 1
          /\ i - 1 + 1 = i
      BY <1>1
    <3>. HIDE DEF i
    <3>4. After(i - 1) = past.tab[i]
      BY <3>3 DEF After
    <3>5. Maps(past.tab[i]) /\ Reverts(past.tab[i], After(i), i, records[i]) /\ ~Irreversible(i)
      BY <1>5, <3>3 DEF Reversible
    <3>6. TabShape(past.tab[i]) /\ TabShape(After(i))
      BY <3>3 DEF Listed, After, Frame, Types, TabOK
    <3>7. /\ Without(past.tab[i].entries, records[i].entries)
          /\ records[i].outpoints \cap Special = {} /\ records[i].stats = past.tab[i].stats
      BY <3>5 DEF Irreversible, Without
    <3>8. Alike(past.tab[i], Undo(g[k], i, records[i]))
      BY <3>1, <3>2, <3>5, <3>6, <3>7, UndoOneMore
    <3>. QED BY <3>2, <3>3, <3>4, <3>8
  <2>. HIDE DEF S
  <2>3. \A k \in Nat : k \in S
    BY <2>1, <2>2, NatSetInduction
  <2>4. Alike(After(top - n), g[n])
    BY <2>3 DEF S
  <2>5. top - n + 1 \in DOMAIN past.tab /\ top - n + 1 = m
    BY <1>1
  <2>. QED BY <1>3, <2>4, <2>5 DEF After
<1>. QED BY <1>4, <1>5 DEF top, m

LEMMA ReorgRestores ==
  ASSUME Frame, Listed, Reversible, HandleReorg
  PROVE  LET h == Len(chain')
         IN /\ (past.clean /\ \A i \in h..Len(chain) - 1 : ~Irreversible(i))
                 => Plain(tab') = Plain(past.tab[h])
            /\ DOMAIN tab'.points \subseteq DOMAIN tab.points
            /\ DOMAIN tab'.satPoints \subseteq DOMAIN tab.satPoints
<1>1. PICK n \in 1..MaxUndo :
        /\ n <= Len(chain) - 1
        /\ tab' = Undone(Len(chain) - 1, n)
        /\ chain' = SubSeq(chain, 1, Len(chain) - 1 - n + 1)
  BY DEF HandleReorg
<1>2. block = None /\ n \in Nat /\ n >= 1 /\ chain \in Seq(Blocks)
      /\ Len(chain) \in Nat /\ DOMAIN past.tab = 0..Len(chain) - 1
  BY UndoAssumption DEF HandleReorg, Frame, Linked
<1>. DEFINE m == Len(chain) - n
<1>3. Len(chain') = m /\ m \in DOMAIN past.tab
  BY <1>1, <1>2
<1>4. TabShape(tab') /\ TabShape(past.tab[m])
  BY <1>3, HandleReorgFrame DEF Frame, Types, TabOK, Listed
<1>5. /\ past.clean /\ (\A i \in m..Len(chain) - 1 : ~Irreversible(i)) => Alike(past.tab[m], tab')
      /\ DOMAIN tab'.points \subseteq DOMAIN tab.points
      /\ DOMAIN tab'.satPoints \subseteq DOMAIN tab.satPoints
  BY <1>1, <1>2, RollbackRestores
<1>6. Alike(past.tab[m], tab') => Plain(past.tab[m]) = Plain(tab')
  BY <1>4, AlikePlain
<1>. HIDE DEF m
<1>. QED BY <1>3, <1>5, <1>6

\* Nothing else counts a reorg.
LEMMA OnlyReorgs ==
  ASSUME Frame, [Next]_vars, past'.reorgs # past.reorgs PROVE HandleReorg
<1>1. CASE Stage
  BY <1>1 DEF Stage, Frame, Types, PastOK
<1>2. CASE Begin \/ Transaction \/ Break \/ FinishBlock \/ CommitOutput \/ CommitInscription \/ Save
  BY <1>2 DEF Begin, Transaction, Spend, Continue, Take, FinishInput, FinishInputs, Place,
              NextOutput, FinishOutputs, Locate, FinishLocations, Lose, FinishTransaction,
              Break, BreakInputs, BreakOutputs, BreakLocations, Suspend, FinishBlock,
              CommitOutput, CommitInscription, Save
<1>3. CASE UNCHANGED vars
  BY <1>3 DEF vars
<1>. QED BY <1>1, <1>2, <1>3 DEF Next

\* It is inductive: the parts are explained where they are defined (NewHere, Noted, Reversible).
Undoable == Frame /\ LastsOK /\ Listed /\ NewHere /\ Reversible

LEMMA UndoableHolds == Spec => []Undoable
<1>1. Init => Undoable
  BY InitFrame, InitLasts, InitListed, InitNew, InitReversible DEF Undoable
<1>2. Undoable /\ [Next]_vars => Undoable'
  BY NextFrame, NextLasts, NextListed, NextNew, NextReversible DEF Undoable
<1>. QED BY <1>1, <1>2, PTL DEF Spec

\* A change record notes all that its block, interrupted wherever the messages
\* ended, wrote to the tables that a rollback brings back, and nothing that was
\* there before but inscriptions that moved and outputs that were spent.
THEOREM RecordsNoteTheWrites == Spec => []Reversible
<1>1. Undoable => Reversible
  BY DEF Undoable
<1>. QED BY <1>1, UndoableHolds, PTL

\* handle_reorg brings the tables back as they were before the oldest block
\* undone, whatever the blocks, the ends of the messages and the number of
\* blocks undone, unless a record says that its block was irreversible; and it
\* never makes a satpoint.
THEOREM ReorgsUndo == Spec => UndoRestores
<1>1. Undoable /\ [Next]_vars =>
        [past'.reorgs # past.reorgs =>
           LET h == Len(chain')
           IN /\ (past.clean /\ \A i \in h..Len(chain) - 1 : ~Irreversible(i))
                   => Plain(tab') = Plain(past.tab[h])
              /\ DOMAIN tab'.points \subseteq DOMAIN tab.points
              /\ DOMAIN tab'.satPoints \subseteq DOMAIN tab.satPoints]_vars
  <2>. SUFFICES ASSUME Undoable, [Next]_vars, past'.reorgs # past.reorgs
                PROVE  LET h == Len(chain')
                       IN /\ (past.clean /\ \A i \in h..Len(chain) - 1 : ~Irreversible(i))
                               => Plain(tab') = Plain(past.tab[h])
                          /\ DOMAIN tab'.points \subseteq DOMAIN tab.points
                          /\ DOMAIN tab'.satPoints \subseteq DOMAIN tab.satPoints
    OBVIOUS
  <2>1. Frame /\ Listed /\ Reversible
    BY DEF Undoable
  <2>2. HandleReorg
    BY <2>1, OnlyReorgs
  <2>. QED BY <2>1, <2>2, ReorgRestores
<1>. QED BY <1>1, UndoableHolds, PTL DEF Spec, UndoRestores
=============================================================================
