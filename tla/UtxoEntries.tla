------------------------------- MODULE UtxoEntries -------------------------------
(* The entries of unspent outputs as they are stored: a count of sat ranges,  *)
(* the ranges, packed, and the inscriptions up to the end, in one string of   *)
(* bytes; and the sats that flow from entry to entry in ranges that are cut   *)
(* where an output ends.  INDEX indexes sats and inscriptions and no          *)
(* addresses, so an entry has no script.                                      *)
(*                                                                            *)
(* Where an inscription goes is Inscriptions' matter; here it goes anywhere.  *)
EXTENDS Bytes, TLC

CONSTANTS
  Subsidies, Payments, MaxIns, MaxTxs, Numbers,  \* as in SatFlow
  ByteBits,    \* 8
  BaseBits,    \* 51: the bits of the start of a range
  RangeLen,    \* 11: the bytes of a range
  NumberLen    \* 4: the bytes of a sequence number

VARIABLES
  height, txs,
  stage,     \* the part of index_utxo_entries: "txs", "coinbase", "commit" or "idle"
  table,     \* OUTPOINT_TO_UTXO_ENTRY
  cache,     \* utxo_cache
  inputs,    \* coinbase_inputs: ranges
  left,      \* lost_sat_ranges
  outputs,   \* output_utxo_entries of the transaction in progress, or None
  points,    \* SAT_TO_SATPOINT
  lostSats,  \* Statistic::LostSats
  said       \* what the bytes of all these say (auxiliary, see Decoded)

store == <<height, txs, stage, table, cache, inputs, left, outputs, points, lostSats>>
entryVars == <<store, said>>

Null == <<0, 1>>
Unbound == <<0, 2>>
Special == {Null, Unbound}

Byte == 2^ByteBits
Total(values) == FoldLeft(LAMBDA a, b : a + b, 0, values)

\* The first sat of block h.
StartingSat(h) == Total(SubSeq(Subsidies, 1, h - 1))
Rare(s) == \E h \in DOMAIN Subsidies : Subsidies[h] > 0 /\ s = StartingSat(h)

ASSUME BitsAssumption ==
  /\ {ByteBits - 1, BaseBits, RangeLen, NumberLen} \subseteq Nat \ {0}
  /\ StartingSat(Len(Subsidies) + 1) <= 2^BaseBits
  /\ \A h \in DOMAIN Subsidies : Subsidies[h] < 2^(ByteBits * RangeLen - BaseBits)
  /\ \A n \in Numbers : n \in 0..Byte^NumberLen - 1

-----------------------------------------------------------------------------
(* Encodings *)

\* varint: ByteBits - 1 bits in a byte, the highest bit if more follow.
Encode(n) ==
  LET digit == Byte \div 2
      len == CHOOSE k \in 1..n + 1 : n < digit^k /\ (k = 1 \/ n >= digit^(k - 1))
  IN [i \in 1..len |-> ((n \div digit^(i - 1)) % digit) + (IF i < len THEN digit ELSE 0)]

DecodeLen(bytes) ==
  CHOOSE i \in DOMAIN bytes :
    bytes[i] < Byte \div 2 /\ \A j \in 1..i - 1 : bytes[j] >= Byte \div 2

Decode(bytes) ==
  Number([i \in 1..DecodeLen(bytes) |-> bytes[i] % (Byte \div 2)], Byte \div 2)

\* SatRange::store: the start and, above it, the length.  load takes them from
\* two words that share the byte in which the start ends.
Store(range) ==
  LittleEndian(range[1] + (range[2] - range[1]) * 2^BaseBits, Byte, RangeLen)

Shared == BaseBits \div ByteBits + 1

Load(bytes) ==
  LET base == Number(SubSeq(bytes, 1, Shared), Byte) % 2^BaseBits
      delta == Number(SubSeq(bytes, Shared, RangeLen), Byte) \div 2^(BaseBits % ByteBits)
  IN <<base, base + delta>>

\* chunks_exact(11)
Loaded(bytes) ==
  [i \in 1..Len(bytes) \div RangeLen |->
     Load(SubSeq(bytes, (i - 1) * RangeLen + 1, i * RangeLen))]

Stored(ranges) == FlattenSeq([i \in DOMAIN ranges |-> Store(ranges[i])])

-----------------------------------------------------------------------------
(* Entries *)

\* push_sat_ranges on a new entry, push_inscription and push_inscriptions.
PushSatRanges(ranges) == Encode(Len(ranges) \div RangeLen) \o ranges
PushInscription(entry, i) ==
  entry \o LittleEndian(i[1], Byte, NumberLen) \o Encode(i[2])

EmptyEntry == PushSatRanges(<< >>)

\* parse: the ranges, and the inscriptions.
SatRanges(entry) ==
  LET from == DecodeLen(entry)
  IN SubSeq(entry, from + 1, from + Decode(entry) * RangeLen)
InscriptionBytes(entry) ==
  SubSeq(entry, DecodeLen(entry) + Decode(entry) * RangeLen + 1, Len(entry))

ParseInscriptions(entry) ==
  LET bytes == InscriptionBytes(entry)
      from[i \in 1..Len(bytes) + 1] ==
        IF i > Len(bytes) THEN << >>
        ELSE LET rest == SubSeq(bytes, i + NumberLen, Len(bytes))
             IN <<<<Number(SubSeq(bytes, i, i + NumberLen - 1), Byte), Decode(rest)>>>>
                \o from[i + NumberLen + DecodeLen(rest)]
  IN from[1]

Merged(a, b) == PushSatRanges(SatRanges(a) \o SatRanges(b))
                \o InscriptionBytes(a) \o InscriptionBytes(b)

\* total_value, and calculate_sat: the sat at an offset of ranges.
TotalValue(entry) ==
  LET ranges == Loaded(SatRanges(entry))
  IN Total([i \in DOMAIN ranges |-> ranges[i][2] - ranges[i][1]])

\* Mutant of CalculateSat: a range ends with its last sat.
CalculateSatLate(ranges, offset) ==
  LET before[i \in 1..Len(ranges) + 1] ==
        IF i = 1 THEN 0 ELSE before[i - 1] + ranges[i - 1][2] - ranges[i - 1][1]
      i == CHOOSE j \in DOMAIN ranges :
             before[j + 1] >= offset /\ \A k \in 1..j - 1 : before[k + 1] < offset
  IN ranges[i][1] + offset - before[i]

CalculateSat(ranges, offset) ==
  LET before[i \in 1..Len(ranges) + 1] ==
        IF i = 1 THEN 0 ELSE before[i - 1] + ranges[i - 1][2] - ranges[i - 1][1]
      i == CHOOSE j \in DOMAIN ranges :
             before[j + 1] > offset /\ \A k \in 1..j - 1 : before[k + 1] <= offset
  IN ranges[i][1] + offset - before[i]

-----------------------------------------------------------------------------
(* The loop of index_transaction_sats *)

\* Mutant of Turn: the place of a range is the same in the whole output.
TurnPlacesFirst(turn, range, value) ==
  LET count == range[2] - range[1]
      middle == range[1] + turn.need
  IN IF turn.need = 0 THEN [turn EXCEPT !.rest = Append(@, range)]
     ELSE [turn EXCEPT
       !.seen = Append(@, <<range[1], 0>>),
       !.ranges = Append(@, IF count > turn.need THEN <<range[1], middle>> ELSE range),
       !.rest = IF count > turn.need THEN Append(@, <<middle, range[2]>>) ELSE @,
       !.need = IF count > turn.need THEN 0 ELSE @ - count]

\* One turn of the loop for an output: the first range goes to it, or what it
\* still needs of it.  turn is what the turns before made: the ranges of the
\* output, the ranges not used, what the output still needs, and the ranges
\* looked at, with the place of each.
Turn(turn, range, value) ==
  LET count == range[2] - range[1]
      middle == range[1] + turn.need
  IN IF turn.need = 0 THEN [turn EXCEPT !.rest = Append(@, range)]
     ELSE [turn EXCEPT
       !.seen = Append(@, <<range[1], value - turn.need>>),
       !.ranges = Append(@, IF count > turn.need THEN <<range[1], middle>> ELSE range),
       !.rest = IF count > turn.need THEN Append(@, <<middle, range[2]>>) ELSE @,
       !.need = IF count > turn.need THEN 0 ELSE @ - count]

\* All outputs of a transaction, one after the other, from the input ranges.
Assign(ranges, values) ==
  LET output(rest, value) ==
        FoldLeft(LAMBDA turn, range : Turn(turn, range, value),
                 [ranges |-> << >>, rest |-> << >>, need |-> value, seen |-> << >>], rest)
      upto[v \in 0..Len(values)] ==
        IF v = 0 THEN [rest |-> ranges, outs |-> << >>]
        ELSE LET out == output(upto[v - 1].rest, values[v])
             IN [rest |-> out.rest, outs |-> Append(upto[v - 1].outs, out)]
  IN upto[Len(values)]

\* The starts of ranges that are not common, at the places they were seen.
RarePoints(outpoint, seen) ==
  LET rare == {k \in DOMAIN seen : Rare(seen[k][1])}
  IN [s \in {seen[k][1] : k \in rare} |->
        <<outpoint, seen[CHOOSE k \in rare : seen[k][1] = s][2]>>]

AllPoints(outs) ==
  FoldLeft(LAMBDA f, v : RarePoints(<<txs + 1, v>>, outs[v].seen) @@ f,
           << >>, [v \in DOMAIN outs |-> v])

-----------------------------------------------------------------------------
(* What the bytes say *)

\* What an entry says: the sats of its ranges, and its inscriptions.
Sats(ranges) ==
  FlattenSeq([i \in DOMAIN ranges |->
                [k \in 1..ranges[i][2] - ranges[i][1] |-> ranges[i][1] + k - 1]])

Said(entry) == [sats |-> Sats(Loaded(SatRanges(entry))), ins |-> ParseInscriptions(entry)]

\* What the entries of a table and a cache say: a special outpoint may have one
\* in each.
SaidBy(t, c) ==
  [o \in DOMAIN t \cup DOMAIN c |->
     LET both == (IF o \in DOMAIN t THEN <<Said(t[o])>> ELSE << >>)
                 \o (IF o \in DOMAIN c THEN <<Said(c[o])>> ELSE << >>)
     IN [sats |-> FlattenSeq([k \in DOMAIN both |-> both[k].sats]),
         ins |-> FlattenSeq([k \in DOMAIN both |-> both[k].ins])]]

\* The store as SatFlow sees it.
Decoded(t, c, in, out, lose, part) ==
  [utxo |-> SaidBy(t, c),
   fees |-> IF part = "txs" THEN Sats(Loaded(in)) ELSE << >>,
   outs |-> IF out = None THEN None ELSE [v \in DOMAIN out |-> Said(out[v])],
   lost |-> IF part = "coinbase" THEN Sats(Loaded(lose)) ELSE << >>]

-----------------------------------------------------------------------------
(* index_utxo_entries and commit *)

EntryInit ==
  /\ height = 0 /\ txs = 0 /\ stage = "idle"
  /\ table = << >> /\ cache = << >> /\ inputs = << >> /\ left = << >>
  /\ outputs = None /\ points = << >> /\ lostSats = 0
  /\ said = Decoded(table, cache, inputs, outputs, left, stage)

\* A block begins with the range of its subsidy, if it has one.
BeginBlock ==
  /\ stage = "idle" /\ height < Len(Subsidies)
  /\ height' = height + 1
  /\ stage' = "txs"
  /\ LET first == StartingSat(height + 1)
     IN inputs' = IF Subsidies[height + 1] = 0 THEN << >>
                  ELSE Store(<<first, first + Subsidies[height + 1]>>)
  /\ left' = << >>
  /\ UNCHANGED <<txs, table, cache, outputs, points, lostSats>>

\* A spent entry is in the cache or in the table.
EntryOf(o) == IF o \in DOMAIN cache THEN cache[o] ELSE table[o]

Spendable == {ins \in UNION {[1..n -> (DOMAIN cache \cup DOMAIN table) \ Special] : n \in 1..MaxIns} :
                \A i, j \in DOMAIN ins : ins[i] = ins[j] => i = j}

Outputs(assigned) ==
  [v \in DOMAIN assigned.outs |-> PushSatRanges(Stored(assigned.outs[v].ranges))]

\* A transaction takes the ranges of its inputs; the coinbase gets the rest.
Spend(ins, values) ==
  LET entries == [i \in DOMAIN ins |-> EntryOf(ins[i])]
      assigned == Assign(FlattenSeq([i \in DOMAIN ins |-> Loaded(SatRanges(entries[i]))]), values)
  IN /\ stage = "txs" /\ outputs = None /\ txs < MaxTxs
     /\ Total(values) <= Total([i \in DOMAIN ins |-> TotalValue(entries[i])])
     /\ txs' = txs + 1
     /\ outputs' = Outputs(assigned)
     /\ inputs' = inputs \o Stored(assigned.rest)
     /\ points' = AllPoints(assigned.outs) @@ points
     /\ cache' = [o \in DOMAIN cache \ ToSet(ins) |-> cache[o]]
     /\ table' = [o \in DOMAIN table \ ToSet(ins) |-> table[o]]
     /\ UNCHANGED <<height, stage, left, lostSats>>

\* The coinbase, last, takes what is there; its rest is lost.
SpendCoinbase(values) ==
  LET assigned == Assign(Loaded(inputs), values)
  IN /\ stage = "txs" /\ outputs = None /\ txs < MaxTxs
     /\ Total(values) <= TotalValue(PushSatRanges(inputs))
     /\ stage' = "coinbase"
     /\ txs' = txs + 1
     /\ outputs' = Outputs(assigned)
     /\ left' = left \o Stored(assigned.rest)
     /\ points' = AllPoints(assigned.outs) @@ points
     /\ UNCHANGED <<height, table, cache, inputs, lostSats>>

\* An inscription that no entry has (it is new, or was in a spent one).
Homeless(n) ==
  \A e \in {table[o] : o \in DOMAIN table} \cup {cache[o] : o \in DOMAIN cache}
           \cup (IF outputs = None THEN {} ELSE ToSet(outputs)) :
    n \notin {i[1] : i \in ToSet(ParseInscriptions(e))}

Offsets == 0..Total(Subsidies)

InscribeOutput(n) ==
  /\ outputs # None /\ Homeless(n)
  /\ \E v \in DOMAIN outputs : \E offset \in 0..TotalValue(outputs[v]) - 1 :
       outputs' = [outputs EXCEPT ![v] = PushInscription(@, <<n, offset>>)]
  /\ UNCHANGED <<height, txs, stage, table, cache, inputs, left, points, lostSats>>

\* entry(o).or_insert(empty)
Cached(o) == IF o \in DOMAIN cache THEN cache[o] ELSE EmptyEntry

InscribeSpecial(n) ==
  /\ outputs # None /\ Homeless(n)
  /\ \E o \in Special : \E offset \in {0, Total(Subsidies)} :
       cache' = (o :> PushInscription(Cached(o), <<n, offset>>)) @@ cache
  /\ UNCHANGED <<height, txs, stage, table, inputs, left, outputs, points, lostSats>>

FinishOutputs ==
  /\ outputs # None
  /\ cache' = [o \in {<<txs, v>> : v \in DOMAIN outputs} |-> outputs[o[2]]] @@ cache
  /\ outputs' = None
  /\ UNCHANGED <<height, txs, stage, table, inputs, left, points, lostSats>>

\* The lost ranges are put to what else the entry of the null outpoint has.
LoseRanges ==
  /\ stage = "coinbase" /\ outputs = None
  /\ stage' = "commit"
  /\ LET ranges == Loaded(left)
         size(k) == ranges[k][2] - ranges[k][1]
         seen == [k \in DOMAIN ranges |->
                    <<ranges[k][1], lostSats + Total([j \in 1..k - 1 |-> size(j)])>>]
     IN /\ points' = RarePoints(Null, seen) @@ points
        /\ lostSats' = lostSats + Total([k \in DOMAIN ranges |-> size(k)])
  /\ cache' = IF left = << >> THEN cache
              ELSE (Null :> Merged(Cached(Null), PushSatRanges(left))) @@ cache
  /\ UNCHANGED <<height, txs, table, inputs, left, outputs>>

\* Mutant of Commit: the cached entry replaces the one in the table.
CommitReplaces ==
  /\ stage = "commit"
  /\ stage' = "idle"
  /\ table' = cache @@ table
  /\ cache' = << >>
  /\ UNCHANGED <<height, txs, inputs, left, outputs, points, lostSats>>

\* Mutant of Commit: the cache is kept.
CommitKeepsCache ==
  /\ stage = "commit"
  /\ stage' = "idle"
  /\ table' = [o \in DOMAIN cache |->
                 IF o \in Special \cap DOMAIN table THEN Merged(table[o], cache[o])
                 ELSE cache[o]] @@ table
  /\ UNCHANGED <<height, txs, cache, inputs, left, outputs, points, lostSats>>

\* commit: the entries of special outpoints are put to those in the table.
Commit ==
  /\ stage = "commit"
  /\ stage' = "idle"
  /\ table' = [o \in DOMAIN cache |->
                 IF o \in Special \cap DOMAIN table THEN Merged(table[o], cache[o])
                 ELSE cache[o]] @@ table
  /\ cache' = << >>
  /\ UNCHANGED <<height, txs, inputs, left, outputs, points, lostSats>>

EntryStep ==
  \/ BeginBlock \/ FinishOutputs \/ LoseRanges \/ Commit
  \/ \E values \in Payments :
       SpendCoinbase(values) \/ \E ins \in Spendable : Spend(ins, values)
  \/ \E n \in Numbers : InscribeOutput(n) \/ InscribeSpecial(n)

EntryNext ==
  EntryStep /\ said' = Decoded(table', cache', inputs', outputs', left', stage')

EntrySpec == EntryInit /\ [][EntryNext]_entryVars

-----------------------------------------------------------------------------
(* Properties *)

EntryTypeOK ==
  /\ stage \in {"idle", "txs", "coinbase", "commit"}
  /\ DOMAIN table \cap DOMAIN cache \subseteq Special
  /\ \A bytes \in {inputs, left} : Len(bytes) % RangeLen = 0 /\ ToSet(bytes) \subseteq 0..Byte - 1
  /\ stage = "idle" => outputs = None /\ cache = << >>

\* Read back, the bytes say what would be there had every sat been moved by
\* itself: ranges cut, packed into bits, counted, merged and taken apart again
\* lose no sat and no inscription and keep both in order.  (The mapping goes
\* through said, which spares TLC the reading of the bytes at every mention.)
Flow == INSTANCE SatFlow WITH
  utxo <- said.utxo, fees <- said.fees, outs <- said.outs, lost <- said.lost
FlowsLikeSats == Flow!Spec

\* Only the start of a range is looked at for rare sats, and only when the
\* range is assigned or lost; yet each rare sat of an unspent output, or among
\* the lost ones, is found where it is.
RareSatsFound ==
  \A o \in DOMAIN said.utxo : \A i \in DOMAIN said.utxo[o].sats :
    LET sat == said.utxo[o].sats[i]
    IN Rare(sat) => sat \in DOMAIN points /\ points[sat] = <<o, i - 1>>

\* An offset into an entry is the same sat for calculate_sat as for the entry,
\* also at the seams of ranges, and the entry is worth its sats.
OffsetsMeanSats ==
  \A o \in DOMAIN said.utxo \ Special :
    LET entry == EntryOf(o)
        sats == said.utxo[o].sats
    IN /\ TotalValue(entry) = Len(sats)
       /\ \A k \in 0..Len(sats) - 1 :
            CalculateSat(Loaded(SatRanges(entry)), k) = sats[k + 1]
=============================================================================
