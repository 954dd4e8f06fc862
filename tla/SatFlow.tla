-------------------------------- MODULE SatFlow --------------------------------
(* Where sats go, one by one and however they are stored: first in, first    *)
(* out through every transaction, what a transaction leaves over to the      *)
(* coinbase, and what the coinbase leaves over to a place of its own.  This   *)
(* is the level at which Inscriptions moves sats.                             *)
EXTENDS Integers, SequencesExt, TLC

CONSTANTS
  Subsidies,   \* Subsidies[h]: the new sats of block h, counted from 1
  Payments,    \* bound: the values of the outputs of a transaction
  MaxIns,      \* bound: inputs of a transaction
  MaxTxs,      \* bound: transactions in a behaviour
  Numbers,     \* bound: sequence numbers of inscriptions
  None         \* Option::None

VARIABLES
  height,    \* the blocks begun
  txs,       \* the transactions begun
  utxo,      \* outpoint -> its sats and inscriptions
  fees,      \* the sats that the coinbase will get
  outs,      \* the outputs of the transaction in progress, or None
  lost       \* the sats that the coinbase left, until the block ends

\* OutPoint::null() and unbound_outpoint(): outpoints of no transaction.
Null == <<0, 1>>
Unbound == <<0, 2>>
Special == {Null, Unbound}

On(o) == IF o \in DOMAIN utxo THEN utxo[o] ELSE [sats |-> << >>, ins |-> << >>]

Total(values) == FoldLeft(LAMBDA a, b : a + b, 0, values)

\* Different outpoints that a transaction may spend.
Inputs == {ins \in UNION {[1..n -> DOMAIN utxo \ Special] : n \in 1..MaxIns} :
             \A i, j \in DOMAIN ins : ins[i] = ins[j] => i = j}

Parts(sats, values) ==
  [v \in DOMAIN values |->
     LET from == Total(SubSeq(values, 1, v - 1))
     IN [sats |-> SubSeq(sats, from + 1, from + values[v]), ins |-> << >>]]

Init == /\ height = 0 /\ txs = 0 /\ utxo = << >> /\ fees = << >> /\ outs = None
        /\ lost = << >>

\* A block begins with the sats that follow those of the blocks before.
Begin ==
  /\ outs = None /\ fees = << >> /\ lost = << >> /\ height < Len(Subsidies)
  /\ height' = height + 1
  /\ LET first == Total(SubSeq(Subsidies, 1, height))
     IN fees' = [i \in 1..Subsidies[height + 1] |-> first + i - 1]
  /\ UNCHANGED <<txs, utxo, outs, lost>>

Pay(ins, values) ==
  /\ utxo' = [o \in DOMAIN utxo \ ToSet(ins) |-> utxo[o]]
  /\ LET sats == FlattenSeq([i \in DOMAIN ins |-> utxo[ins[i]].sats])
     IN /\ Total(values) <= Len(sats)
        /\ outs' = Parts(sats, values)
        /\ fees' = fees \o SubSeq(sats, Total(values) + 1, Len(sats))
  /\ UNCHANGED <<height, lost>>

Coinbase(values) ==
  /\ Total(values) <= Len(fees)
  /\ outs' = Parts(fees, values)
  /\ lost' = SubSeq(fees, Total(values) + 1, Len(fees))
  /\ fees' = << >>
  /\ UNCHANGED <<height, utxo>>

Transaction ==
  /\ outs = None /\ txs < MaxTxs
  /\ txs' = txs + 1
  /\ \/ \E values \in Payments : Coinbase(values)
     \/ \E ins \in Inputs, values \in Payments : Pay(ins, values)

\* An inscription <<number, offset>> comes to an output, or to an outpoint of
\* no transaction.
Inscribe(i) ==
  /\ outs # None
  /\ UNCHANGED <<height, txs, utxo, fees, lost>>
  /\ \E v \in DOMAIN outs : outs' = [outs EXCEPT ![v].ins = Append(@, i)]

InscribeSpecial(i) ==
  /\ outs # None
  /\ UNCHANGED <<height, txs, fees, outs, lost>>
  /\ \E o \in Special : utxo' = (o :> [On(o) EXCEPT !.ins = Append(@, i)]) @@ utxo

Settle ==
  /\ outs # None
  /\ utxo' = [o \in {<<txs, v>> : v \in DOMAIN outs} |-> outs[o[2]]] @@ utxo
  /\ outs' = None
  /\ UNCHANGED <<height, txs, fees, lost>>

Lose ==
  /\ outs = None /\ lost # << >>
  /\ utxo' = (Null :> [On(Null) EXCEPT !.sats = @ \o lost]) @@ utxo
  /\ lost' = << >>
  /\ UNCHANGED <<height, txs, fees, outs>>

Offsets == 0..Total(Subsidies)

Next ==
  \/ Begin \/ Transaction \/ Settle \/ Lose
  \/ \E i \in Numbers \X Offsets :
       Inscribe(i) \/ InscribeSpecial(i)

vars == <<height, txs, utxo, fees, outs, lost>>
Spec == Init /\ [][Next]_vars
=============================================================================
