# A formal model of the ordinals indexer

TLA+ modules, TLC runs and TLAPS proofs about the canister in `src/canister`: a
port of ord's sat and inscription index to the Internet Computer. Paths below
are relative to `src/canister/src` unless they start with `src/`.

Contents: [the system](#1-the-system) · [modules](#2-modules) ·
[how state and actions correspond](#3-how-state-and-actions-correspond) ·
[runs](#4-runs) · [what the violations show](#5-what-the-violations-show) ·
[proofs](#6-proofs) · [not modelled](#7-not-modelled) · [plan](#8-plan)

## 1. The system

A canister runs one *message execution* at a time, to its next `await` or its
end; a trap undoes the execution it is in; an execution may not use more than a
fixed number of instructions. The indexer lives with this as follows: a
one-shot timer runs one *round* of `update_index`; a round asks Bitcoin for the
hash at the next height, fetches the block, and indexes it until the
instruction counter says stop (a *breakpoint*); later rounds continue, commit,
save a change record, prune, and clean up; only then is the block's header
entered. When Bitcoin's chain no longer extends the last header, the change
records of the stale blocks are played backwards.

| Component | Source | State | Operations |
|---|---|---|---|
| Indexing loop | `index/updater.rs` | timers, locals across awaits, `SHUTTING_DOWN`, `BLOCK`, `CURSOR`, `STAGED_BLOCK_VARS` | `update_index`, `run_indexing_round`, `index_block` in five stages |
| Reorgs | `index/reorg.rs` | header table, change records | `detect_reorg`, `handle_reorg`, `prune_change_record` |
| Data plane | `index/updater.rs`, `index/updater/inscription_updater.rs` | the stable tables, UTXO cache, change record, staged variables | `index_utxo_entries`, `index_transaction_sats`, `index_inscriptions`, `update_inscription_location`, `commit` |
| Stable tables, queries | `index.rs` | all of stable memory | insert, remove, prune; `get_inscriptions_for_output` |
| Lifecycle | `main.rs`, `config.rs` | `Config` | `init`, `post_upgrade`, `start`, `stop`, `set_bitcoin_rpc_url` |
| Bitcoin clients | `bitcoin_api.rs`, `rpc.rs` | none | block hash at a height; block by hash, in ranges, with retries |
| Encodings | `index/entry.rs`, `index/utxo_entry.rs` | none | store and load of entries, sat ranges, varints |
| Inscription parser | `inscriptions/*.rs` | none | envelopes and tags of a witness, and the writer of reveal scripts |
| Chain parameters | `chain.rs` | none | jubilee height and others |
| Logs | `logs.rs` | ring buffers | one HTTP query |

Interactions. The loop calls the clients (two kinds of await) and, without an
await, the reorg code and the data plane. `start`, `stop` and queries come
between any two executions. The data plane reaches the tables directly and the
outputs' table through the UTXO cache and `commit`; every write is noted in the
change record that the reorg code reads.

Hard behaviours, each at its line under "hazards" in `PROJECT.json`:

* values read before an await and used after it (`height`, the previous hash,
  the depth of the search for an ancestor), with a reorg in between;
* a block in progress described in three places, of which an upgrade keeps two;
* a failed call, a trap or `stop` in the middle of a block; two loops;
* three nested loops that break off at any inscription and resume from six
  staged variables and a cursor;
* two independent accounts of where an inscription is (offsets in values, sat
  ranges), in four frames of reference;
* rollback from records that note what was added and, for most tables, not what
  was there before;
* a block downloaded in ranges over many outcalls, each of which may be cut
  short, refused or fail, while the URL may change;
* a parser with one instruction of lookahead, whose flags outlive the envelope
  they are about and decide what is cursed or unbound;
* sat ranges packed into bits, cut at every output, of which only the first sat
  is looked at.

What makes each component correct: the header table is a window of one chain;
what a round remembers is still so when it resumes; the tables hold what the
indexed chain wrote, and nothing else; every block that a reorg may reach has the
record that undoes it; the loop catches up, and ends between blocks when told to; sats are
neither lost nor doubled; inscriptions stay on their sats and are numbered
without gaps; the tables that index one another agree; a query finds what it
unwraps; a download is one call that stages the block asked for or nothing; what
was written into a script is read from it again; an entry's bytes say which sats
it has.

## 2. Modules

| Module | What it is |
|---|---|
| `BlockTree` | Constants: the tree of valid blocks, heights, ancestry, and the answer of the node to a height. |
| `Tables` | Insert and remove on a stable map. |
| `BlockIndex` | Abstract specification: the indexed chain grows by one linked block or returns to an ancestor within the recoverable depth. |
| `Updater` | The loop, its rounds, reorgs, lifecycle and environment. One action per message execution. Implements `BlockIndex`. |
| `Inscriptions` | The data plane: what indexing and undoing blocks does to every table, one action per step between two checks of the instruction counter. |
| `BlockCall` | Abstract specification: a call for a block, which stages it or changes nothing. What `Updater` assumes of the client. |
| `Rpc` | The client: ranges, retries, checks, staging. One action per message execution. Implements `BlockCall`. |
| `SatFlow` | Abstract specification: sats move one by one, first in, first out. The level of `Inscriptions`. |
| `UtxoEntries` | The same transactions and commits over sat ranges and entries of bytes. Implements `SatFlow`. |
| `Envelopes` | From the tapscripts of a transaction to inscriptions, one action per turn of the parser; and the writer. |
| `Bytes` | Numbers as little-endian bytes. |
| `MCUpdater`, `MCInscriptions`, `MCRpc`, `MCFormats` | Trees, blocks, servers, scripts and payments for TLC. |
| `UpdaterProofs`, `RpcProofs` | Theorems about `Updater` (control, then content) and `Rpc`, for all values of their constants. |
| `FrameProofs`, `TablesProofs`, `PlacesProofs`, `LandingProofs`, `SatsProofs`, `OffsetsProofs` | Theorems about `Inscriptions`: the locals and staged variables; the tables that index one another, and rollbacks; the one place of each inscription, while a transaction moves it and when it comes down; the one place of each sat; that the two stay together. Each extends the one before, and `FrameProofs` begins with the lemmas on numbers and sequences that all rest on. |

`Updater` knows a block as `Units` pieces, each with one effect that the tables
hold or do not, and undoes a piece as a whole; what the undoing of a block misses
inside a piece is in `Inscriptions` (`Irreversible`, `EntriesPresent`,
`StatisticsRestored`) and only there; `Inscriptions` knows no timers and no awaits, only that blocks
come one after the other, are interrupted, and are rolled back. A trap undoes
an execution; that is in `Updater` and not repeated in `Inscriptions`. `Updater`
waits for a block in one step (`HashFound` asks, `BlockFetched` or
`BlockUnavailable` ends the wait), and that this is sound is `Rpc`'s `OneCall`.
`Inscriptions` has sequences of sats where the code has ranges, and that this is
sound is `UtxoEntries`' `FlowsLikeSats`; it takes the flaws of an envelope as a
constant, and `Envelopes` (`Flaw`) is where they come from.

## 3. How state and actions correspond

`PROJECT.json` "map" names, for every definition, the lines it stands for.

**Updater.** `headers`, `records`, `staged`, `cursor` are the stable maps and
cells of those names in `index.rs`; `work` is `STAGED_BLOCK_VARS`; `db` and
`utxo` hold the effects of the tables written at once and of the table that
`commit` writes. `loop[l]` is where the asynchronous round of loop `l` waits:
for its timer, for a hash, for a block, for the hash of a possible ancestor,
together with the Rust locals that live across that await.

* `Fire` is a timer up to the first await, or a later stage up to its end;
  `HashFound`, `BlockFetched`, `AncestorFound` (and their failures) are the
  code after an await up to the next one. `HashFound` holds `detect_reorg`'s
  comparison, `BlockFetched` the staging in `get_block` and the call of
  `index_block`, `AncestorFound` the search and `handle_reorg`.
* `IndexUtxoEntries`, `Commit`, `Save`, `Prune`, `Cleanup` are the stages. An Index
  stage stops at a breakpoint or at the end of the block (`Ends`); blocks in
  `Bare`, of a coinbase that pays itself and nothing else, have no breakpoint,
  since the limit is looked at only after an inscription has landed.
* `InputsMissing` is the Index stage that does not find the inputs of its
  transaction and traps (`assert!(!have_full_utxo_index())`, `updater.rs:641`, or
  "insufficient inputs", `updater.rs:886`): inputs leave the cache and the table
  before the transaction's first breakpoint (`updater.rs:631-634`), so that an
  upgrade in the middle of a block, which keeps `CURSOR` and empties
  `STAGED_BLOCK_VARS`, leaves them nowhere (`InputsGone`). A block that takes over
  the staged variables of another one may or may not meet inputs that the other
  has spent; if it does, that is a `Trap`.
* `HandleReorg` undoes the pieces that the records list, and drops headers and
  records above the ancestor.
* `Trap` is an execution that traps: its effects are undone and no timer is set.
* `Start`, `Stop`, `Upgrade` are the controller's; an upgrade is of a stopped
  canister, so no call is outstanding.
* `NewBest` is Bitcoin: a longer chain, on any branch.

A reply is computed when it is delivered. Between the node's answer and its
delivery only the node's chain and the shutdown flag can change, and the code
reads neither before using the answer.

**Inscriptions.** `tab` is the record of the tables; `staged` is the heap's
block variables and, during an execution, the working copy; `saved` is the five
staged variables of the interrupted loops; `run` and `tx` are the locals of
`index_utxo_entries` and `index_inscriptions`, `None` between executions. `past`
is a history variable for `UndoRestores`.

* `Spend` takes the inputs' entries (cache or table) and assigns sats to the
  outputs; `Take` and `FinishInput` make what floats; `Place`, `NextOutput`
  decide where it comes down; `Locate` and `Lose` write it
  (`update_inscription_location` is `Settle`); `FinishTransaction` hands the
  rest to the coinbase.
* `BreakInputs`, `BreakOutputs`, `BreakLocations` are the four checks of the
  instruction counter (two of them are in the loop over inputs); `Begin` and
  `Continue` resume. In `commit`, where all state is staged already, an
  execution may end between any two of `CommitOutput` and `CommitInscription`
  without a trace, so there is no action for it.
* `HandleReorg` undoes the last `n` blocks.

Sat ranges are sequences of sats (a range is what consecutive sats are stored
as); a transaction is its inputs, the values of its outputs and whether they are
`OP_RETURN`, and its envelopes with what the code asks of them. The change
record's vectors are sets: undoing an element twice is undoing it once. The
partial functions that an `unwrap` makes are guards: where the code would trap,
the action is disabled.

**Rpc.** `url` is the configuration's, `staged` is `BLOCK`, `call` holds the
locals of `make_rpc`: the range asked for, the bytes so far, the retries. `Ask`
is `get_block` up to the first outcall; `ReplyWhole`, `ReplyRange`, `ReplyOther`
are the three branches on status and headers; `OutcallFails` is a turn of the
retry loop. `ReplyPanics` is a `Content-Range` without a slash, or without a dash
before it, as in the `bytes */100` of status 416: the callback indexes behind the
pieces (`rpc.rs:195`, `rpc.rs:197`) and traps, so that the call never returns, its
round sets no timer (`Trap` in `Updater`), and only `start()` goes on (`Restart`). Bytes are numbered per server, so a piece from the wrong place or
the wrong server is told apart. A server answers a range with its bytes or the
first of them, ignores it, or refuses it. That `Conclude` stages the block only
if the pieces are the whole reply stands for the checks behind the download
(JSON, the error field, the block's hash, its merkle root): bytes put together
in any other way do not pass them.

**UtxoEntries.** `table`, `cache` are `OUTPOINT_TO_UTXO_ENTRY` and the UTXO
cache, with entries as strings of bytes; `inputs`, `left` are `coinbase_inputs`
and `lost_sat_ranges`, packed; `Turn` is one turn of the loop of
`index_transaction_sats`. `said` is an auxiliary variable: what all these bytes
say, decoded after each step, which is what the mapping to `SatFlow` uses. The
widths are parameters (a byte has `ByteBits` bits, the start of a range
`BaseBits`); 8, 51, 11 and 4 in the code, and `BitsAssumption` is what `store`
relies on without a check.

**Envelopes.** `scripts` are the tapscripts of the inputs; `at` is the iterator,
`stuttered`, `open` the locals of `from_tapscript` and `from_instructions`,
`found` and `raw` the envelopes of this input and of those before. An
instruction is what it is and what it pushes; what cannot be read ends the
script and throws its envelopes away. `ParseAll` is `ParsedEnvelope::from` on
each. A behaviour begins with any scripts, or with those the writer makes of a
batch of inscriptions.

## 4. Runs

| Run | Shows | Bounds |
|---|---|---|
| `updater_safety` | `TypeOK`, `HeadersLinked`, `StagedBlockPresent`, `RoundsAgree`, the refinement `IndexedChain`, and liveness (`CatchUp`), with reorgs and upgrades in the middle of a block, traps, failures | ten blocks: a chain, a branch within reach of a rollback, one at genesis that is within reach or not depending on how far the chain is; depth 3; one loop; blocks of one piece, some bare and some not, so that an upgrade in their middle does and does not lose inputs |
| `updater_content` | `IndexMatchesChain`, `RecordsUndo`, `CursorAgrees`, `StageFinishesBlock`, `CatchUp`: pieces of blocks through breakpoints, traps, failures, reorgs between blocks | the same tree; three pieces a block, the block at the root bare |
| `updater_two_loops` | `ShutdownCompletes`, also for two loops that disturb each other | two blocks |
| `inscriptions` | `SatsConserved`, `InscriptionsOnTheirSat`, `EachOnce`, `QueriesAnswerable`, `NumbersDense`, `NumberedAsTheyLand`, `CursesFollowTheSat`, `SecondaryIndexesAgree`, `PointsTrue`, `UndoRestores`, and the types | five blocks on two branches, subsidy of three sats, two reorgs |
| `rpc` | `BufferIsPrefix`, `LosesOneByteAtMost`, the refinement `OneCall`, liveness (`CallEnds`: the call returns, or traps) | replies of one to eight bytes in ranges of three, three retries, four servers, two blocks |
| `formats` | `FindsTheEnvelopes`, `StutterDoesNotSpread`, `ReadsWhatWasWritten`, `EvenFieldsUnbind`, `ValuesHaveOneMeaning`; `RareSatsFound`, `OffsetsMeanSats`, the refinement `FlowsLikeSats` | below |
| `start_twice`, `reorg_mid_block`, `stop_mid_block`, `upgrade_mid_block`, `reorg_entries`, `reorg_statistics` | violations, section 5 | |

*Why the bounds are enough.* Depth 3 is the least at which a search for the
ancestor can take two lookups and still succeed, can fail for want of depth, and
at which pruning forgets a header that a deeper reorg would want. Branches of
the tree fork at the tip, below it, and at the root. Three pieces give a first,
a middle and a last breakpoint. `CatchUp` is checked twice, with reorgs in the middle of a block but blocks of
one piece, and with three pieces but reorgs between blocks. Heights are bounded
by the tree, which is what ends a behaviour, so deadlock is checked everywhere
but where a behaviour may really end: in the runs of `Inscriptions` (at the last
block, or at an `unwrap` after a rollback that lost an entry) and in `formats`
(when all is read, or the subsidies are spent).

In `Inscriptions` a breakpoint can come at each
check, any number of times in a block; the blocks were chosen so that each
branch of `index_inscriptions` and of `update_inscription_location` is taken:
inscriptions in the first and in a later input, on a sat that has one, with and
without a pointer, with and without a parent, cursed and vindicated, unbound for
either reason, burned, lost, in fees; an output spent in its own block; the null
outpoint appended to twice.

In `rpc` a reply ends at the end of a range, one byte behind it (the range that
is never fetched), two bytes behind it, and inside the first range; servers cut
answers anywhere, so ranges begin anywhere. In `formats` the scripts are all
concatenations of up to four of nine pieces (an empty push, an opening whole and
in parts, `OP_ENDIF`, a push, a pushed number, a broken push) in one input, of
up to two in each of two inputs; all payloads of up to five pushes of five kinds
(empty, an odd field, an even one that is known and one that is not, a chunked
one); all values of up to four bytes under the tags of pointers and parents,
with ids of a one-byte txid and two bytes of index; and batches of one or two
inscriptions with every combination of a few values of each field, chunked in
twos. Entries have bytes of two bits, so that a varint takes several, and ranges
whose start ends inside a byte, as it does in the code (51 bits); three blocks,
one without a subsidy; four transactions of up to two inputs and outputs that
are worth nothing, less than, as much as or more than a range.

*Reorgs and the properties between blocks.* The content properties are checked with
`ReorgAnytime` and `UpgradeAnytime` off because `reorg_mid_block` and
`upgrade_mid_block` show what happens with them on. They are about pieces: that
the tables hold those of the indexed chain, that a record lists those of its
block. That undoing a record's pieces restores every table is *not* what they
say, and is not so (`reorg_entries`, `reorg_statistics`). In the same way the
invariants of `Inscriptions` are about states reached through rollbacks that
restored the tables (`past.clean`); `UndoRestores` says which do: those of
blocks that burned no earlier inscription, wrote to no special outpoint, and
whose statistics were recorded before any breakpoint wrote its own. The
satpoint tables are excluded: a rollback removes the satpoints of what moved
and never restores them, and `PointsTrue` shows that those that are left are true.
`QueriesAnswerable`, that a query for an output finds the entry of what is listed
there (`index.rs:701`), is asked at every step of `Inscriptions`, in the middle of
a block too, and under the same condition: after the rollback of a burn it fails,
between blocks, which is `reorg_entries`.

*Fairness.* Timers fire and outstanding calls are answered or fail
(`WF(Round(l))`): the platform guarantees a response to every call. Calls made
again and again do not fail for ever (`SF` of `HashFound`, `BlockFetched`, and of
`AncestorFound` at each depth): `run_indexing_round` treats errors as transient,
and nothing could catch up otherwise. Strong fairness is needed because a
retry disables and enables the call; per depth, because a search that restarts
enables another depth's call in between. No fairness is assumed of Bitcoin, of
`start` or of `stop`. In `Rpc` the platform answers every outcall, if only with
an error (`WF(Outcall)`); the counter of retries and the ranges, which only grow,
do the rest. `CatchUp` is conditional on a loop that runs for ever: a
trap ends it, and so does a fork deeper than the recoverable depth.

## 5. What the violations show

Each is a run with one property, and a finding in `PROJECT.json` that quotes the
statement the code contradicts.

1. `start_twice` — `start()` does not ask whether a loop is alive. Two loops
   share one staged block; the timer of a later stage finds it cleared, which a
   comment excludes.
2. `reorg_mid_block` — the hash at the height in progress changes between two
   rounds. `get_block` stages the new block and resets the cursor; the staged
   variables are still the old block's and are continued. What the old block wrote
   stays in the tables, and in the staged record, which is saved under the height
   of the new one. (If the new block spends an output that the old one had spent
   already, it traps instead.)
3. `stop_mid_block` — a failed lookup in the middle of a block ends the round
   with `End`, which with `stop()` pending ends the loop there. What the code does
   keep is `StageFinishesBlock`: a block in progress stays the staged one until its
   header is entered, and an execution that runs a stage never ends the loop with
   a block half indexed.
4. `upgrade_mid_block` — the cursor is stable, the staged variables are not. The
   inputs of the transaction under the cursor are in neither the cache nor the
   table any more (nor the coinbase's fees), so the next Index stage traps at the
   assertion, at that `start()` and at every later one: the block is never
   completed and never counted. Only a bare block goes on. (Left out: a coinbase
   under the cursor that claims no more than the subsidy would go on too.)
5. `reorg_entries` — burning an older inscription notes it among the entries
   *added*; rolling the block back deletes the entry, and the output it is
   on again lists it, so that the next query or transfer unwraps `None`. `Updater`
   does not see this: there a piece is undone as a whole.
6. `reorg_statistics` — a block that took several messages is rolled back to
   the statistics of its last breakpoint.

Two more, of the same family, are visible in `Irreversible` and `UndoRestores`
without a run of their own: the rollback of a block that appended to the null
or the unbound outpoint removes the whole entry, and satpoints that a block
overwrote are removed.

One more is stated as a property that holds. `make_rpc` ends before a range of one
byte (`range.0 >= range.1`, `rpc.rs:205`), while the comment on `split` adds the
ranges up to the total (`rpc.rs:48-49`): a reply whose length is one more than a
multiple of the range, counted from the last answer, loses its last byte. It
does no harm with bitcoind, whose replies end with a newline; from a server
whose replies do not, such a block is never staged, and `OneCall` shows that
nothing worse happens. Of the parser, `StutterDoesNotSpread` has a side that is
not harmless: `stutter` is set for envelopes that do not stutter, but only
behind an earlier envelope in the same script, and those are cursed for their
offset already.

## 6. Proofs

`UpdaterProofs` proves of `Updater`, for every tree, every depth of at least two,
every number of pieces, and every setting of the switches for reorgs, upgrades,
traps and failures:

| Theorem | Statement |
|---|---|
| `TypeCorrect` | `Spec => []TypeOK` |
| `HeadersStayLinked` | `Spec => []HeadersLinked` |
| `RoundsStayInAgreement` | `Spec => []RoundsAgree` |
| `StagedBlockStays` | `Spec => []StagedBlockPresent` |
| `Refinement` | `Spec => IndexedChain` |

Assumptions: those named in `BlockTree` and `Updater` (a tree with one genesis, bare
blocks that are blocks,
heights that count predecessors, ancestry closed under predecessors, a depth of
at least two), and `OneLoop`, that there is one loop: `start_twice` shows that
the last two invariants fail without it.

The argument. The invariant is `IInv`: `TypeOK`, `Chained(headers)` and
`RoundsAgree`. `HeadersLinked` alone is not inductive: a rollback steps to a
block that the round compared with an *indexed* block at a depth, and to know
that the result is a window, and that the abstract chain steps to an ancestor,
one needs that every header is an ancestor of those above it (`Chained`) and
that the height, hash and depth remembered across the await are still those of
the table (`RoundsAgree`). `RoundsAgree` in turn is disturbed by whatever
changes the table while a round waits; with one loop, nothing does.
The module treats the table as a value first — insertion at the top, removal
from below (pruning) and from above (rollback) keep it a window — then has one
lemma per stage and per action, and the refinement from the step lemma's facts
about `Tip`.

Its second part proves, of `Updater` with one loop and under `BetweenBlocks`
(`~ReorgAnytime /\ ~UpgradeAnytime`; with either on, `IndexMatchesChain` is
violated, section 5), and with traps and failed calls allowed or not:

| Theorem | Statement |
|---|---|
| `TablesMatchChain` | `Spec => []IndexMatchesChain` |
| `EveryBlockUndoable` | `Spec => []RecordsUndo` |
| `CursorStaysInAgreement` | `Spec => []CursorAgrees` |
| `StagesFinishTheirBlock` | `Spec => StageFinishesBlock` |

All are at the level of pieces: that a record, played back, restores what is
inside a piece is the subject of `ReorgsUndo`, with its exceptions.
`StagesFinishTheirBlock` says that no step but the one that enters its header
changes which block is in progress, traps and restarts included, and that no
execution but a trap or a failed call ends the loop in the middle of one.

None of them is inductive. The invariant is `CInv`, on top of `IInv`: `Anchored`
(the staged block extends the header table while there is work on it, and is
still in Bitcoin's chain), `NothingInProgress` (a round that is looking for an
ancestor has no work in hand), `Accounted` (the tables are the effects of the
indexed chain and of the pieces recorded so far; of the outputs' table, those
that are not in the cache any more), `StageReached` (what a later stage may
take for done), and `RecordsUndo`. `Anchored` is what needs `BetweenBlocks`. The
work is in `HandleReorg`: the union of the records played back is what the
blocks above the ancestor wrote, because each record is of its own header
(`RecordsUndo`) and the headers are one chain (`IInv`), so what is left is the
lineage of the ancestor.

`RpcProofs` proves, for all servers, replies, ranges, retries and blocks:

| Theorem | Statement |
|---|---|
| `TypeCorrect` | `Spec => []TypeOK` |
| `PrefixKept` | `Spec => []BufferIsPrefix` |
| `AllButOneByte` | `Spec => []LosesOneByteAtMost` |
| `DownloadIsOneCall` | `Spec => OneCall` |

from `ServerAssumption`, `RangeAssumption` (a range after the first has more than
one byte: with ranges of one byte a download would end at once) and
`HashAssumption`. The arithmetic is in `split`: that the next range
begins behind the last answer and ends inside the reply, or else is the range of
one byte.

`FrameProofs`, `TablesProofs`, `PlacesProofs`, `LandingProofs`, `SatsProofs` and
`OffsetsProofs` prove of `Inscriptions`, for every tree and every content of its blocks, wherever the instruction counter ends the
messages, and for any number of reorgs of any depth:

| Theorem | Statement |
|---|---|
| `FrameHolds` | `Spec => []Frame` |
| `TypesHold` | `Spec => []TypeOK` |
| `ListedHolds` | `Spec => []Listed` |
| `SecondaryIndexes` | `Spec => []SecondaryIndexesAgree` |
| `RecordsNoteTheWrites` | `Spec => []Reversible` |
| `ReorgsUndo` | `Spec => UndoRestores` |
| `SitedHolds` | `Spec => []Sited` |
| `NumbersAreDense` | `Spec => []NumbersDense` |
| `EachIsOnce` | `Spec => []EachOnce` |
| `QueriesStayAnswerable` | `Spec => []QueriesAnswerable` |
| `SatsAreConserved` | `Spec => []SatsConserved` |
| `InscriptionsStayOnTheirSat` | `Spec => []InscriptionsOnTheirSat` |

`TypeOK` is far from inductive. That an unsigned number does not go below zero
(the reward, the lost sats, the offset in an output of what comes down there)
depends on what a resumed message finds, so the invariant, `Frame`, says what
locals and staged variables can be at every point at which a message may end:
`Types` (their shapes), `Linked` (the chain, the records and the history),
`Control` (which of the five staged variables are set at which point of the
cursor, and which locals then), `Pending` (which locals are still empty, to be
replaced by what a message left), `Counts` (the values of the inputs and outputs
passed so far; what floats is in the order of offsets and behind those outputs)
and `Balanced` (the reward is the number of sats in the fees). `LastsOK` adds which
heights have a last sequence number. `FrameHolds` is the argument that a
transaction resumed at any of the four checks of the instruction counter takes
up where it was left.

On `Frame` rests `Listed`: the entries are dense, numbers count up from zero and
down from -1, the entries are in the order of their heights, an entry and the
tables of children and of sats mention each other, and ids of entries are
entered; of the tables now, of the
tables before each block that may be undone, and with the statistics in the
locals where a message is under way. All but the shape is conditional on
`past.clean`. `SecondaryIndexesAgree` is one part of it, and so is most of
`NumbersDense`.

`UndoRestores` needs what a change record says of the writes of its block,
`Reverts` (what it does not list is as before the block; what it puts back is
what was there; what else it lists was not there unless that is irreversible), for every block that may be undone
and for the block in progress, whatever part of it is done (`Noted`).
Two things make that inductive. Inscriptions that float, wait or
come down, and that are not entered yet, have ids of transactions of this block
(`NewHere`), and the outputs in the tables and the cache have ids of
transactions that are indexed (`Origin`): so an id or outpoint that the block
writes is new, and to delete it is to undo the write. That is where
`IdAssumption` comes in. And the union of the records of several blocks undoes
them: `HandleReorg` plays the records back from the top down, and an induction
over the number of blocks undone shows that after each the tables are those of
before that block.

`Sited` says where the inscriptions are. Each has a key, its sequence number or,
until it has one, its id; and each key is in exactly one of seven places: the
outputs of the table, those of the cache, the outputs of the transaction in
progress, its inputs that have not been taken yet (of the one being read, the
inscriptions from the cursor on), what floats, what has come down or is left,
and what waits for the coinbase (`Placed`). Those places are views: at a resumed
transaction they are read from the staged variables, and from the locals from
the point on at which the code has taken them over, so that the invariant does
not change its form when a message ends, and the steps that end or begin one
are shown to leave every view as it was (`SameView`). Two parts make it
inductive. `FromDone`: ids in the tables, outputs in the tables and the cache,
and what floats, come from the transactions indexed so far, so that what a
transaction creates is nowhere yet; while inputs are read, the envelopes afloat
are those before the next. And `IdsMatch`: ids and entries are inverse.
`Positions` says that the views are taken at a point which exists. `NumbersDense`
follows with `Listed`, the number of ids from a bijection. `EachOnce` needs one
thing more, `Stranded`: the unbound outpoint has just the inscriptions without a
sat, which holds because no transaction spends that outpoint and `commit` appends
what the cache has for it to what the table has. `QueriesAnswerable` is a part of
`Sited`: what an output of the table lists has a key, and so an entry, at every
step.

`SatsConserved` comes from the same division into places, with sats for
inscriptions: what `PlacesProofs` says of entries is said of the sats of an entry
(`Coin`, `Purse`). `Flowing` has five places: the outputs of the table, those of
the cache, the outputs of the transaction in progress, the fees that the coinbase
has still to spend (`Owed`) and what it leaves over (`Left`); every sat of the
blocks begun is in exactly one, and the null outpoints of the table and of the
cache together have as many as the statistics count. `Spend` is the step that
moves most: the sats of the inputs are those of the entries that it takes from the
table and the cache, each output has a segment of them, and what is behind the
last output goes to the fees or is lost. After a rollback that was not exact
(section 5 says when that is) it claims nothing, like `Listed` and `Sited`.

`InscriptionsOnTheirSat` needs, in each of those places, that the offset of an
inscription is that of its sat among the sats that belong to the place. They are
those of the entry for an output of the table or of the cache, of a transaction
or spent by it (`Moored`); those of all inputs for what floats, and, less the
values of the outputs before, those of its output for what has come down
(`Riding`); and the fees for what waits for the coinbase (`Waited`). On the
null outpoint offsets count from the first sat ever lost, so they are offsets in
what the table has followed by what the cache or the locals have (`Sinking`).
Each move is then a fact about where a sequence of sats is in another: an
input's in those of the inputs, behind the value of those before it; an output's
in the same, by `ValueOf`; what is left over, behind the fees that the reward
counts, or behind the lost sats of the statistics. That the two counts agree at
every point of a block is `Accounted`, which is inductive on `Frame`; and that
what a message leaves is found by the next is again `SameView`. What floats
without an entry has no sat yet: it gets the one at its offset when it comes
down, which is why `Riding` asks only that there is one.

`Inscriptions` writes the sort by offsets, the sum of values and the blocks undone
as choices and recursive functions. What the proofs need of them, that a sort exists and
that a sum of naturals is one, is proved from the well-foundedness of `<`: the
library's induction theorems take an operator, which the provers cannot
instantiate, but stated for the *set* of numbers that have the property
(`NatSetInduction`) induction is first-order.

Assumptions: those of `BlockTree`, `SubsidyAssumption`, `UndoAssumption`,
`NoneAssumption`; `ContentAssumption` gives blocks their types;
`IdAssumption`, that no transaction id occurs twice in a chain, is BIP 30 (it came
too late for two coinbases of 2010, long before the first inscription; the
theorems are not about the chain across those two blocks); `InputsAssumption`, that a transaction spends an output once,
and none of the two special ones, is a rule of consensus.

Only model-checked:

* `CatchUp`, `ShutdownCompletes`, `CallEnds`: liveness under fairness is out of the
  prover's reach.
* of `Inscriptions`, `PointsTrue`, `NumberedAsTheyLand` and `CursesFollowTheSat`.
  The first compares with the points that earlier blocks wrote; the last two
  compare with what a recursion over the indexed chain computes.
* the two formats, whose operators are recursive over sequences and bytes.

## 7. Not modelled

* Fees, timestamps, addresses, charms that depend on the sat: written and never
  read by the indexing. Address and script fields of UTXO entries, which the
  canister's settings leave out.
* Of `rpc.rs`: the amounts of cycles attached to an outcall, the parsing of
  headers and of JSON.
* Of `entry.rs`: the tuples and candid encodings of the other entries, and the
  rune entries, which nothing in the canister uses. Of `bitcoin_api.rs`: the
  decoding of headers.
* Of `inscriptions/`: reading files, compression, media types, metadata as CBOR,
  what is hidden; they do not take part in indexing.
* `config.rs` but the URL, `logs.rs` (ring buffers of an external crate, read by
  one query), `media.rs`, `teleburn.rs`, `properties.rs`, `lot.rs`, `error.rs`: no
  state that interacts, or not used.

## 8. Plan

Done: all modules of section 2, their runs, and the proofs of section 6.

An abstract data plane in one step per block, which `Inscriptions` would
implement, was planned and dropped: the two properties it was for, that neither
numbers nor curses depend on where a block was interrupted, are stated directly
(`NumberedAsTheyLand`, `CursesFollowTheSat`) and compare with what the blocks'
content says.

What is left to prove, of what can be: `PointsTrue`, from `Sited` and `Flowing`.
