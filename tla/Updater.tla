------------------------------- MODULE Updater -------------------------------
(* The indexing loop of the canister: a one-shot timer runs one round, the   *)
(* round talks to Bitcoin across awaits, stages a block, indexes it over as  *)
(* many messages as the instruction limit takes, commits it, saves what      *)
(* undoes it, and enters its header; a reorg undoes the blocks of a stale    *)
(* branch.  Each action is one message execution of the canister: what runs  *)
(* between two awaits is atomic, and a trap rolls it back.                   *)
(*                                                                           *)
(* Content is kept to what a rollback and an interruption can tell apart.    *)
(* Indexing a block consists of Units resumable pieces; piece u of block b   *)
(* has one effect <<b, u>>, which reaches the tables written at once (db)    *)
(* and, through the UTXO cache, the table written by commit (utxo).          *)
(*                                                                           *)
(* A reply is computed when it is delivered.  With one loop nothing is lost: *)
(* between the node's answer and its delivery only the node's chain and the  *)
(* shutdown flag can change, and the resumed code reads neither before it    *)
(* has used the answer.                                                      *)
EXTENDS BlockTree, Tables, FiniteSetsExt

CONSTANTS
  MaxDepth,       \* reorg::get_max_recoverable_reorg_depth
  Units,          \* pieces of a block between which indexing can be interrupted
  Bare,           \* blocks of nothing but a coinbase, which claims the subsidy
  Loops,          \* the indexing loops that can be alive together
  ReorgAnytime,   \* a reorg may replace the block in progress
  UpgradeAnytime, \* an upgrade may come while a block is in progress
  Traps,          \* a message execution may trap
  RpcFailures     \* a call to Bitcoin may fail

ASSUME DepthAssumption == MaxDepth \in Nat /\ MaxDepth >= 2
ASSUME UnitsAssumption == Units \in Nat \ {0}
ASSUME BareAssumption == Bare \subseteq Blocks
ASSUME SwitchAssumption ==
  {ReorgAnytime, UpgradeAnytime, Traps, RpcFailures} \subseteq BOOLEAN

VARIABLES
  best,          \* the last block of the chain Bitcoin holds best
  headers,       \* HEIGHT_TO_BLOCK_HEADER (stable)
  records,       \* HEIGHT_TO_ORDINALS_CHANGE_RECORD (stable)
  staged,        \* BLOCK (stable): the block being indexed
  cursor,        \* CURSOR (stable): the first piece not indexed yet
  db,            \* effects in the tables that are written at once (stable)
  utxo,          \* effects in the table that commit writes (stable)
  work,          \* STAGED_BLOCK_VARS (heap): what a block in progress carries
  shuttingDown,  \* SHUTTING_DOWN (heap)
  loop           \* loop[l]: where the asynchronous round of loop l waits

index == <<headers, records, db, utxo>>
vars == <<best, index, staged, cursor, work, shuttingDown, loop>>

-----------------------------------------------------------------------------
(* Data *)

Pieces == 0..Units - 1
Effects(b) == {b} \X Pieces
AllEffects == Blocks \X Pieces

\* StagedState without End: the stages of a block in progress.
Stages == {"Index", "Commit", "Save", "Prune", "Cleanup"}
States == Stages \cup {"End"}

\* StagedBlockVars::default(), which is also what a missing value means.
NoWork == [state |-> "Index", cache |-> {}, record |-> {}]

\* The locals of a round that live across an await.  While a hash is looked
\* up, block is not used; in "block" it is the block asked for; in "ancestor"
\* it is the indexed block at height - depth.
Dead == [pc |-> "dead", next |-> "End", height |-> 0, prev |-> NoBlock,
         block |-> NoBlock, depth |-> 0]

\* mem_latest_block and next_block on a header table: the last block, and the
\* height to index.
TipIn(H) == IF DOMAIN H = {} THEN NoBlock ELSE H[Max(DOMAIN H)]
NextIn(H) == IF DOMAIN H = {} THEN 0 ELSE Max(DOMAIN H) + 1
Tip == TipIn(headers)
NextHeight == NextIn(headers)

Init ==
  /\ best \in {b \in Blocks : Prev[b] = NoBlock}
  /\ headers = << >> /\ records = << >>
  /\ staged = NoBlock /\ cursor = 0
  /\ db = {} /\ utxo = {}
  /\ work = NoWork
  /\ shuttingDown = FALSE
  /\ loop = [l \in Loops |-> Dead]

-----------------------------------------------------------------------------
(* Scheduling *)

Sleep(l, s) == loop' = [loop EXCEPT ![l] = [Dead EXCEPT !.pc = "timer", !.next = s]]
Die(l) == loop' = [loop EXCEPT ![l] = Dead]

\* Mutant of Reschedule: the flag alone ends the loop, whatever the stage.
RescheduleStopsAtOnce(l, s) == IF shuttingDown THEN Die(l) ELSE Sleep(l, s)

\* Mutant of Reschedule: the flag is never read.
RescheduleNeverStops(l, s) == Sleep(l, s)

\* A round returned Ok(s): the loop ends between blocks when asked to, and
\* otherwise sets its next timer.
Reschedule(l, s) == IF s = "End" /\ shuttingDown THEN Die(l) ELSE Sleep(l, s)

\* A round that changed nothing returned End.
GiveUp(l) == /\ Reschedule(l, "End")
             /\ UNCHANGED <<index, staged, cursor, work>>

-----------------------------------------------------------------------------
(* index_block: one stage of block b at height h; at is the value of CURSOR *)

\* Where an execution of the Index stage that starts at piece at may stop: at
\* a breakpoint, or at the end of the block.  The limit is looked at after an
\* inscription has landed, and on a bare block none does.
Ends(b, at) == IF b \in Bare THEN {Units} ELSE at + 1 .. Units

\* A transaction's inputs leave the cache and the table before its first
\* inscription lands, and only the staged variables hold them until it is
\* done.  Once a piece of b is indexed and those variables are lost, the
\* transaction under CURSOR no longer finds its inputs, nor the coinbase its
\* fees.  (A coinbase that is under CURSOR and claims no more than the subsidy
\* is left out: an inscription gets there only with the fees it is paid in.)
InputsGone(b) == b \notin Bare /\ work = NoWork /\ Effects(b) \cap db # {}

\* Then the Index stage traps, by assert!(!have_full_utxo_index()) or for
\* insufficient inputs, and sets no timer.
InputsMissing(l, b) ==
  /\ work.state = "Index"
  /\ InputsGone(b)
  /\ Die(l)
  /\ UNCHANGED <<index, staged, cursor, work>>

\* Mutants of IndexUtxoEntries: CURSOR also moves at the end of the block; a
\* breakpoint keeps the cached outputs, or the change record, of the last
\* message only.
IndexMovesCursorAtEnd(l, b, at) ==
  /\ work.state = "Index"
  /\ ~InputsGone(b)
  /\ \E n \in Ends(b, at) :
       /\ db' = db \cup ({b} \X (at .. n - 1))
       /\ work' = [state |-> IF n = Units THEN "Commit" ELSE "Index",
                   cache |-> work.cache \cup ({b} \X (at .. n - 1)),
                   record |-> work.record \cup ({b} \X (at .. n - 1))]
       /\ cursor' = n
       /\ Reschedule(l, work'.state)
  /\ staged' = b
  /\ UNCHANGED <<headers, records, utxo>>

IndexForgetsCache(l, b, at) ==
  /\ work.state = "Index"
  /\ ~InputsGone(b)
  /\ \E n \in Ends(b, at) :
       /\ db' = db \cup ({b} \X (at .. n - 1))
       /\ work' = [state |-> IF n = Units THEN "Commit" ELSE "Index",
                   cache |-> {b} \X (at .. n - 1),
                   record |-> work.record \cup ({b} \X (at .. n - 1))]
       /\ cursor' = IF n = Units THEN at ELSE n
       /\ Reschedule(l, work'.state)
  /\ staged' = b
  /\ UNCHANGED <<headers, records, utxo>>

IndexForgetsRecord(l, b, at) ==
  /\ work.state = "Index"
  /\ ~InputsGone(b)
  /\ \E n \in Ends(b, at) :
       /\ db' = db \cup ({b} \X (at .. n - 1))
       /\ work' = [state |-> IF n = Units THEN "Commit" ELSE "Index",
                   cache |-> work.cache \cup ({b} \X (at .. n - 1)),
                   record |-> {b} \X (at .. n - 1)]
       /\ cursor' = IF n = Units THEN at ELSE n
       /\ Reschedule(l, work'.state)
  /\ staged' = b
  /\ UNCHANGED <<headers, records, utxo>>

\* index_utxo_entries up to a breakpoint or the end of the block.  CURSOR
\* moves at a breakpoint only.  A block that takes over the staged variables
\* of another one may or may not meet inputs that are gone: that is a Trap.
IndexUtxoEntries(l, b, at) ==
  /\ work.state = "Index"
  /\ ~InputsGone(b)
  /\ \E n \in Ends(b, at) :
       LET new == {b} \X (at .. n - 1)
           next == IF n = Units THEN "Commit" ELSE "Index"
       IN /\ db' = db \cup new
          /\ work' = [state |-> next, cache |-> work.cache \cup new,
                      record |-> work.record \cup new]
          /\ cursor' = IF n = Units THEN at ELSE n
          /\ Reschedule(l, next)
  /\ staged' = b
  /\ UNCHANGED <<headers, records, utxo>>

\* commit writes some of the cached outputs and stops at a breakpoint, which
\* may come after the last of them, or writes them all.
Commit(l, b, at) ==
  /\ work.state = "Commit"
  /\ \/ \E S \in (SUBSET work.cache) \ {{}} :
          /\ utxo' = utxo \cup S
          /\ work' = [work EXCEPT !.cache = @ \ S]
          /\ Reschedule(l, "Commit")
     \/ /\ utxo' = utxo \cup work.cache
        /\ work' = [work EXCEPT !.state = "Save", !.cache = {}]
        /\ Reschedule(l, "Save")
  /\ staged' = b
  /\ cursor' = at
  /\ UNCHANGED <<headers, records, db>>

\* Mutant of Save: the pruning round is skipped, its state is not.
SaveSkipsPrune(l, h, b, at) ==
  /\ work.state = "Save"
  /\ records' = Put(records, h, work.record)
  /\ work' = [NoWork EXCEPT !.state = "Prune"]
  /\ Reschedule(l, "Cleanup")
  /\ staged' = b
  /\ cursor' = at
  /\ UNCHANGED <<headers, db, utxo>>

Save(l, h, b, at) ==
  /\ work.state = "Save"
  /\ records' = Put(records, h, work.record)
  /\ work' = [NoWork EXCEPT !.state = "Prune"]
  /\ Reschedule(l, "Prune")
  /\ staged' = b
  /\ cursor' = at
  /\ UNCHANGED <<headers, db, utxo>>

\* Mutant of Prune: the staged block is cleared one round early.
PruneClearsBlock(l, h, b, at) ==
  /\ work.state = "Prune"
  /\ work' = [NoWork EXCEPT !.state = "Cleanup"]
  /\ Reschedule(l, "Cleanup")
  /\ staged' = NoBlock
  /\ cursor' = at
  /\ UNCHANGED <<headers, records, db, utxo>>

\* prune_change_record: what no reorg can reach is forgotten.
Prune(l, h, b, at) ==
  /\ work.state = "Prune"
  /\ LET old == {k \in DOMAIN records \cup DOMAIN headers : k <= h - MaxDepth}
     IN /\ records' = Drop(records, old)
        /\ headers' = Drop(headers, old)
  /\ work' = [NoWork EXCEPT !.state = "Cleanup"]
  /\ Reschedule(l, "Cleanup")
  /\ staged' = b
  /\ cursor' = at
  /\ UNCHANGED <<db, utxo>>

Cleanup(l, h, b, at) ==
  /\ work.state = "Cleanup"
  /\ staged' = NoBlock
  /\ work' = NoWork
  /\ headers' = Put(headers, h, b)
  /\ Reschedule(l, "End")
  /\ cursor' = at
  /\ UNCHANGED <<records, db, utxo>>

IndexBlock(l, h, b, at) ==
  \/ IndexUtxoEntries(l, b, at)
  \/ InputsMissing(l, b)
  \/ Commit(l, b, at)
  \/ Save(l, h, b, at)
  \/ Prune(l, h, b, at)
  \/ Cleanup(l, h, b, at)

-----------------------------------------------------------------------------
(* Reorganizations *)

\* detect_reorg's loop at depth d: read the indexed block there and ask for
\* Bitcoin's, or report the reorg unrecoverable, which ends the loop.
CheckAncestor(l, h, d) ==
  IF d > MaxDepth \/ h - d \notin DOMAIN headers
  THEN Die(l)
  ELSE loop' = [loop EXCEPT ![l] =
         [Dead EXCEPT !.pc = "ancestor", !.height = h, !.depth = d,
                      !.block = headers[h - d]]]

\* Mutant of DetectReorg: the predecessor is not compared.
DetectNothing(l, h, prev, b, at) == IndexBlock(l, h, b, at)

\* Block b has been obtained for height h; prev is what was indexed last when
\* the round began.
DetectReorg(l, h, prev, b, at) ==
  \/ /\ prev \in {NoBlock, Prev[b]}
     /\ IndexBlock(l, h, b, at)
  \/ /\ prev \notin {NoBlock, Prev[b]}
     /\ CheckAncestor(l, h, 1)
     /\ staged' = b
     /\ cursor' = at
     /\ UNCHANGED <<index, work>>

\* Mutant of HandleReorg: the common ancestor is dropped too.
HandleReorgOffByOne(h, d) ==
  LET dropped == h - d .. h - 1
      undone == UNION {records[k] : k \in dropped \cap DOMAIN records}
  IN /\ db' = db \ undone
     /\ utxo' = utxo \ undone
     /\ headers' = Drop(headers, dropped)
     /\ records' = Drop(records, dropped)
     /\ UNCHANGED <<staged, cursor, work>>

\* handle_reorg: undo the d - 1 blocks above the common ancestor.  A record
\* undoes the pieces it lists, each as a whole.  What it does not restore inside
\* a piece (the entries of inscriptions burned, special outputs, satpoints,
\* statistics) is Inscriptions' part: UndoRestores, EntriesPresent and
\* StatisticsRestored there.
HandleReorg(h, d) ==
  LET dropped == h - d + 1 .. h - 1
      undone == UNION {records[k] : k \in dropped \cap DOMAIN records}
  IN /\ db' = db \ undone
     /\ utxo' = utxo \ undone
     /\ headers' = Drop(headers, dropped)
     /\ records' = Drop(records, dropped)
     /\ UNCHANGED <<staged, cursor, work>>

-----------------------------------------------------------------------------
(* The messages of a round *)

\* The timer fires.  A later stage of the staged block is run at once; the
\* Index stage and a new block begin with a look-up of the block's hash.
Fire(l) ==
  /\ loop[l].pc = "timer"
  /\ \/ /\ loop[l].next \in {"End", "Index"}
        /\ loop' = [loop EXCEPT ![l] =
             [Dead EXCEPT !.pc = "hash", !.height = NextHeight, !.prev = Tip]]
        /\ UNCHANGED <<index, staged, cursor, work>>
     \/ /\ loop[l].next \notin {"End", "Index"}
        /\ staged = NoBlock
        /\ GiveUp(l)
     \/ /\ loop[l].next \notin {"End", "Index"}
        /\ staged # NoBlock
        /\ IndexBlock(l, NextHeight, staged, cursor)
  /\ UNCHANGED <<best, shuttingDown>>

\* get_block_hash found a block.  rpc::get_block answers from the staged block
\* when that is the one, without an await, and asks for the block otherwise.
HashFound(l) ==
  LET h == loop[l].height
      b == AtHeight(best, h)
  IN /\ loop[l].pc = "hash"
     /\ h <= Height[best]
     /\ \/ /\ staged = b
           /\ DetectReorg(l, h, loop[l].prev, b, cursor)
        \/ /\ staged # b
           /\ loop' = [loop EXCEPT ![l].pc = "block", ![l].block = b]
           /\ UNCHANGED <<index, staged, cursor, work>>
     /\ UNCHANGED <<best, shuttingDown>>

\* There is no such block yet, or the call failed.
HashUnavailable(l) ==
  /\ loop[l].pc = "hash"
  /\ RpcFailures \/ loop[l].height > Height[best]
  /\ GiveUp(l)
  /\ UNCHANGED <<best, shuttingDown>>

\* Mutant of BlockFetched: CURSOR is not reset.
BlockFetchedKeepsCursor(l) ==
  /\ loop[l].pc = "block"
  /\ DetectReorg(l, loop[l].height, loop[l].prev, loop[l].block, cursor)
  /\ UNCHANGED <<best, shuttingDown>>

\* The block arrived and is the one asked for: it is staged, and CURSOR reset.
BlockFetched(l) ==
  /\ loop[l].pc = "block"
  /\ DetectReorg(l, loop[l].height, loop[l].prev, loop[l].block, 0)
  /\ UNCHANGED <<best, shuttingDown>>

\* The call failed, or brought another block or a wrong merkle root.
BlockUnavailable(l) ==
  /\ loop[l].pc = "block"
  /\ RpcFailures
  /\ GiveUp(l)
  /\ UNCHANGED <<best, shuttingDown>>

\* Mutant of AncestorFound: a mismatch is retried instead of looking deeper.
AncestorFoundLooksOnce(l) ==
  LET h == loop[l].height
      d == loop[l].depth
  IN /\ loop[l].pc = "ancestor"
     /\ h - d <= Height[best]
     /\ IF AtHeight(best, h - d) = loop[l].block
        THEN HandleReorg(h, d) /\ Reschedule(l, "End")
        ELSE GiveUp(l)
     /\ UNCHANGED <<best, shuttingDown>>

\* Bitcoin's block at height - depth is known: the common ancestor, or not.
AncestorFound(l) ==
  LET h == loop[l].height
      d == loop[l].depth
  IN /\ loop[l].pc = "ancestor"
     /\ h - d <= Height[best]
     /\ \/ /\ AtHeight(best, h - d) = loop[l].block
           /\ HandleReorg(h, d)
           /\ Reschedule(l, "End")
        \/ /\ AtHeight(best, h - d) # loop[l].block
           /\ CheckAncestor(l, h, d + 1)
           /\ UNCHANGED <<index, staged, cursor, work>>
     /\ UNCHANGED <<best, shuttingDown>>

AncestorUnavailable(l) ==
  /\ loop[l].pc = "ancestor"
  /\ RpcFailures \/ loop[l].height - loop[l].depth > Height[best]
  /\ GiveUp(l)
  /\ UNCHANGED <<best, shuttingDown>>

\* A message execution traps: its changes are rolled back and the timer that
\* would continue the loop is never set.
Trap(l) ==
  /\ Traps
  /\ loop[l].pc # "dead"
  /\ Die(l)
  /\ UNCHANGED <<best, index, staged, cursor, work, shuttingDown>>

-----------------------------------------------------------------------------
(* The operator and the environment *)

\* start() sets the timer of one more loop.
Start(l) ==
  /\ loop[l].pc = "dead"
  /\ shuttingDown' = FALSE
  /\ Sleep(l, "Index")
  /\ UNCHANGED <<best, index, staged, cursor, work>>

Stop ==
  /\ shuttingDown' = TRUE
  /\ UNCHANGED <<best, index, staged, cursor, work, loop>>

\* A block is in progress: a loop waits for it, or it is partly indexed.
InProgress == {loop[l].block : l \in {m \in Loops : loop[m].pc = "block"}}
              \cup (IF work = NoWork THEN {} ELSE {staged})

\* The stopped canister is upgraded: no call is outstanding, the heap and the
\* timers are lost, and post_upgrade starts no loop.  A block in progress keeps
\* its place in CURSOR and loses what the staged variables held (InputsGone).
Upgrade ==
  /\ \A l \in Loops : loop[l].pc \in {"dead", "timer"}
  /\ UpgradeAnytime \/ work = NoWork
  /\ work' = NoWork
  /\ shuttingDown' = FALSE
  /\ loop' = [l \in Loops |-> Dead]
  /\ UNCHANGED <<best, index, staged, cursor>>

\* Bitcoin's chain gets longer, on the same branch or on another.
NewBest ==
  /\ best' \in {b \in Blocks : /\ Height[b] > Height[best]
                               /\ ReorgAnytime \/ InProgress \subseteq Lineage[b]}
  /\ UNCHANGED <<index, staged, cursor, work, shuttingDown, loop>>

Round(l) == \/ Fire(l)
            \/ HashFound(l) \/ HashUnavailable(l)
            \/ BlockFetched(l) \/ BlockUnavailable(l)
            \/ AncestorFound(l) \/ AncestorUnavailable(l)

Next == \/ \E l \in Loops : Round(l) \/ Trap(l) \/ Start(l)
        \/ Stop
        \/ Upgrade
        \/ NewBest

Spec == Init /\ [][Next]_vars

\* Timers fire and calls are answered, and a call that is made again and again
\* does not fail every time: run_indexing_round assumes its errors transient.
Fairness ==
  \A l \in Loops : /\ WF_vars(Round(l))
                   /\ SF_vars(HashFound(l))
                   /\ SF_vars(BlockFetched(l))
                   /\ \A d \in 1..MaxDepth :
                        SF_vars(loop[l].depth = d /\ AncestorFound(l))

FairSpec == Spec /\ Fairness
-----------------------------------------------------------------------------
(* Properties *)

Maps(f, S) == /\ DOMAIN f \subseteq Nat
              /\ f \in [DOMAIN f -> S]

Rounds == [pc : {"dead", "timer", "hash", "block", "ancestor"}, next : States,
           height : Nat, prev : Blocks \cup {NoBlock},
           block : Blocks \cup {NoBlock}, depth : 0..MaxDepth]

TypeOK ==
  /\ best \in Blocks
  /\ Maps(headers, Blocks)
  /\ Maps(records, SUBSET AllEffects)
  /\ staged \in Blocks \cup {NoBlock}
  /\ cursor \in Pieces
  /\ db \in SUBSET AllEffects
  /\ utxo \in SUBSET AllEffects
  /\ work \in [state : Stages, cache : SUBSET AllEffects,
               record : SUBSET AllEffects]
  /\ shuttingDown \in BOOLEAN
  /\ loop \in [Loops -> Rounds]

\* The header table is a window of one chain: no height is missing between its
\* ends, each header sits at its own height and each extends the one below.
\* mem_latest_block, detect_reorg and handle_reorg rely on it whatever was
\* interrupted, rolled back or replaced before (updater.rs, reorg.rs).
Linked(H) ==
  /\ DOMAIN H = {} \/ \E lo, hi \in DOMAIN H : DOMAIN H = lo..hi
  /\ \A h \in DOMAIN H : Height[H[h]] = h
  /\ \A h \in DOMAIN H : h + 1 \in DOMAIN H => Prev[H[h + 1]] = H[h]

HeadersLinked == Linked(headers)

\* A round that runs a later stage without asking Bitcoin finds a staged block:
\* the comment in run_indexing_round (updater.rs) says the other case should
\* not happen.
StagedBlockPresent ==
  \A l \in Loops :
    loop[l].pc = "timer" /\ loop[l].next \notin {"End", "Index"} =>
      staged # NoBlock

\* What a round remembers across its awaits is still so when it resumes: the
\* height and the hash it read from the header table, the header it compares
\* with Bitcoin's; and the timer of a later stage finds the block and the stage
\* it was set for, although index_block reads the stage from the staged
\* variables and nothing compares the two.
RoundAgrees(r) ==
  /\ r.pc \in {"hash", "block", "ancestor"} => r.height = NextHeight
  /\ r.pc \in {"hash", "block"} => r.prev = Tip
  /\ r.pc = "block" => r.block \in Blocks /\ Height[r.block] = r.height
  /\ r.pc = "ancestor" => /\ r.depth \in 1..MaxDepth
                          /\ r.height - r.depth \in DOMAIN headers
                          /\ r.block = headers[r.height - r.depth]
  /\ r.pc = "timer" /\ r.next \notin {"End", "Index"} =>
       /\ staged \in Blocks
       /\ Prev[staged] = Tip
       /\ work.state = r.next

RoundsAgree == \A l \in Loops : RoundAgrees(loop[l])

\* What the tables should hold once the chain up to Tip is indexed.
Indexed == IF Tip = NoBlock THEN {} ELSE Lineage[Tip] \X Pieces

\* Between blocks the tables hold the pieces of the indexed chain and no other
\* (update_index and index_block, updater.rs; handle_reorg, reorg.rs), through
\* breakpoints, traps, restarts, failed calls and reorgs.  A piece is undone as
\* a whole here: what is inside one is the subject of Inscriptions, where
\* EntriesPresent and StatisticsRestored show what the records miss.
IndexMatchesChain == work = NoWork => db = Indexed /\ utxo = Indexed

\* Indexing finds the inputs of the staged block, whatever was lost between two
\* messages: index_utxo_entries asserts it (updater.rs), CURSOR and BLOCK are in
\* stable memory so that a block goes on where it was, and README.md says that
\* the stable index persists across upgrades.
InputsFound ==
  [][\A l \in Loops : ~(HashFound(l) /\ InputsMissing(l, staged))]_vars

\* Every block a reorg may still reach has its change record, which lists the
\* pieces of that block and of no other: handle_reorg silently skips a height
\* that has none (reorg.rs) and would leave a stale block behind.  Whether the
\* entries of a record undo all of a piece is the subject of Inscriptions.
RecordsUndo ==
  \A h \in DOMAIN headers :
    h \in DOMAIN records /\ records[h] = Effects(headers[h])

\* While a block is indexed, the cursor (stable memory) and the staged
\* variables (heap) agree on how far it got: no piece is indexed twice, none is
\* skipped.
CursorAgrees ==
  work.state = "Index" =>
    work.record = IF staged = NoBlock THEN {} ELSE {staged} \X (0 .. cursor - 1)

\* A loop that ends because of stop() ends between blocks: the comment in
\* update_index says that the current block is fully processed.
StopFinishesBlock ==
  [][\A l \in Loops :
       loop[l].pc # "dead" /\ loop'[l].pc = "dead" /\ shuttingDown => work' = NoWork]_vars

\* What the code keeps of that promise (update_index, run_indexing_round and
\* index_block, updater.rs).  A block in progress stays the staged block until
\* its header is entered, over every breakpoint, trap, failed call, stop() and
\* restart, so that each stage works on the block it was scheduled for; and an
\* execution that runs a stage (no failed call, no trap) leaves no block half
\* indexed when it ends the loop, wherever stop() came.
StageFinishesBlock ==
  [][/\ work # NoWork => \/ work' # NoWork /\ staged' = staged
                         \/ work' = NoWork /\ Tip' = staged
     /\ \A l \in Loops :
          /\ Fire(l) \/ HashFound(l) \/ BlockFetched(l) \/ AncestorFound(l)
          /\ loop[l].pc # "dead" /\ loop'[l].pc = "dead"
          => work' = NoWork]_vars

\* The indexed chain, seen from outside, behaves as BlockIndex says.
Chain == INSTANCE BlockIndex WITH tip <- Tip
IndexedChain == Chain!Spec

Running == \E l \in Loops : loop[l].pc # "dead"

\* A loop that is never stopped for good, never traps for good and never gives
\* up catches up with Bitcoin's chain.
CatchUp == <>[]Running => <>[](Tip = best)

\* After stop(), the loop ends unless it is started again.
ShutdownCompletes == shuttingDown ~> (~Running \/ ~shuttingDown)
=============================================================================
