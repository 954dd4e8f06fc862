------------------------------ MODULE BlockCall ------------------------------
(* What the indexing loop relies on when it asks for a block, however the    *)
(* block is downloaded: one call at a time, which stages the block that was  *)
(* asked for or leaves everything as it was.  Updater's HashFound,           *)
(* BlockFetched and BlockUnavailable are written against this.               *)
CONSTANTS
  Hashes,   \* block hashes, each standing for its block
  NoHash    \* no block

VARIABLES
  asked,    \* the block that an outstanding call is for, or NoHash
  staged    \* BLOCK: the staged block, or NoHash

Init == asked = NoHash /\ staged = NoHash

Ask(h) == /\ asked = NoHash
          /\ h # staged
          /\ asked' = h
          /\ staged' = staged

Answer == /\ asked # NoHash
          /\ staged' = asked
          /\ asked' = NoHash

\* The call returns an error, or traps with the round that made it.
Fail == /\ asked # NoHash
        /\ asked' = NoHash
        /\ staged' = staged

\* The loop has indexed the staged block.
Clear == /\ asked = NoHash
         /\ staged' = NoHash
         /\ asked' = asked

Next == (\E h \in Hashes : Ask(h)) \/ Answer \/ Fail \/ Clear

Spec == Init /\ [][Next]_<<asked, staged>>
=============================================================================
