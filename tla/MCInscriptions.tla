---------------------------- MODULE MCInscriptions ----------------------------
(* Blocks of which every transaction has something to do, for TLC.           *)
EXTENDS Inscriptions

\* Two branches on a1, of one and of two blocks.
MCPrev == [g |-> "none", a1 |-> "g", a2 |-> "a1", b2 |-> "a1", b3 |-> "b2"]
MCBlocks == DOMAIN MCPrev
MCHeight == [g |-> 0, a1 |-> 1, a2 |-> 2, b2 |-> 2, b3 |-> 3]
MCLineage == [g |-> {"g"}, a1 |-> {"g", "a1"}, a2 |-> {"g", "a1", "a2"},
              b2 |-> {"g", "a1", "b2"}, b3 |-> {"g", "a1", "b2", "b3"}]

Out(value) == [value |-> value, burn |-> FALSE]
Return(value) == [value |-> value, burn |-> TRUE]
Env(input, flaw, pointer, parents) ==
  [input |-> input, flaw |-> flaw, pointer |-> pointer, parents |-> parents]
Tx(id, ins, outs, envs) == [id |-> id, ins |-> ins, outs |-> outs, envs |-> envs]
Mint(id, outs) == Tx(id, << >>, outs, << >>)

\* a1: two inscriptions in one input, one on each output; the second output is
\* spent in the same block, all of it in fees, and the coinbase claims one sat
\* too few, so that its inscription is lost.
A1 == <<Mint("ca", <<Out(4)>>),
        Tx("t1", <<<<"cg", 1>>>>, <<Out(1), Out(1)>>,
           <<Env(1, "none", None, {}), Env(1, "other", 1, {})>>),
        Tx("t2", <<<<"t1", 2>>>>, <<Out(0)>>, << >>)>>

\* a2: the first inscription is inscribed again, by a child, and both are
\* burned; two more are unbound, for their flaw and for an input worth nothing.
\* The coinbase claims nothing.
A2 == <<Mint("cb", <<Out(0)>>),
        Tx("t3", <<<<"t1", 1>>, <<"ca", 1>>, <<"t2", 1>>>>, <<Return(2), Out(3)>>,
           <<Env(1, "none", None, {<<"t1", 0>>}), Env(2, "even", None, {}),
             Env(3, "none", None, {})>>)>>

\* b2: an inscription that is vindicated, alone on its sat, and a child in the
\* second input, on the sat of its parent.
B2 == <<Mint("cc", <<Out(3)>>),
        Tx("t4", <<<<"ca", 1>>, <<"t1", 1>>>>, <<Out(1), Out(4)>>,
           <<Env(1, "other", None, {}), Env(2, "none", None, {<<"t1", 0>>})>>)>>

\* b3: an input with two inscriptions, which go to the coinbase as fees, a new
\* one on the sat of the vindicated one, and one of which one parent is there.
B3 == <<Mint("cd", <<Out(2), Out(3)>>),
        Tx("t5", <<<<"t4", 1>>, <<"t4", 2>>>>, <<Out(3)>>,
           <<Env(1, "none", None, {}), Env(1, "other", 2, {<<"t1", 0>>, <<"t1", 1>>})>>)>>

MCContent == [g |-> <<Mint("cg", <<Out(3)>>)>>, a1 |-> A1, a2 |-> A2, b2 |-> B2, b3 |-> B3]
=============================================================================
