------------------------------ MODULE MCTries -------------------------------
(* A small instance of Tries for TLC. *)
EXTENDS Tries

\* One entry per node.  RAM 0 has one node to spare, RAM 1 none: a route soon
\* has to go deeper, and soon into the binary trie.
Bins == [s \in 0 .. 1 |-> 1]
NodeCounts == [s \in 0 .. 1 |-> <<4, 1>>[s + 1]]

\* Two prefixes that compete for the entry of the first node, and one that
\* branches off and reaches into the next RAM.  RAM 0 of the binary trie has
\* three slots to hand out, one too few for all three.
Nested == {<<0, 1>>, <<0, 1, 1>>, <<0, 0, 1, 1>>}
TwoHops == {6, 7}
Targets == {<<0, 1, 1, 0, 1, 0>>, <<0, 0, 1, 1, 1, 0>>}
=============================================================================
