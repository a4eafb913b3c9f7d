----------------------------- MODULE MCRipTable -----------------------------
(* Small instances of RipTable for TLC. *)
EXTENDS RipTable

\* One direct route per port and one route to learn.
Direct == [p \in {0, 1} |-> IF p = 0 THEN "d0" ELSE "d1"]
Flat == {"default", "d0", "d1", "x"}
Uncovered == [p \in Flat |-> {}]
Rtes == {<<"x", 1>>, <<"x", 2>>, <<"x", 16>>, <<"d0", 1>>}

\* A short prefix p, a longer q below it, in the binary trie.
Nested == {"default", "d0", "p", "q"}
OneDirect == [p \in {0} |-> "d0"]
Covers == [n \in Nested |-> CASE n = "default" -> {}
                            [] n = "q" -> {"default", "p"}
                            [] OTHER -> {"default"}]
NestedRtes == {<<"p", 1>>, <<"p", 16>>, <<"q", 1>>}
OneSpeaker == {<<"a", 0>>}

TwoSpeakers == {<<"a", 0>>, <<"b", 1>>}
=============================================================================
