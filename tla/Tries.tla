------------------------------- MODULE Tries --------------------------------
(***************************************************************************)
(* The forwarding table as the firmware keeps it (firmware/trie/tries.c)   *)
(* and as the datapath reads it (trie8.sv, trie128.sv): a route goes into  *)
(* the variable-stride trie, and into the binary trie when that has no     *)
(* room.  ::/0 is no node but a flag (RipTable has it); the datapath falls *)
(* back to one next hop.                                                   *)
(*                                                                         *)
(* A datapath lookup is taken at one instant of the firmware's writes.     *)
(***************************************************************************)
EXTENDS BTrie, VcTrie

CONSTANTS
  None,
  DefaultHop,      \* the next hop of ::/0
  Destinations     \* the addresses looked up, as sequences of bits

ASSUME SameAssumption == /\ VC_STRIDE = STRIDE /\ VC_LEVELS = LEVELS
                         /\ VcPrefixes = Prefixes /\ VcHops = Hops
ASSUME DestinationsAssumption ==
  \A a \in Destinations : a \in Seq(Bit) /\ Len(a) = STRIDE * LEVELS
ASSUME NoneAssumption == None \notin Hops

VARIABLES
  filed,             \* the prefixes memory_rte has a record of
  warm               \* history: there was a reset

vars == <<btVars, vcVars, filed, warm>>

Ready == bt.pc = "idle" /\ vc.pc = "idle"

\* The route of p in the binary trie, and in both.
BTrieRoute(p) ==
  LET hops == {WordAt(n).next_hop : n \in {n \in NodeOf(p) : WordAt(n).valid}}
  IN  IF hops = {} THEN None ELSE CHOOSE h \in hops : TRUE
InVcTrie(p) == VCTrieLookup(p) # <<>>
Route(p) ==
  LET x == VCTrieLookup(p)
  IN  IF x # <<>> /\ ~isInvalid(EntryAt(x)) THEN EntryAt(x).next_hop ELSE BTrieRoute(p)
TrieLookup(p) == InVcTrie(p) \/ BTrieLookup(p)

TypeOK == BTrieTypeOK /\ VcTypeOK /\ filed \subseteq Prefixes /\ warm \in BOOLEAN

Init == /\ BTrieInit /\ VCTrieInit
        /\ filed = {} /\ warm = FALSE

-----------------------------------------------------------------------------
(* The calls protocol.c makes: an insertion follows a lookup that found     *)
(* nothing, a change or a deletion is of a prefix that has a record.  The  *)
(* record is written when the insertion has returned, and cleared when the *)
(* deletion has.  Lookups find inner nodes and the entry points, too: a    *)
(* prefix of one bit is never inserted.                                    *)

\* A lookup alone, for a request: nothing changes.
TrieAsk == Ready /\ UNCHANGED vars

TrieInsert(p, h) ==
  /\ Ready /\ ~TrieLookup(p)
  /\ \A l \in Levels : bram_tops[l] =< MaxTop
  /\ VCTrieInsert(p, h)
  /\ UNCHANGED <<btVars, filed, warm>>

\* VCTrieInsert returned -1.
TrieInsertExcessive ==
  /\ vc.pc = "excessive"
  /\ BTrieInsert(vc.prefix, vc.hop)
  /\ vc' = VcIdle
  /\ UNCHANGED <<vcbram, node_num, filed, warm>>

TrieModify(p, h) ==
  /\ Ready /\ p \in filed
  /\ \/ /\ InVcTrie(p)
        /\ VCEntryModify(p, h, VCTrieLookup(p))
        /\ UNCHANGED btVars
     \/ /\ ~InVcTrie(p)
        /\ BTrieInsert(p, h)
        /\ UNCHANGED vcVars
  /\ UNCHANGED <<filed, warm>>

TrieDelete(p) ==
  /\ Ready /\ p \in filed
  /\ \/ /\ InVcTrie(p)
        /\ VCEntryInvalidate(p, VCTrieLookup(p))
        /\ UNCHANGED btVars
     \/ /\ ~InVcTrie(p)
        /\ BTrieDelete(p)
        /\ UNCHANGED vcVars
  /\ UNCHANGED <<filed, warm>>

\* The records are in SRAM: a reset leaves them, as it leaves the RAMs.
TrieInit ==
  /\ ~warm /\ warm' = TRUE
  /\ BTrieInitBram /\ VCTrieReset
  /\ UNCHANGED filed

BTrieReturns ==
  filed' = IF bt.pc = "insert" /\ bt'.ret = "ok" THEN filed \cup {bt.prefix}
           ELSE IF bt.pc \in {"delete", "unlink"} /\ bt'.pc = "idle" THEN filed \ {bt.prefix}
           ELSE filed
VcReturns ==
  filed' = IF vc.pc = "hop" THEN filed \cup {vc.prefix}
           ELSE IF vc.pc = "invalidate hop" THEN filed \ {vc.prefix}
           ELSE filed

Next ==
  \/ \E p \in Prefixes :
       TrieDelete(p) \/ \E h \in Hops : TrieInsert(p, h) \/ TrieModify(p, h)
  \/ TrieAsk \/ TrieInsertExcessive \/ TrieInit
  \/ BTrieStep /\ BTrieReturns /\ UNCHANGED <<vcVars, warm>>
  \/ VcStep /\ VcReturns /\ UNCHANGED <<btVars, warm>>

Spec == Init /\ [][Next]_vars

-----------------------------------------------------------------------------
(* The indexes the firmware files its routes under (rte_map).              *)

\* NODE_SIZE_PREFIX_SUMS.
NodeSizePrefixSums ==
  LET sum[s \in 0 .. VC_LEVELS] ==
        IF s = 0 THEN 0 ELSE sum[s - 1] + BRAM_DEPTHS[s - 1] * BIN_SIZES[s - 1]
  IN  sum
VCTrieAddressToIndex(x) ==
  NodeSizePrefixSums[x[1][1]] + x[1][2] * BIN_SIZES[x[1][1]] + x[2] - 1
\* Mutant: the binary trie's indexes start at zero, too.
BTrieIndexFromZero(a) == a[1] * CAP + a[2]
BTrieAddressToIndex(a) == a[1] * CAP + a[2] + NodeSizePrefixSums[VC_LEVELS]
TrieIndex(p) == IF InVcTrie(p) THEN VCTrieAddressToIndex(VCTrieLookup(p))
                               ELSE BTrieAddressToIndex(CHOOSE n \in NodeOf(p) : TRUE)

VCTrieIndexToAddress(index) ==
  LET s == CHOOSE s \in Stages : /\ NodeSizePrefixSums[s] =< index
                                 /\ index < NodeSizePrefixSums[s + 1]
      offset == index - NodeSizePrefixSums[s]
  IN  <<<<s, offset \div BIN_SIZES[s]>>, (offset % BIN_SIZES[s]) + 1>>

\* Two routes never share an index, nor does a route share the index of a node
\* that is only passed through: a collision would make rte_map hand one
\* route's metric and timer to the other (tries.c:29-46, vc_trie.cpp:35-71,
\* binary_trie.c:43).  And the firmware gets the entry back from its index.
IndexesDistinct ==
  Ready /\ ~warm =>
    /\ \A p, q \in Prefixes :
         p # q /\ Route(p) # None /\ TrieLookup(q) => TrieIndex(p) # TrieIndex(q)
    /\ \A p \in Prefixes : InVcTrie(p) =>
         VCTrieIndexToAddress(TrieIndex(p)) = VCTrieLookup(p)

-----------------------------------------------------------------------------
(* The datapath's lookup.                                                  *)

Depths == 1 .. STRIDE * LEVELS
StateLevel(d) == ((d - 1) % STRIDE) + 1
\* BEGIN_LEVEL + state_level when the node of depth d arrives; the last node
\* of a stage arrives in DONE, where state_level is back at 0.
StageEnd(d) == StateLevel(d) = STRIDE
Reported(d) == STRIDE * LevelOf(d) + IF StageEnd(d) THEN 0 ELSE StateLevel(d)

\* [len, depth, slot, hop] of each match, as the stages compute them.
BtMatches(a) ==
  {[len |-> Reported(d), depth |-> d, slot |-> 0, hop |-> BTrieRoute(Cut(a, d))] :
     d \in {d \in Depths : BTrieRoute(Cut(a, d)) # None}}
HwValid(e, a, d) ==
  e.length # INVALID /\ \A j \in 1 .. e.length : BitOf(e.prefix, j) = BitOf(a, d + j)
VcMatches(a) ==
  UNION {UNION {{[len |-> Reported(d) + BinOf(n)[i].length, depth |-> d, slot |-> i,
                  hop |-> BinOf(n)[i].next_hop] :
                   i \in {i \in DOMAIN BinOf(n) : HwValid(BinOf(n)[i], a, d)}} :
                n \in Path(a)[d]} : d \in Depths}

\* The first node with the greatest length wins, in it the last entry.
NoMatch == [len |-> 0, depth |-> 0, slot |-> 0, hop |-> DefaultHop]
\* Mutant: the deepest node wins, however short the entry it matched.
DeepestBeats(m, o) == \/ m.depth > o.depth
                      \/ m.depth = o.depth /\ m.slot >= o.slot
Beats(m, o) == \/ m.len > o.len
               \/ m.len = o.len /\ m.depth < o.depth
               \/ m.len = o.len /\ m.depth = o.depth /\ m.slot >= o.slot
BestOf(M) ==
  LET all == M \cup {NoMatch} IN CHOOSE m \in all : \A o \in all : Beats(m, o)
next_hop(a) == LET v == BestOf(VcMatches(a))
                   b == BestOf(BtMatches(a))
               IN  IF v.len >= b.len THEN v.hop ELSE b.hop

Covering(a) == {p \in Prefixes : Route(p) # None /\ Cut(a, Len(p)) = p}
Longest(a) ==
  LET C == Covering(a)
  IN  IF C = {} THEN DefaultHop
      ELSE Route(CHOOSE p \in C : \A q \in C : Len(q) =< Len(p))
\* The node that holds p's route is the last of a stage.
HeldAtStageEnd(p) ==
  IF InVcTrie(p) THEN \E d \in 1 .. Len(p) : StageEnd(d) /\ VCTrieLookup(p)[1] \in Path(p)[d]
                 ELSE StageEnd(Len(p))
HalfWritten == vc.pc \in {"prefix", "hop"}

\* At every write of the firmware a datapath lookup yields the longest match
\* among the routes that are in, as long as none of the candidates sits in the
\* last node of a stage; with such a one it still never yields a next hop of a
\* route that does not cover the address.  Only while an entry is being
\* written may it yield the index that marks an entry as free
\* (trie8.sv:155-250, trie128.sv:190, vc_trie.cpp:262-264).
HwAnswers ==
  ~warm => \A a \in Destinations :
    LET answer == next_hop(a)
        C == Covering(a)
    IN  /\ answer \in {Route(p) : p \in C} \cup {DefaultHop}
                        \cup (IF HalfWritten THEN {INVALID} ELSE {})
        /\ ~HalfWritten /\ (\A p \in C : ~HeldAtStageEnd(p)) => answer = Longest(a)

\* README.md:86: each stage hands on its longest match, "and the right next
\* hop comes out at the end".
LongestMatch == Ready /\ ~warm => \A a \in Destinations : next_hop(a) = Longest(a)

-----------------------------------------------------------------------------
(* The map the tries implement.                                            *)

Kept == {p \in Prefixes : Len(p) =< BT_LEVELS * STRIDE}
Put(p, h) == [kind |-> "put", key |-> p, hop |-> h]
PendingCall ==
  LET open == IF vc.pc \in {"insert", "prefix", "hop", "excessive", "modify"}
                THEN Put(vc.prefix, vc.hop)
              ELSE IF bt.pc \in {"insert_find", "insert", "link"}
                THEN Put(bt.prefix, bt.hop)
              ELSE IF vc.pc = "invalidate" THEN [kind |-> "drop", key |-> vc.prefix]
              ELSE IF bt.pc \in {"delete_find", "delete"}
                THEN [kind |-> "drop", key |-> bt.prefix]
              ELSE [kind |-> "none"]
  IN  IF open.kind # "none" /\ open.key \in Kept THEN open ELSE [kind |-> "none"]

\* Nothing is claimed of a map that cannot be trusted.
Map == INSTANCE RouteMap WITH
         Keys <- Kept, map <- [p \in Kept |-> IF warm THEN None ELSE Route(p)],
         call <- PendingCall, trusted <- ~warm

\* Until a reset, the two tries together are a map: every call changes its own
\* prefix only, in one step, and only an insertion can be refused; whatever is
\* moved, freed or left half built on the way is never seen (tries.c:29-109).
TriesImplementMap == Map!Spec

\* The same of the binary trie alone, and there across resets too: routes of an
\* earlier life never come back (binary_trie.c:125-309).
BtPending == IF vc.pc = "idle" THEN PendingCall ELSE [kind |-> "none"]
BTrieMap == INSTANCE RouteMap WITH
              Keys <- Kept, map <- [p \in Kept |-> BTrieRoute(p)],
              call <- BtPending, trusted <- TRUE
BTrieImplementsMap == BTrieMap!Spec
=============================================================================
