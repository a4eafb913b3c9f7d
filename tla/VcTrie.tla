------------------------------- MODULE VcTrie -------------------------------
(***************************************************************************)
(* The variable-stride trie of the firmware (firmware/trie/vc_trie.cpp).   *)
(*                                                                         *)
(* A node holds a bin of entries for the prefixes that end in it or up to  *)
(* MAX_PREFIX_LEN bits below it.  A route goes into the first node on its  *)
(* path with a free entry; nodes are created on the way and never given    *)
(* back.  The three fields of an entry are three words, written one after  *)
(* the other in a RAM the datapath is reading.                             *)
(***************************************************************************)
EXTENDS Integers, Sequences

CONSTANTS
  VC_STRIDE,       \* levels of the trie per RAM, 8 in the code
  VC_LEVELS,       \* RAMs, 16 in the code
  BIN_SIZES,       \* RAM -> entries per node
  BRAM_DEPTHS,     \* RAM -> nodes
  MAX_PREFIX_LEN,  \* 28 in the code
  VcPrefixes,      \* the prefixes that occur
  VcHops           \* next hop indexes of routes

INVALID == 31
Stages == 0 .. VC_LEVELS - 1
Nodes == UNION {{s} \X (0 .. BRAM_DEPTHS[s] - 1) : s \in Stages}
Slots(s) == 1 .. BIN_SIZES[s]

ASSUME VcShapeAssumption ==
  /\ VC_STRIDE \in Nat \ {0} /\ VC_LEVELS \in Nat \ {0}
  /\ BIN_SIZES \in [Stages -> Nat] /\ BRAM_DEPTHS \in [Stages -> Nat \ {0}]
  /\ BRAM_DEPTHS[0] > 3
  /\ MAX_PREFIX_LEN \in 0 .. INVALID - 3
ASSUME VcPrefixesAssumption ==
  /\ VcPrefixes \subseteq Seq({0, 1})
  /\ \A p \in VcPrefixes : Len(p) \in 1 .. VC_LEVELS * VC_STRIDE - 1
\* An index is below 31: from 31 on it marks an entry as free.
ASSUME VcHopsAssumption == VcHops \subseteq 0 .. INVALID - 1

VARIABLES
  vcbram,      \* node -> its children and its bin
  node_num,    \* RAM -> index of the last node created
  vc           \* the call in progress

vcVars == <<vcbram, node_num, vc>>

Entry == [length : 0 .. MAX_PREFIX_LEN \cup {INVALID}, prefix : Seq({0, 1}),
          next_hop : VcHops \cup {INVALID}]
NoEntry == [length |-> INVALID, prefix |-> <<>>, next_hop |-> INVALID]
isInvalid(e) == e.length >= 31 \/ e.next_hop >= 31

\* The bits of a prefix below depth d; past the end a prefix is all zero.
BitOf(p, i) == IF i =< Len(p) THEN p[i] ELSE 0
Below(p, d) == SubSeq(p, d + 1, Len(p))

\* The root is outside the RAMs: its children are nodes 1 and 2 of RAM 0, and
\* its only entry reads as occupied by a prefix of length 0, which is never asked for.
Root == <<0, 0>>
StageOf(d) == (d - 1) \div VC_STRIDE
\* A node handed out again after a reset still leads where it led before, for
\* once past the end of a RAM; nothing is stored there.
NodeAt(n) == IF n \in Nodes THEN vcbram[n] ELSE [lc |-> 0, rc |-> 0, bin |-> <<>>]
BinOf(n) == IF n = Root THEN <<>> ELSE NodeAt(n).bin
GetChild(n, b) == IF n = Root THEN 1 + b
                  ELSE IF b = 0 THEN NodeAt(n).lc ELSE NodeAt(n).rc

VcIdle == [pc |-> "idle", prefix |-> <<>>, hop |-> INVALID, depth |-> 0,
           at |-> Root, slot |-> 0]

VcTypeOK ==
  /\ DOMAIN vcbram = Nodes
  /\ \A n \in Nodes : vcbram[n] \in
       [lc : Nat, rc : Nat, bin : [Slots(n[1]) -> Entry]]
  /\ node_num \in [Stages -> Nat]
  /\ \A s \in Stages : node_num[s] < BRAM_DEPTHS[s]
  /\ vc.pc \in {"idle", "insert", "prefix", "hop", "excessive", "modify",
               "invalidate", "invalidate hop"}
  /\ vc.at \in Stages \X Nat /\ vc.depth \in Nat /\ vc.slot \in Nat

-----------------------------------------------------------------------------

\* The RAMs are loaded with free entries; reset does not touch them.
VCTrieInit ==
  /\ vcbram = [n \in Nodes |-> [lc |-> 0, rc |-> 0,
                                bin |-> [i \in Slots(n[1]) |-> NoEntry]]]
  /\ node_num = [s \in Stages |-> IF s = 0 THEN 2 ELSE 0]
  /\ vc = VcIdle
VCTrieReset ==
  /\ node_num' = [s \in Stages |-> IF s = 0 THEN 2 ELSE 0]
  /\ vc' = VcIdle
  /\ UNCHANGED vcbram

\* The node on the path of a prefix at each depth, none below the last one.
Path(p) ==
  LET node[d \in 0 .. Len(p)] ==
        IF d = 0 THEN {Root}
        ELSE {<<StageOf(d), GetChild(up, p[d])>> :
                up \in {n \in node[d - 1] : GetChild(n, p[d]) # 0}}
  IN  node

\* lookup_entry: the first entry, by depth and by slot, that is p's.
Matches(p) ==
  LET deep == {d \in 0 .. Len(p) : Len(p) =< d + MAX_PREFIX_LEN}
      isMatch(e, d) == e.prefix = Below(p, d) /\ e.length = Len(p) - d
  IN  UNION {UNION {{<<d, n, i>> : i \in {i \in DOMAIN BinOf(n) : isMatch(BinOf(n)[i], d)}} :
                      n \in Path(p)[d]} : d \in deep}
VCTrieLookup(p) ==
  LET found == Matches(p)
      m == CHOOSE m \in found :
             \A o \in found : m[1] < o[1] \/ (m[1] = o[1] /\ m[3] =< o[3])
  IN  IF found = {} THEN <<>> ELSE <<m[2], m[3]>>
EntryAt(x) == vcbram[x[1]].bin[x[2]]

SetEntry(e) == vcbram' = [vcbram EXCEPT ![vc.at].bin[vc.slot] = e]

-----------------------------------------------------------------------------
(* insert. *)

VCTrieInsert(p, h) ==
  /\ vc.pc = "idle"
  /\ vc' = [VcIdle EXCEPT !.pc = "insert", !.prefix = p, !.hop = h]
  /\ UNCHANGED <<vcbram, node_num>>

\* Mutant: the first entry of the bin, in use or not.
FirstSlot == {i \in DOMAIN BinOf(vc.at) : i = 1}
FreeSlots == {i \in DOMAIN BinOf(vc.at) : isInvalid(BinOf(vc.at)[i])}
TooHigh == Len(vc.prefix) > vc.depth + MAX_PREFIX_LEN
MustDescend == TooHigh \/ (FreeSlots = {} /\ vc.depth =< Len(vc.prefix))

NextBit == BitOf(vc.prefix, vc.depth + 1)
NextStage == StageOf(vc.depth + 1)
\* Mutant: the node after the last one is still handed out.
NoRoomLate == node_num[NextStage] >= BRAM_DEPTHS[NextStage]
NoRoom == node_num[NextStage] + 1 >= BRAM_DEPTHS[NextStage]

\* _NEXT_LEVEL with _create_subtree: down one bit, creating the node if needed.
VcDescend ==
  /\ vc.pc = "insert" /\ MustDescend
  /\ LET c == GetChild(vc.at, NextBit)
         new == node_num[NextStage] + 1
     IN  \/ /\ c # 0
            /\ vc' = [vc EXCEPT !.at = <<NextStage, c>>, !.depth = @ + 1]
            /\ UNCHANGED <<vcbram, node_num>>
         \/ /\ c = 0 /\ ~NoRoom
            /\ node_num' = [node_num EXCEPT ![NextStage] = new]
            /\ vcbram' = IF vc.at \notin Nodes THEN vcbram
                         ELSE IF NextBit = 0 THEN [vcbram EXCEPT ![vc.at].lc = new]
                         ELSE [vcbram EXCEPT ![vc.at].rc = new]
            /\ vc' = [vc EXCEPT !.at = <<NextStage, new>>, !.depth = @ + 1]

\* No entry on the path, or no node for it: the caller goes to the binary trie.
VcExcessive ==
  /\ vc.pc = "insert"
  /\ \/ MustDescend /\ GetChild(vc.at, NextBit) = 0 /\ NoRoom
     \/ ~MustDescend /\ vc.depth > Len(vc.prefix)
  /\ vc' = [vc EXCEPT !.pc = "excessive"]
  /\ UNCHANGED <<vcbram, node_num>>

\* The entry: its length, its prefix, its next hop.
VcPlaceLength ==
  /\ vc.pc = "insert" /\ ~MustDescend /\ vc.depth =< Len(vc.prefix)
  /\ LET i == CHOOSE i \in FreeSlots : \A j \in FreeSlots : i =< j
     IN  /\ vcbram' = [vcbram EXCEPT ![vc.at].bin[i].length = Len(vc.prefix) - vc.depth]
         /\ vc' = [vc EXCEPT !.pc = "prefix", !.slot = i]
  /\ UNCHANGED node_num
VcPlacePrefix ==
  /\ vc.pc = "prefix"
  /\ SetEntry([BinOf(vc.at)[vc.slot] EXCEPT !.prefix = Below(vc.prefix, vc.depth)])
  /\ vc' = [vc EXCEPT !.pc = "hop"]
  /\ UNCHANGED node_num
VcPlaceHop ==
  /\ vc.pc = "hop"
  /\ SetEntry([BinOf(vc.at)[vc.slot] EXCEPT !.next_hop = vc.hop])
  /\ vc' = VcIdle
  /\ UNCHANGED node_num

-----------------------------------------------------------------------------
(* Entries found by lookup: modified in one word, invalidated in two. *)

VCEntryModify(p, h, x) ==
  /\ vc.pc = "idle"
  /\ vc' = [VcIdle EXCEPT !.pc = "modify", !.prefix = p, !.hop = h,
                         !.at = x[1], !.slot = x[2]]
  /\ UNCHANGED <<vcbram, node_num>>
VcModifyHop ==
  /\ vc.pc = "modify"
  /\ SetEntry([BinOf(vc.at)[vc.slot] EXCEPT !.next_hop = vc.hop])
  /\ vc' = VcIdle
  /\ UNCHANGED node_num

VCEntryInvalidate(p, x) ==
  /\ vc.pc = "idle"
  /\ vc' = [VcIdle EXCEPT !.pc = "invalidate", !.prefix = p,
                         !.at = x[1], !.slot = x[2]]
  /\ UNCHANGED <<vcbram, node_num>>
VcInvalidateLength ==
  /\ vc.pc = "invalidate"
  /\ SetEntry([BinOf(vc.at)[vc.slot] EXCEPT !.length = INVALID])
  /\ vc' = [vc EXCEPT !.pc = "invalidate hop"]
  /\ UNCHANGED node_num
VcInvalidateHop ==
  /\ vc.pc = "invalidate hop"
  /\ SetEntry([BinOf(vc.at)[vc.slot] EXCEPT !.next_hop = INVALID])
  /\ vc' = VcIdle
  /\ UNCHANGED node_num

VcStep == VcDescend \/ VcExcessive \/ VcPlaceLength \/ VcPlacePrefix \/ VcPlaceHop
          \/ VcModifyHop \/ VcInvalidateLength \/ VcInvalidateHop
=============================================================================
