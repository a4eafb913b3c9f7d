------------------------------- MODULE BTrie --------------------------------
(***************************************************************************)
(* The binary trie of the firmware (firmware/trie/binary_trie.c), which    *)
(* takes the routes the variable-stride trie has no room for.              *)
(*                                                                         *)
(* A node is one word of a block RAM; STRIDE levels of the tree share one  *)
(* RAM, whose slots the firmware hands out itself, the lowest free one     *)
(* first.  The datapath reads the RAMs while the firmware rewrites them,   *)
(* so every iteration of the code's loops, and every word it writes, is a  *)
(* step.  The board's reset restarts the firmware between any two of them  *)
(* and leaves the RAMs as they are.                                        *)
(*                                                                         *)
(* A prefix is the sequence of its bits.                                   *)
(***************************************************************************)
EXTENDS Integers, Sequences

CONSTANTS
  STRIDE,      \* tree levels per RAM, 8 in the code
  LEVELS,      \* RAMs the firmware counts on, 16 in the code
  BT_LEVELS,   \* RAMs the hardware has, 8 in trie128.sv
  CAP,         \* words of a RAM, 8 * N = 2048 in the code
  Prefixes,    \* the prefixes that occur
  Hops,        \* next hop indexes of routes
  MaxTop       \* bound: insertions start only while no bram_tops is above it

Bit == {0, 1}
Levels == 0 .. LEVELS - 1
Addrs == (0 .. BT_LEVELS - 1) \X (0 .. CAP - 1)

ASSUME ShapeAssumption ==
  /\ STRIDE \in Nat \ {0} /\ BT_LEVELS \in Nat \ {0} /\ LEVELS \in Nat
  /\ BT_LEVELS =< LEVELS
  /\ CAP \in Nat /\ CAP > 3
ASSUME PrefixesAssumption ==
  /\ Prefixes \subseteq Seq(Bit)
  /\ \A p \in Prefixes : Len(p) > 0 /\ Len(p) =< LEVELS * STRIDE
ASSUME HopsAssumption == Hops \subseteq Nat \ {0, 1}

VARIABLES
  bram,                 \* address -> word
  bram_tops, bram_empty_bottoms,
  bt,                   \* the call in progress
  owner                 \* history: the path a slot is the node of, <<>> if none

allocVars == <<bram_tops, bram_empty_bottoms>>
btVars == <<bram, bram_tops, bram_empty_bottoms, bt, owner>>

Word == [valid : BOOLEAN, next_hop : {0, 1} \cup Hops,
         rc : 0 .. CAP - 1, lc : 0 .. CAP - 1]
Empty == [valid |-> FALSE, next_hop |-> 0, rc |-> 0, lc |-> 0]
Fresh == [Empty EXCEPT !.next_hop = 1]

\* RAMs the hardware does not have read as zero and ignore writes.
WordAt(a) == IF a \in Addrs THEN bram[a] ELSE Empty
Write(a, w) == bram' = IF a \in Addrs THEN [bram EXCEPT ![a] = w] ELSE bram

EntryPoint(b) == 1 + b
IsEntryPoint(a) == a \in {<<0, 1>>, <<0, 2>>}
Child(w, b) == IF b = 0 THEN w.lc ELSE w.rc
WithChild(w, b, c) == IF b = 0 THEN [w EXCEPT !.lc = c] ELSE [w EXCEPT !.rc = c]
IsLeaf(w) == w.lc = 0 /\ w.rc = 0
\* The RAM of the nodes at depth d.
LevelOf(d) == (d - 1) \div STRIDE
Cut(p, k) == [i \in 1 .. k |-> p[i]]

Idle == [pc |-> "idle", prefix |-> <<>>, hop |-> 0, goal |-> 0, len |-> 0,
         at |-> <<0, 0>>, child |-> 0, ret |-> "none"]

Pcs == {"idle", "insert_find", "insert", "link", "delete_find", "delete",
        "parent_find", "unlink"}

BtCall == [pc : Pcs, prefix : Prefixes \cup {<<>>}, hop : {0} \cup Hops, goal : Nat,
           len : Nat, at : Nat \X Nat, child : Nat,
           ret : {"none", "ok", "not found", "no room", "unexpected"}]

BTrieTypeOK ==
  /\ bram \in [Addrs -> Word]
  /\ bram_tops \in [Levels -> Nat] /\ bram_empty_bottoms \in [Levels -> Nat]
  /\ bt \in BtCall
  /\ owner \in [Addrs -> Seq(Bit)]

-----------------------------------------------------------------------------
(* Power on and reset: BTrieInitBram. *)

EmptyTops == [l \in Levels |-> IF l = 0 THEN 3 ELSE 1]
OnlyEntryPoints ==
  [a \in Addrs |-> IF a = <<0, 1>> THEN <<0>> ELSE IF a = <<0, 2>> THEN <<1>> ELSE <<>>]

BTrieInit ==
  /\ bram = [a \in Addrs |-> Empty]
  /\ bram_tops = EmptyTops /\ bram_empty_bottoms = EmptyTops
  /\ bt = Idle
  /\ owner = OnlyEntryPoints

\* Mutant: the entry points keep what they held before the reset.
ClearedOnResetSlotZero(a) == a[2] = 0
ClearedOnReset(a) == a[2] = 0 \/ IsEntryPoint(a)

BTrieInitBram ==
  /\ bram' = [a \in Addrs |-> IF ClearedOnReset(a) THEN Empty ELSE bram[a]]
  /\ bram_tops' = EmptyTops /\ bram_empty_bottoms' = EmptyTops
  /\ bt' = Idle
  /\ owner' = OnlyEntryPoints

-----------------------------------------------------------------------------
(* _BTrieLookup: one bit of the prefix per step. *)

Found(k) == [insert_find |-> "insert", delete_find |-> "delete",
             parent_find |-> "unlink"][k]

NextNode == LET b == bt.prefix[bt.len + 1]
            IN  IF bt.len = 0 THEN EntryPoint(b) ELSE Child(WordAt(bt.at), b)

BTrieWalk ==
  /\ bt.pc \in {"insert_find", "delete_find", "parent_find"}
  /\ bt' = IF bt.len < bt.goal /\ NextNode # 0
           THEN [bt EXCEPT !.len = @ + 1,
                           !.at = <<LevelOf(bt.len + 1), NextNode>>]
           ELSE [bt EXCEPT !.pc = Found(@)]
  /\ UNCHANGED <<bram, allocVars, owner>>

Find(pc, p, h, goal, c) ==
  [pc |-> pc, prefix |-> p, hop |-> h, goal |-> goal, len |-> 0,
   at |-> <<0, 0>>, child |-> c, ret |-> "none"]
Return(r) == bt' = [Idle EXCEPT !.ret = r]

-----------------------------------------------------------------------------
(* BTrieInsert. *)

BTrieInsert(p, h) ==
  /\ bt.pc = "idle"
  /\ \A l \in Levels : bram_tops[l] =< MaxTop
  /\ bt' = Find("insert_find", p, h, Len(p), 0)
  /\ UNCHANGED <<bram, allocVars, owner>>

\* BTrieUpdateBramEmptyBottom: the lowest empty slot of from .. top - 1, else top.
EmptySlots(l, from, top) == {i \in from .. top - 1 : WordAt(<<l, i>>) = Empty}
\* Mutant: the slot after the one handed out, empty or not.
NextSlot(l, from, top) == from
LowestEmpty(l, from, top) ==
  IF EmptySlots(l, from, top) = {} THEN top
  ELSE CHOOSE i \in EmptySlots(l, from, top) :
         \A j \in EmptySlots(l, from, top) : i =< j

\* Take a slot for the next bit and write the node, before anything leads to it.
BTrieNew ==
  /\ bt.pc = "insert" /\ bt.len < bt.goal
  /\ LET l == LevelOf(bt.len + 1)
         new == bram_empty_bottoms[l]
         top == IF new = bram_tops[l] THEN new + 1 ELSE bram_tops[l]
     IN  /\ bram_tops' = [bram_tops EXCEPT ![l] = top]
         /\ bram_empty_bottoms' =
              [bram_empty_bottoms EXCEPT ![l] = LowestEmpty(l, new + 1, top)]
         /\ \/ /\ top >= CAP
               /\ Return("no room")
               /\ UNCHANGED bram
            \/ /\ top < CAP
               /\ Write(<<l, new>>, Fresh)
               /\ bt' = [bt EXCEPT !.pc = "link", !.child = new]
  /\ UNCHANGED owner

\* Lead the parent to the new node.
BTrieLink ==
  /\ bt.pc = "link"
  /\ LET new == <<LevelOf(bt.len + 1), bt.child>>
     IN  /\ Write(bt.at, WithChild(WordAt(bt.at), bt.prefix[bt.len + 1], bt.child))
         /\ bt' = [bt EXCEPT !.pc = "insert", !.len = @ + 1, !.at = new, !.child = 0]
         /\ owner' = IF new \in Addrs
                     THEN [owner EXCEPT ![new] = Cut(bt.prefix, bt.len + 1)] ELSE owner
  /\ UNCHANGED allocVars

\* The node is there: write the route into it.
BTrieStore ==
  /\ bt.pc = "insert" /\ bt.len >= bt.goal
  /\ Write(bt.at, [WordAt(bt.at) EXCEPT !.valid = TRUE, !.next_hop = bt.hop])
  /\ Return("ok")
  /\ UNCHANGED <<allocVars, owner>>

-----------------------------------------------------------------------------
(* BTrieDelete. *)

BTrieDelete(p) ==
  /\ bt.pc = "idle"
  /\ bt' = Find("delete_find", p, 0, Len(p), 0)
  /\ UNCHANGED <<bram, allocVars, owner>>

\* A freed slot becomes the next to be handed out if it is the lowest.
GiveBack(a) ==
  bram_empty_bottoms' =
    IF a[2] < bram_empty_bottoms[a[1]] /\ ~IsEntryPoint(a)
    THEN [bram_empty_bottoms EXCEPT ![a[1]] = a[2]] ELSE bram_empty_bottoms

BTrieNotFound ==
  /\ bt.pc = "delete" /\ bt.len # bt.goal
  /\ Return("not found")
  /\ UNCHANGED <<bram, allocVars, owner>>

\* Take the route out of its node; a node without children goes.
BTrieClear ==
  /\ bt.pc = "delete" /\ bt.len = bt.goal
  /\ Write(bt.at, [WordAt(bt.at) EXCEPT !.valid = FALSE, !.next_hop = 0])
  /\ IF IsLeaf(WordAt(bt.at)) THEN GiveBack(bt.at) ELSE UNCHANGED bram_empty_bottoms
  /\ IF IsLeaf(WordAt(bt.at)) /\ bt.goal > 1
     THEN bt' = Find("parent_find", bt.prefix, 0, bt.goal - 1, bt.at[2])
     ELSE Return("ok")
  /\ UNCHANGED <<bram_tops, owner>>

\* The parent's word after its child is gone.
Unlinked(w, b) == WithChild([w EXCEPT !.next_hop = IF w.valid THEN @ ELSE 0], b, 0)
Freed == <<LevelOf(bt.goal + 1), bt.child>>

\* Take the freed node from its parent; a parent left bare goes as well.
BTrieUnlink ==
  /\ bt.pc = "unlink"
  /\ LET b == bt.prefix[bt.goal + 1]
         parent == Unlinked(WordAt(bt.at), b)
         bare == ~IsEntryPoint(bt.at) /\ ~parent.valid /\ IsLeaf(parent)
     IN  \/ /\ bt.len = bt.goal /\ Child(WordAt(bt.at), b) = bt.child
            /\ Write(bt.at, parent)
            /\ owner' = IF Freed \in Addrs THEN [owner EXCEPT ![Freed] = <<>>] ELSE owner
            /\ IF bare THEN /\ GiveBack(bt.at)
                            /\ bt' = Find("parent_find", bt.prefix, 0,
                                          bt.goal - 1, bt.at[2])
                       ELSE /\ UNCHANGED bram_empty_bottoms
                            /\ Return("ok")
         \/ /\ bt.len # bt.goal \/ Child(WordAt(bt.at), b) # bt.child
            /\ Return("unexpected")
            /\ UNCHANGED <<bram, bram_empty_bottoms, owner>>
  /\ UNCHANGED bram_tops

-----------------------------------------------------------------------------

BTrieStep == BTrieWalk \/ BTrieNew \/ BTrieLink \/ BTrieStore
             \/ BTrieNotFound \/ BTrieClear \/ BTrieUnlink
BTrieNext == \/ \E p \in Prefixes : BTrieDelete(p) \/ \E h \in Hops : BTrieInsert(p, h)
             \/ BTrieStep
             \/ BTrieInitBram
BTrieSpec == BTrieInit /\ [][BTrieNext]_btVars

-----------------------------------------------------------------------------
(* The shape of the trie, whatever step of whatever call it is in.         *)

Owned == {a \in Addrs : owner[a] # <<>>}
Deleting == bt.pc \in {"parent_find", "unlink"}
\* u is the node of the first k bits of q and leads on to slot c.
LeadsTo(u, q, k, c) ==
  u \in Owned /\ owner[u] = Cut(q, k) /\ Child(bram[u], q[k + 1]) = c

\* A node is in the RAM of its depth, within the slots that were handed out.
OwnersPlaced == \A a \in Owned : /\ a[1] = LevelOf(Len(owner[a]))
                                 /\ a[2] > 0 /\ a[2] < bram_tops[a[1]]
OwnersDistinct == \A a, c \in Owned : owner[a] = owner[c] => a = c
EntriesOwned == owner[<<0, 1>>] = <<0>> /\ owner[<<0, 2>>] = <<1>>

\* A child index leads to the node of the longer path, and every node is led to.
LinksTrue ==
  \A a \in Owned, b \in Bit :
    LET next == <<LevelOf(Len(owner[a]) + 1), Child(bram[a], b)>>
    IN  next[2] # 0 /\ next \in Addrs => owner[next] = Append(owner[a], b)
PathsLead ==
  \A a \in Owned : \A k \in 1 .. Len(owner[a]) - 1 :
    \E u \in Owned, c \in 1 .. CAP - 1 : LeadsTo(u, owner[a], k, c)

\* The next slot handed out is nobody's, and no node in use looks empty.
BottomsFree ==
  \A l \in Levels :
    /\ bram_empty_bottoms[l] =< bram_tops[l]
    /\ bram_empty_bottoms[l] >= EmptyTops[l]
    /\ <<l, bram_empty_bottoms[l]>> \in Owned =>
         Deleting /\ <<l, bram_empty_bottoms[l]>> = Freed
NodesMarked ==
  \A a \in Owned : bram[a] = Empty => IsEntryPoint(a) \/ (Deleting /\ a = Freed)

\* Where the call in progress stands.
WalkTrue ==
  bt.pc # "idle" =>
    /\ bt.goal \in 1 .. Len(bt.prefix) /\ bt.len \in 0 .. bt.goal
    /\ bt.len = 0 => bt.pc \in {"insert_find", "delete_find", "parent_find"}
    /\ bt.len > 0 => /\ bt.at[1] = LevelOf(bt.len) /\ bt.at[2] \in 1 .. CAP - 1
                     /\ bt.at \in Addrs => owner[bt.at] = Cut(bt.prefix, bt.len)
InsertTrue ==
  /\ bt.pc \in {"insert", "link"} /\ bt.len < bt.goal =>
       Child(WordAt(bt.at), bt.prefix[bt.len + 1]) = 0
  /\ bt.pc = "link" =>
       LET new == <<LevelOf(bt.len + 1), bt.child>>
       IN  /\ bt.len < bt.goal
           /\ new[2] \in 1 .. CAP - 1 /\ new[2] < bram_tops[new[1]]
           /\ new[2] # bram_empty_bottoms[new[1]]
           /\ new \in Addrs => new \notin Owned /\ bram[new] = Fresh
DeleteTrue ==
  /\ bt.pc \notin {"idle", "insert", "link"} /\ bt.len > 1 =>
       \E u \in Addrs : LeadsTo(u, bt.prefix, bt.len - 1, bt.at[2])
  /\ Deleting =>
       /\ bt.goal < Len(bt.prefix) /\ bt.child \in 1 .. CAP - 1
       /\ \E u \in Addrs : LeadsTo(u, bt.prefix, bt.goal, bt.child)
       /\ Freed \in Addrs => owner[Freed] = Cut(bt.prefix, bt.goal + 1)
                             /\ bram[Freed] = Empty
  /\ bt.pc = "unlink" => bt.len = bt.goal

\* Whatever was inserted, refused, deleted or cut short by a reset, every node
\* has one path and every path one node, found from the entry points; the slot
\* handed out next belongs to no node; and a deletion never meets the
\* "unexpected error" the code returns -3 for (binary_trie.c:50-61, 145-165,
\* 218-292).
BTShape == /\ OwnersPlaced /\ OwnersDistinct /\ EntriesOwned
           /\ LinksTrue /\ PathsLead /\ BottomsFree /\ NodesMarked
           /\ WalkTrue /\ InsertTrue /\ DeleteTrue
           /\ bt.ret # "unexpected"

-----------------------------------------------------------------------------
(* What the RAMs say, read from the entry points as both the firmware and  *)
(* the datapath read them.                                                 *)

\* The node of p, as a set: none if the path ends before.
NodeOf(p) ==
  LET node[d \in 1 .. Len(p)] ==
        IF d = 1 THEN {<<0, EntryPoint(p[1])>>}
        ELSE {<<LevelOf(d), Child(WordAt(up), p[d])>> :
                up \in {n \in node[d - 1] : Child(WordAt(n), p[d]) # 0}}
  IN  node[Len(p)]
BTrieLookup(p) == NodeOf(p) # {}
=============================================================================
