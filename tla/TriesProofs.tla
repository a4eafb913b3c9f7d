---------------------------- MODULE TriesProofs -----------------------------
(* Theorems about the tries, for every stride, depth, prefix set and        *)
(* capacity.  Of the binary trie: its allocator, its links and its walks    *)
(* keep it in shape.  Of both together: the calls the variable-stride trie  *)
(* passes on are calls of the binary trie, everything keeps its type, and   *)
(* what the binary trie shows, and what the two show together until a       *)
(* reset, is a map that one call changes in one step.                       *)
EXTENDS Tries, WellFoundedInduction, TLAPS

Inv == BTrieTypeOK /\ BTShape

-----------------------------------------------------------------------------
(* Paths. *)

LEMMA CutType ==
  ASSUME NEW p \in Seq(Bit), NEW k \in 0 .. Len(p)
  PROVE  /\ Cut(p, k) \in Seq(Bit) /\ Len(Cut(p, k)) = k
         /\ \A i \in 1 .. k : Cut(p, k)[i] = p[i]
BY DEF Cut, Bit

LEMMA CutFull == ASSUME NEW p \in Seq(Bit) PROVE Cut(p, Len(p)) = p
BY DEF Cut

LEMMA CutCut ==
  ASSUME NEW p \in Seq(Bit), NEW m \in 0 .. Len(p), NEW k \in 0 .. m
  PROVE  Cut(Cut(p, m), k) = Cut(p, k)
BY DEF Cut

LEMMA CutNext ==
  ASSUME NEW p \in Seq(Bit), NEW k \in 0 .. Len(p) - 1
  PROVE  Append(Cut(p, k), p[k + 1]) = Cut(p, k + 1)
<1>1. Cut(p, k) \in Seq(Bit) /\ Len(Cut(p, k)) = k /\ p[k + 1] \in Bit
  BY CutType
<1>2. Cut(p, k + 1) \in Seq(Bit) /\ Len(Cut(p, k + 1)) = k + 1
  BY CutType
<1>3. \A i \in 1 .. k + 1 : Append(Cut(p, k), p[k + 1])[i] = Cut(p, k + 1)[i]
  BY <1>1, <1>2 DEF Cut
<1> QED BY <1>1, <1>2, <1>3

LEMMA OneBit ==
  \A b \in Bit : <<b>> \in Seq(Bit) /\ Len(<<b>>) = 1 /\ <<b>> # <<>> /\ <<b>>[1] = b
OBVIOUS

LEMMA CutAppend ==
  ASSUME NEW q \in Seq(Bit), NEW b \in Bit
  PROVE  /\ Append(q, b) \in Seq(Bit) /\ Len(Append(q, b)) = Len(q) + 1
         /\ Append(q, b)[Len(q) + 1] = b /\ Append(q, b) # <<>>
         /\ \A k \in 0 .. Len(q) : Cut(Append(q, b), k) = Cut(q, k)
BY DEF Cut

-----------------------------------------------------------------------------
(* The least of some numbers. *)

LEMMA LeastNat ==
  ASSUME NEW S, S \subseteq Nat, S # {} PROVE \E x \in S : \A y \in S : x =< y
<1> DEFINE R == OpToRel(<, Nat)
<1>1. IsWellFoundedOn(R, Nat)
  BY NatLessThanWellFounded
<1>2. \A x, y \in Nat : y < x => <<y, x>> \in R
  BY DEF OpToRel
<1> HIDE DEF R
<1>3. PICK x \in S : \A y \in S : ~(<<y, x>> \in R)
  BY <1>1, WFMin
<1>4. ASSUME NEW y \in S PROVE x =< y
  <2>1. ~(y < x) /\ x \in Nat /\ y \in Nat
    BY <1>2, <1>3
  <2> QED BY <2>1
<1> QED BY <1>4

-----------------------------------------------------------------------------
(* Depths and RAMs. *)

LEMMA LevelNat == ASSUME NEW d \in Nat \ {0} PROVE LevelOf(d) \in Nat
BY ShapeAssumption DEF LevelOf

LEMMA LevelFirst == LevelOf(1) = 0
BY ShapeAssumption DEF LevelOf

LEMMA LevelNext ==
  ASSUME NEW d \in Nat \ {0}, NEW e \in Nat \ {0}, d =< e PROVE LevelOf(d) =< LevelOf(e)
BY ShapeAssumption DEF LevelOf

LEMMA LevelBound ==
  ASSUME NEW d \in Nat \ {0}, d =< LEVELS * STRIDE PROVE LevelOf(d) \in Levels
BY ShapeAssumption DEF LevelOf, Levels

LEMMA DepthOfPrefix ==
  ASSUME NEW p \in Prefixes
  PROVE  /\ p \in Seq(Bit) /\ Len(p) \in Nat \ {0}
         /\ \A d \in 1 .. Len(p) : LevelOf(d) \in Levels
<1>1. p \in Seq(Bit) /\ Len(p) \in Nat \ {0} /\ Len(p) =< LEVELS * STRIDE
  BY PrefixesAssumption
<1>2. LEVELS * STRIDE \in Nat
  BY ShapeAssumption
<1> QED BY <1>1, <1>2, LevelBound
-----------------------------------------------------------------------------
(* Words. *)

LEMMA EmptyWord ==
  /\ Empty \in Word /\ Fresh \in Word /\ Fresh # Empty
  /\ \A b \in Bit : Child(Empty, b) = 0 /\ Child(Fresh, b) = 0
<1>0. 0 \in 0 .. CAP - 1
  BY ShapeAssumption
<1>1. Empty \in Word /\ Fresh \in Word
  BY <1>0 DEF Empty, Fresh, Word
<1>2. Fresh.next_hop = 1 /\ Empty.next_hop = 0
  BY DEF Empty, Fresh
<1>3. Empty.lc = 0 /\ Empty.rc = 0 /\ Fresh.lc = 0 /\ Fresh.rc = 0
  BY DEF Empty, Fresh
<1> QED BY <1>1, <1>2, <1>3 DEF Child

LEMMA WordAtType == BTrieTypeOK => \A a : WordAt(a) \in Word
BY EmptyWord DEF BTrieTypeOK, WordAt

LEMMA ChildType ==
  ASSUME NEW w \in Word, NEW b \in Bit PROVE Child(w, b) \in 0 .. CAP - 1
BY DEF Child, Word

LEMMA WithChildType ==
  ASSUME NEW w \in Word, NEW b \in Bit, NEW c \in 0 .. CAP - 1
  PROVE  /\ WithChild(w, b, c) \in Word /\ Child(WithChild(w, b, c), b) = c
         /\ \A d \in Bit \ {b} : Child(WithChild(w, b, c), d) = Child(w, d)
         /\ WithChild(w, b, c).valid = w.valid
         /\ WithChild(w, b, c).next_hop = w.next_hop
BY DEF WithChild, Child, Word, Bit

LEMMA LeafChildren ==
  ASSUME NEW w \in Word PROVE IsLeaf(w) <=> \A b \in Bit : Child(w, b) = 0
BY DEF IsLeaf, Child, Bit

LEMMA EntryAddrs == <<0, 1>> \in Addrs /\ <<0, 2>> \in Addrs
BY ShapeAssumption DEF Addrs

-----------------------------------------------------------------------------
(* Power on and reset. *)

Restarted ==
  /\ bram \in [Addrs -> Word] /\ bram[<<0, 1>>] = Empty /\ bram[<<0, 2>>] = Empty
  /\ bram_tops = EmptyTops /\ bram_empty_bottoms = EmptyTops
  /\ bt = Idle /\ owner = OnlyEntryPoints

LEMMA RestartedInv == Restarted => Inv
<1> SUFFICES ASSUME Restarted PROVE Inv
  OBVIOUS
<1>1. /\ \A a \in Addrs : a \notin {<<0, 1>>, <<0, 2>>} => owner[a] = <<>>
      /\ EntriesOwned /\ owner \in [Addrs -> Seq(Bit)]
  BY EntryAddrs DEF Restarted, OnlyEntryPoints, EntriesOwned, Bit
<1>2. Owned = {<<0, 1>>, <<0, 2>>}
  BY <1>1, EntryAddrs, OneBit DEF Owned, EntriesOwned, Bit
<1>3. bt \in BtCall /\ bt.pc = "idle" /\ bt.ret = "none" /\ bt.len = 0
  BY DEF Restarted, Idle, BtCall, Pcs
<1>4. BTrieTypeOK
  BY <1>1, <1>3 DEF BTrieTypeOK, Restarted, EmptyTops
<1>5. OwnersPlaced
  <2>1. 0 \in Levels
    BY ShapeAssumption DEF Levels
  <2>2. bram_tops[0] = 3
    BY <2>1 DEF Restarted, EmptyTops
  <2>3. Len(<<0>>) = 1 /\ Len(<<1>>) = 1
    OBVIOUS
  <2>4. ASSUME NEW a \in Owned
        PROVE  Len(owner[a]) = 1 /\ a[1] = 0 /\ (a[2] = 1 \/ a[2] = 2)
    <3>1. CASE a = <<0, 1>>
      BY <1>1, <2>3, <3>1 DEF EntriesOwned
    <3>2. CASE a = <<0, 2>>
      BY <1>1, <2>3, <3>2 DEF EntriesOwned
    <3> QED BY <1>2, <3>1, <3>2
  <2>5. \A a \in Owned : a[1] = LevelOf(Len(owner[a]))
    BY <2>4, LevelFirst
  <2>6. \A a \in Owned : a[2] > 0 /\ a[2] < bram_tops[a[1]]
    BY <2>2, <2>4
  <2> QED BY <2>5, <2>6 DEF OwnersPlaced
<1>6. OwnersDistinct /\ PathsLead
  BY <1>1, <1>2 DEF OwnersDistinct, PathsLead, EntriesOwned
<1>7. LinksTrue
  BY <1>2, EmptyWord DEF LinksTrue, Restarted
<1>8. BottomsFree /\ NodesMarked
  <2>1. \A l \in Levels : <<l, bram_empty_bottoms[l]>> \notin Owned
    BY <1>2 DEF Restarted, EmptyTops
  <2> QED BY <2>1, <1>2 DEF BottomsFree, NodesMarked, Restarted, EmptyTops, IsEntryPoint
<1>9. WalkTrue /\ InsertTrue /\ DeleteTrue
  BY <1>3 DEF WalkTrue, InsertTrue, DeleteTrue, Deleting
<1> QED BY <1>1, <1>3, <1>4, <1>5, <1>6, <1>7, <1>8, <1>9 DEF Inv, BTShape

LEMMA InitInv == BTrieInit => Inv
<1>1. BTrieInit => Restarted
  BY EntryAddrs, EmptyWord DEF BTrieInit, Restarted
<1> QED BY <1>1, RestartedInv

LEMMA ResetInv == Inv /\ BTrieInitBram => Inv'
<1>1. Inv /\ BTrieInitBram => Restarted'
  BY EntryAddrs, EmptyWord
     DEF BTrieInitBram, Restarted, Inv, BTrieTypeOK, ClearedOnReset, IsEntryPoint
<1>2. Restarted' => Inv'
  BY RestartedInv, PTL
<1> QED BY <1>1, <1>2

-----------------------------------------------------------------------------
(* Where the call in progress stands. *)

LEMMA CallFacts ==
  ASSUME Inv, bt.pc # "idle"
  PROVE  /\ bt.prefix \in Seq(Bit) /\ bt.prefix \in Prefixes
         /\ Len(bt.prefix) \in Nat \ {0}
         /\ bt.goal \in 1 .. Len(bt.prefix) /\ bt.len \in 0 .. bt.goal
         /\ \A i \in 1 .. Len(bt.prefix) : bt.prefix[i] \in Bit /\ LevelOf(i) \in Levels
<1>1. bt.goal \in 1 .. Len(bt.prefix) /\ bt.len \in 0 .. bt.goal
  BY DEF Inv, BTShape, WalkTrue
<1>2. bt.prefix \in Prefixes \cup {<<>>}
  BY DEF Inv, BTrieTypeOK, BtCall
<1>3. bt.prefix # <<>>
  BY <1>1
<1>4. bt.prefix \in Prefixes
  BY <1>2, <1>3
<1>5. bt.prefix \in Seq(Bit) /\ Len(bt.prefix) \in Nat \ {0}
  BY <1>4, DepthOfPrefix
<1>6. \A i \in 1 .. Len(bt.prefix) : bt.prefix[i] \in Bit
  BY <1>5
<1> QED BY <1>1, <1>4, <1>5, <1>6, DepthOfPrefix

LEMMA AtFacts ==
  ASSUME Inv, bt.pc # "idle", bt.len > 0
  PROVE  /\ bt.at = <<LevelOf(bt.len), bt.at[2]>> /\ bt.at[2] \in 1 .. CAP - 1
         /\ bt.at \in Addrs => bt.at \in Owned /\ owner[bt.at] = Cut(bt.prefix, bt.len)
         /\ bt.at \notin Addrs => WordAt(bt.at) = Empty
<1>1. /\ bt.at[1] = LevelOf(bt.len) /\ bt.at[2] \in 1 .. CAP - 1
      /\ bt.at \in Addrs => owner[bt.at] = Cut(bt.prefix, bt.len)
  BY DEF Inv, BTShape, WalkTrue
<1>2. bt.at \in Nat \X Nat
  BY DEF Inv, BTrieTypeOK, BtCall
<1>3. Cut(bt.prefix, bt.len) # <<>>
  BY CallFacts, CutType
<1> QED BY <1>1, <1>2, <1>3 DEF Owned, WordAt

\* No step that only moves the call along can disturb the rest.
LEMMA CallMoves ==
  ASSUME Inv, UNCHANGED <<bram, allocVars, owner>>, bt' \in BtCall,
         bt'.ret # "unexpected", Deleting => Deleting' /\ Freed' = Freed,
         WalkTrue', InsertTrue', DeleteTrue'
  PROVE  Inv'
<1>1. Owned' = Owned /\ bram' = bram /\ owner' = owner
      /\ bram_tops' = bram_tops /\ bram_empty_bottoms' = bram_empty_bottoms
  BY DEF Owned, allocVars
<1>2. BTrieTypeOK'
  BY <1>1 DEF Inv, BTrieTypeOK
<1>3. OwnersPlaced' /\ OwnersDistinct' /\ EntriesOwned' /\ LinksTrue'
  BY <1>1 DEF Inv, BTShape, OwnersPlaced, OwnersDistinct, EntriesOwned, LinksTrue
<1>4. PathsLead'
  BY <1>1 DEF Inv, BTShape, PathsLead, LeadsTo
<1>5. BottomsFree' /\ NodesMarked'
  BY <1>1 DEF Inv, BTShape, BottomsFree, NodesMarked
<1> QED BY <1>2, <1>3, <1>4, <1>5 DEF Inv, BTShape

LEMMA InsertInv ==
  ASSUME Inv, NEW p \in Prefixes, NEW h \in Hops, BTrieInsert(p, h) PROVE Inv'
<1>1. bt' = Find("insert_find", p, h, Len(p), 0) /\ bt.pc = "idle"
      /\ UNCHANGED <<bram, allocVars, owner>>
  BY DEF BTrieInsert
<1>2. Len(p) \in Nat \ {0}
  BY DepthOfPrefix
<1>3. bt' \in BtCall /\ bt'.ret = "none" /\ bt'.pc = "insert_find" /\ bt'.prefix = p
      /\ bt'.goal = Len(p) /\ bt'.len = 0
  BY <1>1, <1>2 DEF Find, BtCall, Pcs
<1>4. WalkTrue' /\ InsertTrue' /\ DeleteTrue' /\ ~Deleting
  BY <1>1, <1>2, <1>3 DEF WalkTrue, InsertTrue, DeleteTrue, Deleting
<1> QED BY <1>1, <1>3, <1>4, CallMoves

LEMMA DeleteInv ==
  ASSUME Inv, NEW p \in Prefixes, BTrieDelete(p) PROVE Inv'
<1>1. bt' = Find("delete_find", p, 0, Len(p), 0) /\ bt.pc = "idle"
      /\ UNCHANGED <<bram, allocVars, owner>>
  BY DEF BTrieDelete
<1>2. Len(p) \in Nat \ {0}
  BY DepthOfPrefix
<1>3. bt' \in BtCall /\ bt'.ret = "none" /\ bt'.pc = "delete_find" /\ bt'.prefix = p
      /\ bt'.goal = Len(p) /\ bt'.len = 0
  BY <1>1, <1>2 DEF Find, BtCall, Pcs
<1>4. WalkTrue' /\ InsertTrue' /\ DeleteTrue' /\ ~Deleting
  BY <1>1, <1>2, <1>3 DEF WalkTrue, InsertTrue, DeleteTrue, Deleting
<1> QED BY <1>1, <1>3, <1>4, CallMoves

LEMMA ReturnFacts ==
  ASSUME NEW r \in {"ok", "not found", "no room"}, Return(r)
  PROVE  /\ bt' \in BtCall /\ bt'.ret # "unexpected" /\ ~Deleting'
         /\ WalkTrue' /\ InsertTrue' /\ DeleteTrue'
<1>1. bt' = [Idle EXCEPT !.ret = r]
  BY DEF Return
<1>2. bt' \in BtCall /\ bt'.pc = "idle" /\ bt'.ret = r /\ bt'.len = 0
  BY <1>1 DEF Idle, BtCall, Pcs
<1> QED BY <1>2 DEF WalkTrue, InsertTrue, DeleteTrue, Deleting

LEMMA NotFoundInv == ASSUME Inv, BTrieNotFound PROVE Inv'
<1>1. Return("not found") /\ bt.pc = "delete" /\ UNCHANGED <<bram, allocVars, owner>>
  BY DEF BTrieNotFound
<1> QED BY <1>1, ReturnFacts, CallMoves DEF Deleting

-----------------------------------------------------------------------------
(* Walking. *)

LEMMA WalkOnInv ==
  ASSUME Inv, BTrieWalk, bt.len < bt.goal, NextNode # 0 PROVE Inv'
<1> DEFINE n == bt.len + 1
           next == <<LevelOf(n), NextNode>>
<1>1. /\ bt.pc \in {"insert_find", "delete_find", "parent_find"}
      /\ bt' = [bt EXCEPT !.len = n, !.at = next]
      /\ UNCHANGED <<bram, allocVars, owner>>
  BY DEF BTrieWalk
<1>2. /\ bt.prefix \in Seq(Bit) /\ bt.goal \in 1 .. Len(bt.prefix)
      /\ bt.len \in Nat /\ n \in 1 .. bt.goal /\ Len(bt.prefix) \in Nat
      /\ bt.prefix[n] \in Bit /\ LevelOf(n) \in Nat
  BY <1>1, CallFacts, LevelNat
<1>5. NextNode \in 1 .. CAP - 1
      /\ (next \in Addrs => owner[next] = Cut(bt.prefix, n))
      /\ (n > 1 => \E u \in Addrs : LeadsTo(u, bt.prefix, n - 1, NextNode))
  <2>1. CASE bt.len = 0
    <3>1. n = 1 /\ NextNode = 1 + bt.prefix[1] /\ LevelOf(n) = 0
      BY <2>1, LevelFirst DEF NextNode, EntryPoint
    <3>2. \/ next = <<0, 1>> /\ bt.prefix[1] = 0
          \/ next = <<0, 2>> /\ bt.prefix[1] = 1
      BY <1>2, <3>1 DEF Bit
    <3>3. Cut(bt.prefix, 1) = <<bt.prefix[1]>>
      BY <1>2, <3>1 DEF Cut
    <3>4. owner[next] = Cut(bt.prefix, n)
      BY <3>1, <3>2, <3>3 DEF Inv, BTShape, EntriesOwned
    <3>5. NextNode \in 1 .. CAP - 1
      BY <1>2, <3>1, ShapeAssumption DEF Bit
    <3> QED BY <3>1, <3>4, <3>5
  <2>2. CASE bt.len > 0
    <3>1. NextNode = Child(WordAt(bt.at), bt.prefix[n])
      BY <2>2 DEF NextNode
    <3>2. bt.at \in Owned /\ owner[bt.at] = Cut(bt.prefix, bt.len) /\ WordAt(bt.at) = bram[bt.at]
      BY <1>1, <1>2, <2>2, <3>1, AtFacts, EmptyWord DEF WordAt
    <3>3. WordAt(bt.at) \in Word
      BY WordAtType DEF Inv
    <3>4. NextNode \in 1 .. CAP - 1
      BY <1>2, <3>1, <3>3, ChildType, ShapeAssumption
    <3>5. Len(Cut(bt.prefix, bt.len)) = bt.len
          /\ Append(Cut(bt.prefix, bt.len), bt.prefix[n]) = Cut(bt.prefix, n)
      <4>1. bt.len \in 0 .. Len(bt.prefix) /\ bt.len \in 0 .. Len(bt.prefix) - 1
        BY <1>2
      <4> QED BY <1>2, <4>1, CutType, CutNext
    <3>6. next \in Addrs => owner[next] = Cut(bt.prefix, n)
      BY <1>2, <3>1, <3>2, <3>4, <3>5 DEF Inv, BTShape, LinksTrue
    <3>7. LeadsTo(bt.at, bt.prefix, bt.len, NextNode) /\ bt.at \in Addrs
      BY <3>1, <3>2 DEF LeadsTo, Owned
    <3>8. n - 1 = bt.len
      BY <1>2
    <3> QED BY <3>4, <3>6, <3>7, <3>8
  <2> QED BY <1>2, <2>1, <2>2
<1>6. next \in Nat \X Nat
  BY <1>2, <1>5
<1>7. /\ bt' \in BtCall /\ bt'.ret = bt.ret /\ bt'.pc = bt.pc /\ bt'.prefix = bt.prefix
      /\ bt'.goal = bt.goal /\ bt'.child = bt.child /\ bt'.len = n /\ bt'.at = next
  <2>1. bt \in BtCall /\ n \in Nat
    BY <1>2 DEF Inv, BTrieTypeOK
  <2> HIDE DEF n, next
  <2> QED BY <1>1, <1>6, <2>1 DEF BtCall
<1>8. WalkTrue'
  BY <1>1, <1>2, <1>5, <1>7 DEF WalkTrue
<1>9. InsertTrue'
  BY <1>1, <1>7 DEF InsertTrue
<1>10. Deleting' = Deleting /\ Freed' = Freed
  BY <1>7 DEF Deleting, Freed
<1>11. DeleteTrue'
  <2>1. n > 1 => (\E u \in Addrs : LeadsTo(u, bt.prefix, bt.len - 1, bt.at[2]))'
    BY <1>1, <1>5, <1>7 DEF LeadsTo, Owned
  <2>2. Deleting => (\E u \in Addrs : LeadsTo(u, bt.prefix, bt.goal, bt.child))'
    BY <1>1, <1>7 DEF Inv, BTShape, DeleteTrue, LeadsTo, Owned
  <2>3. Deleting' => /\ bt'.goal < Len(bt'.prefix) /\ bt'.child \in 1 .. CAP - 1
                     /\ (Freed \in Addrs => owner[Freed] = Cut(bt.prefix, bt.goal + 1)
                                         /\ bram[Freed] = Empty)'
    BY <1>1, <1>7, <1>10 DEF Inv, BTShape, DeleteTrue
  <2> QED BY <1>1, <1>7, <1>10, <2>1, <2>2, <2>3 DEF DeleteTrue
<1> QED BY <1>1, <1>7, <1>8, <1>9, <1>10, <1>11, CallMoves DEF Inv, BTShape

\* While a freed node still hangs on its parent, the walk to the parent cannot
\* end early.
LEMMA ParentReached ==
  ASSUME Inv, Deleting, bt.len > 0
  PROVE  /\ bt.len = bt.goal => Child(WordAt(bt.at), bt.prefix[bt.goal + 1]) = bt.child
                               /\ bt.at \in Owned
         /\ bt.len < bt.goal => Child(WordAt(bt.at), bt.prefix[bt.len + 1]) # 0
<1>1. bt.pc # "idle"
  BY DEF Deleting
<1>2. /\ bt.prefix \in Seq(Bit) /\ Len(bt.prefix) \in Nat
      /\ bt.goal \in 1 .. Len(bt.prefix) - 1 /\ bt.len \in 1 .. bt.goal
  BY <1>1, CallFacts DEF Inv, BTShape, DeleteTrue
<1>3. PICK u \in Addrs : LeadsTo(u, bt.prefix, bt.goal, bt.child)
  BY DEF Inv, BTShape, DeleteTrue
<1>4. u \in Owned /\ owner[u] = Cut(bt.prefix, bt.goal)
      /\ Child(bram[u], bt.prefix[bt.goal + 1]) = bt.child
  BY <1>3 DEF LeadsTo
<1>5. owner[u] \in Seq(Bit) /\ Len(owner[u]) = bt.goal
  BY <1>2, <1>4, CutType
<1>6. u[1] = LevelOf(bt.goal) /\ u[1] < BT_LEVELS /\ LevelOf(bt.goal) \in Nat
  <2>1. u[1] = LevelOf(Len(owner[u]))
    BY <1>4 DEF Inv, BTShape, OwnersPlaced
  <2>2. u[1] \in 0 .. BT_LEVELS - 1 /\ BT_LEVELS \in Nat
    BY <1>3, ShapeAssumption DEF Addrs
  <2>3. u[1] = LevelOf(bt.goal)
    BY <1>5, <2>1
  <2>4. bt.goal \in Nat \ {0}
    BY <1>2
  <2> QED BY <2>2, <2>3, <2>4, LevelNat
<1>7. bt.at \in Owned /\ owner[bt.at] = Cut(bt.prefix, bt.len) /\ WordAt(bt.at) = bram[bt.at]
  <2>1. LevelOf(bt.len) =< LevelOf(bt.goal) /\ LevelOf(bt.len) \in Nat
    BY <1>2, LevelNext, LevelNat
  <2>2. bt.at = <<LevelOf(bt.len), bt.at[2]>> /\ bt.at[2] \in 1 .. CAP - 1
    BY <1>1, <1>2, AtFacts
  <2>3. bt.at \in Addrs
    BY <1>6, <2>1, <2>2, ShapeAssumption DEF Addrs
  <2> QED BY <1>1, <1>2, <2>3, AtFacts DEF WordAt
<1>8. ASSUME bt.len = bt.goal
      PROVE  Child(WordAt(bt.at), bt.prefix[bt.goal + 1]) = bt.child
  <2>1. bt.at = u
    BY <1>4, <1>7, <1>8 DEF Inv, BTShape, OwnersDistinct
  <2> QED BY <1>4, <1>7, <2>1
<1>9. ASSUME bt.len < bt.goal
      PROVE  Child(WordAt(bt.at), bt.prefix[bt.len + 1]) # 0
  <2>1. bt.len \in 1 .. Len(owner[u]) - 1
    BY <1>2, <1>5, <1>9
  <2>2. PICK v \in Owned, c \in 1 .. CAP - 1 : LeadsTo(v, owner[u], bt.len, c)
    BY <1>4, <2>1 DEF Inv, BTShape, PathsLead
  <2>3. Cut(owner[u], bt.len) = Cut(bt.prefix, bt.len)
    BY <1>2, <1>4, CutCut
  <2>4. owner[u][bt.len + 1] = bt.prefix[bt.len + 1]
    <3>1. bt.goal \in 0 .. Len(bt.prefix) /\ bt.len + 1 \in 1 .. bt.goal
      BY <1>2, <1>9
    <3> QED BY <1>2, <1>4, <3>1, CutType
  <2>5. owner[v] = Cut(bt.prefix, bt.len) /\ Child(bram[v], bt.prefix[bt.len + 1]) = c
    BY <2>2, <2>3, <2>4 DEF LeadsTo
  <2>6. v = bt.at
    BY <1>7, <2>2, <2>5 DEF Inv, BTShape, OwnersDistinct
  <2> QED BY <1>7, <2>2, <2>5, <2>6, ShapeAssumption
<1> QED BY <1>7, <1>8, <1>9

LEMMA WalkEndInv ==
  ASSUME Inv, BTrieWalk, ~(bt.len < bt.goal /\ NextNode # 0) PROVE Inv'
<1>1. /\ bt.pc \in {"insert_find", "delete_find", "parent_find"}
      /\ bt' = [bt EXCEPT !.pc = Found(bt.pc)]
      /\ UNCHANGED <<bram, allocVars, owner>>
  BY DEF BTrieWalk
<1>2. /\ bt.pc = "insert_find" => Found(bt.pc) = "insert"
      /\ bt.pc = "delete_find" => Found(bt.pc) = "delete"
      /\ bt.pc = "parent_find" => Found(bt.pc) = "unlink"
  BY DEF Found
<1>3. /\ bt' \in BtCall /\ bt'.ret = bt.ret /\ bt'.prefix = bt.prefix /\ bt'.at = bt.at
      /\ bt'.goal = bt.goal /\ bt'.child = bt.child /\ bt'.len = bt.len
      /\ bt'.pc = Found(bt.pc)
  BY <1>1, <1>2 DEF Inv, BTrieTypeOK, BtCall, Pcs
<1>4. /\ bt.prefix \in Seq(Bit) /\ bt.goal \in 1 .. Len(bt.prefix)
      /\ bt.len \in 0 .. bt.goal /\ Len(bt.prefix) \in Nat
      /\ bt.prefix[1] \in Bit
  BY <1>1, CallFacts
<1>5. bt.len > 0
  <2>1. bt.len = 0 => NextNode # 0
    BY <1>4 DEF NextNode, EntryPoint, Bit
  <2> QED BY <1>4, <2>1
<1>6. bt.len < bt.goal => Child(WordAt(bt.at), bt.prefix[bt.len + 1]) = 0
  BY <1>5 DEF NextNode
<1>7. Deleting' = Deleting /\ Freed' = Freed
  BY <1>1, <1>2, <1>3 DEF Deleting, Freed
<1>8. WalkTrue'
  BY <1>1, <1>2, <1>3, <1>5 DEF Inv, BTShape, WalkTrue
<1>9. InsertTrue'
  BY <1>1, <1>2, <1>3, <1>6 DEF InsertTrue, WordAt
<1>10. DeleteTrue'
  <2>1. bt.len > 1 /\ bt.pc # "insert_find" =>
          (\E u \in Addrs : LeadsTo(u, bt.prefix, bt.len - 1, bt.at[2]))'
    BY <1>1, <1>3 DEF Inv, BTShape, DeleteTrue, LeadsTo, Owned
  <2>2. Deleting => (\E u \in Addrs : LeadsTo(u, bt.prefix, bt.goal, bt.child))'
    BY <1>1, <1>3 DEF Inv, BTShape, DeleteTrue, LeadsTo, Owned
  <2>3. Deleting' => /\ bt'.goal < Len(bt'.prefix) /\ bt'.child \in 1 .. CAP - 1
                     /\ (Freed \in Addrs => owner[Freed] = Cut(bt.prefix, bt.goal + 1)
                                         /\ bram[Freed] = Empty)'
    BY <1>1, <1>3, <1>7 DEF Inv, BTShape, DeleteTrue
  <2>4. bt'.pc = "unlink" => bt'.len = bt'.goal
    BY <1>1, <1>2, <1>3, <1>4, <1>5, <1>6, ParentReached DEF Deleting
  <2> QED BY <1>1, <1>2, <1>3, <1>7, <2>1, <2>2, <2>3, <2>4 DEF DeleteTrue
<1> QED BY <1>1, <1>3, <1>7, <1>8, <1>9, <1>10, CallMoves DEF Inv, BTShape

LEMMA WalkInv == Inv /\ BTrieWalk => Inv'
BY WalkOnInv, WalkEndInv

-----------------------------------------------------------------------------
(* Writing words. *)

\* A step that leads nowhere new leaves the tree as it was.
LEMMA TreeKept ==
  ASSUME Inv, owner' = owner, bram_tops' \in [Levels -> Nat],
         \A l \in Levels : bram_tops'[l] >= bram_tops[l],
         \A a \in Owned, b \in Bit : Child(bram'[a], b) = Child(bram[a], b)
  PROVE  /\ Owned' = Owned
         /\ OwnersPlaced' /\ OwnersDistinct' /\ EntriesOwned' /\ LinksTrue' /\ PathsLead'
<1>1. Owned' = Owned
  BY DEF Owned
<1>2. \A a \in Owned : a \in Addrs /\ owner[a] \in Seq(Bit)
  BY DEF Owned, Inv, BTrieTypeOK
<1>3. OwnersPlaced'
  <2>1. \A a \in Addrs : a[1] \in Levels /\ a[2] \in Nat
    BY ShapeAssumption DEF Addrs, Levels
  <2>2. ASSUME NEW a \in Owned
        PROVE  a[1] = LevelOf(Len(owner'[a])) /\ a[2] > 0 /\ a[2] < bram_tops'[a[1]]
    <3>1. a[1] = LevelOf(Len(owner[a])) /\ a[2] > 0 /\ a[2] < bram_tops[a[1]]
      BY DEF Inv, BTShape, OwnersPlaced
    <3>2. /\ a[1] \in Levels /\ a[2] \in Nat /\ bram_tops[a[1]] \in Nat
          /\ bram_tops'[a[1]] \in Nat /\ bram_tops'[a[1]] >= bram_tops[a[1]]
      BY <1>2, <2>1 DEF Inv, BTrieTypeOK
    <3> QED BY <3>1, <3>2
  <2> QED BY <1>1, <2>2 DEF OwnersPlaced
<1>4. OwnersDistinct' /\ EntriesOwned'
  BY <1>1 DEF Inv, BTShape, OwnersDistinct, EntriesOwned
<1>5. LinksTrue'
  BY <1>1 DEF Inv, BTShape, LinksTrue
<1>6. PathsLead'
  <2>1. ASSUME NEW a \in Owned, NEW k \in 1 .. Len(owner[a]) - 1
        PROVE  \E u \in Owned, c \in 1 .. CAP - 1 :
                 /\ owner'[u] = Cut(owner'[a], k) /\ Child(bram'[u], owner'[a][k + 1]) = c
    <3>1. PICK u \in Owned, c \in 1 .. CAP - 1 : LeadsTo(u, owner[a], k, c)
      BY DEF Inv, BTShape, PathsLead
    <3>2. owner[a][k + 1] \in Bit
      BY <1>2
    <3> QED BY <3>1, <3>2 DEF LeadsTo
  <2> QED BY <1>1, <2>1 DEF PathsLead, LeadsTo
<1> QED BY <1>1, <1>3, <1>4, <1>5, <1>6

LEMMA StoreInv == ASSUME Inv, BTrieStore PROVE Inv'
<1> DEFINE w == [WordAt(bt.at) EXCEPT !.valid = TRUE, !.next_hop = bt.hop]
<1>1. /\ bt.pc = "insert" /\ Write(bt.at, w) /\ Return("ok")
      /\ UNCHANGED <<allocVars, owner>>
  BY DEF BTrieStore
<1>2. WordAt(bt.at) \in Word /\ bt.hop \in {0} \cup Hops
  BY WordAtType DEF Inv, BTrieTypeOK, BtCall
<1>3. /\ w \in Word /\ w # Empty
      /\ \A b \in Bit : Child(w, b) = Child(WordAt(bt.at), b)
  BY <1>2 DEF Word, Empty, Child
<1> HIDE DEF w
<1>4. /\ bram' \in [Addrs -> Word]
      /\ \A a \in Addrs : a # bt.at => bram'[a] = bram[a]
      /\ \A a \in Addrs : a = bt.at => bram'[a] = w /\ WordAt(bt.at) = bram[a]
  BY <1>1, <1>3 DEF Write, Inv, BTrieTypeOK, WordAt
<1>5. \A a \in Owned, b \in Bit : Child(bram'[a], b) = Child(bram[a], b)
  BY <1>3, <1>4 DEF Owned
<1>6. /\ owner' = owner /\ bram_tops' = bram_tops
      /\ bram_empty_bottoms' = bram_empty_bottoms /\ ~Deleting
      /\ bram_tops \in [Levels -> Nat]
  BY <1>1 DEF allocVars, Deleting, Inv, BTrieTypeOK
<1>7. /\ Owned' = Owned
      /\ OwnersPlaced' /\ OwnersDistinct' /\ EntriesOwned' /\ LinksTrue' /\ PathsLead'
  BY <1>5, <1>6, TreeKept
<1>8. /\ bt' \in BtCall /\ bt'.ret # "unexpected"
      /\ WalkTrue' /\ InsertTrue' /\ DeleteTrue'
  BY <1>1, ReturnFacts
<1>9. BTrieTypeOK'
  BY <1>4, <1>6, <1>8 DEF Inv, BTrieTypeOK
<1>10. BottomsFree'
  BY <1>6, <1>7 DEF Inv, BTShape, BottomsFree
<1>11. NodesMarked'
  BY <1>3, <1>4, <1>6, <1>7 DEF Inv, BTShape, NodesMarked, Owned
<1> QED BY <1>7, <1>8, <1>9, <1>10, <1>11 DEF Inv, BTShape

-----------------------------------------------------------------------------
(* Handing out a slot. *)

LEMMA LowestEmptyIn ==
  ASSUME NEW l, NEW from \in Nat, NEW top \in Nat, from =< top
  PROVE  /\ LowestEmpty(l, from, top) \in from .. top
         /\ LowestEmpty(l, from, top) # top => WordAt(<<l, LowestEmpty(l, from, top)>>) = Empty
<1> DEFINE S == EmptySlots(l, from, top)
<1>1. S \subseteq from .. top - 1 /\ S \subseteq Nat
  BY DEF EmptySlots
<1>2. \A i \in S : WordAt(<<l, i>>) = Empty
  BY DEF EmptySlots
<1>3. CASE S = {}
  BY <1>3 DEF LowestEmpty
<1>4. CASE S # {}
  <2> HIDE DEF S
  <2>1. \E x \in S : \A y \in S : x =< y
    BY <1>1, <1>4, LeastNat
  <2>2. LowestEmpty(l, from, top) = CHOOSE i \in S : \A j \in S : i =< j
    BY <1>4 DEF LowestEmpty, S
  <2>3. LowestEmpty(l, from, top) \in S
    BY <2>1, <2>2
  <2>4. LowestEmpty(l, from, top) \in from .. top - 1
    BY <1>1, <2>3
  <2> QED BY <1>2, <2>3, <2>4
<1> QED BY <1>3, <1>4

LEMMA NewInv == ASSUME Inv, BTrieNew PROVE Inv'
<1> DEFINE n == bt.len + 1
           l == LevelOf(n)
           new == bram_empty_bottoms[l]
           top == IF new = bram_tops[l] THEN new + 1 ELSE bram_tops[l]
           lo == LowestEmpty(l, new + 1, top)
           slot == <<l, new>>
<1>1. /\ bt.pc = "insert" /\ bt.len < bt.goal /\ owner' = owner
      /\ bram_tops' = [bram_tops EXCEPT ![l] = top]
      /\ bram_empty_bottoms' = [bram_empty_bottoms EXCEPT ![l] = lo]
      /\ \/ top >= CAP /\ Return("no room") /\ bram' = bram
         \/ top < CAP /\ Write(slot, Fresh) /\ bt' = [bt EXCEPT !.pc = "link", !.child = new]
  BY DEF BTrieNew
<1>2. /\ bt.prefix \in Seq(Bit) /\ bt.goal \in 1 .. Len(bt.prefix) /\ bt.len \in 0 .. bt.goal
      /\ Len(bt.prefix) \in Nat /\ n \in 1 .. bt.goal /\ l \in Levels /\ ~Deleting
  <2>1. bt.pc = "insert" /\ bt.len < bt.goal
    BY <1>1
  <2> HIDE DEF l, new, top, lo, slot
  <2>2. /\ bt.prefix \in Seq(Bit) /\ bt.goal \in 1 .. Len(bt.prefix)
        /\ bt.len \in 0 .. bt.goal /\ Len(bt.prefix) \in Nat
        /\ \A i \in 1 .. Len(bt.prefix) : LevelOf(i) \in Levels
    BY <2>1, CallFacts
  <2>3. n \in 1 .. bt.goal /\ n \in 1 .. Len(bt.prefix)
    BY <2>1, <2>2
  <2>4. l \in Levels
    BY <2>2, <2>3 DEF l
  <2> QED BY <2>1, <2>2, <2>3, <2>4 DEF Deleting
<1>3. bt.len > 0
  <2>1. bt.pc = "insert"
    BY <1>1
  <2> HIDE DEF n, l, new, top, lo, slot
  <2>2. bt.len # 0
    BY <2>1 DEF Inv, BTShape, WalkTrue
  <2>3. bt.len \in Nat
    BY <1>2
  <2> QED BY <2>2, <2>3
<1>4. /\ bram_tops \in [Levels -> Nat] /\ bram_empty_bottoms \in [Levels -> Nat]
      /\ bt \in BtCall /\ bram \in [Addrs -> Word]
  BY DEF Inv, BTrieTypeOK
<1>5. new \in Nat /\ new =< bram_tops[l] /\ new >= EmptyTops[l] /\ slot \notin Owned
  BY <1>2, <1>4 DEF Inv, BTShape, BottomsFree
<1>6. EmptyTops[l] \in Nat /\ EmptyTops[l] >= 1 /\ (l = 0 => EmptyTops[l] = 3)
  BY <1>2 DEF EmptyTops
<1>7. top \in Nat /\ top >= bram_tops[l] /\ new < top /\ new >= 1
  BY <1>2, <1>4, <1>5, <1>6
<1> HIDE DEF n, l, new, top
<1>8. lo \in new + 1 .. top /\ (lo # top => WordAt(<<l, lo>>) = Empty)
  BY <1>5, <1>7, LowestEmptyIn
<1> HIDE DEF lo
<1>9. /\ bram_tops' \in [Levels -> Nat] /\ bram_empty_bottoms' \in [Levels -> Nat]
      /\ bram_tops'[l] = top /\ bram_empty_bottoms'[l] = lo
      /\ \A k \in Levels \ {l} : /\ bram_tops'[k] = bram_tops[k]
                                 /\ bram_empty_bottoms'[k] = bram_empty_bottoms[k]
  <2>1. lo \in Nat
    BY <1>5, <1>7, <1>8
  <2> QED BY <1>1, <1>2, <1>4, <1>7, <2>1
<1>10. \A k \in Levels : bram_tops'[k] >= bram_tops[k]
  BY <1>4, <1>7, <1>9
<1>11. <<l, lo>> \notin Owned
  <2> SUFFICES ASSUME <<l, lo>> \in Owned PROVE FALSE
    OBVIOUS
  <2>1. lo < bram_tops[l]
    BY DEF Inv, BTShape, OwnersPlaced
  <2>2. WordAt(<<l, lo>>) = Empty
    BY <1>2, <1>4, <1>7, <1>8, <2>1
  <2>3. bram[<<l, lo>>] = Empty
    BY <2>2 DEF WordAt, Owned
  <2>4. IsEntryPoint(<<l, lo>>)
    BY <1>2, <2>3 DEF Inv, BTShape, NodesMarked
  <2>5. l = 0 /\ lo =< 2
    BY <2>4 DEF IsEntryPoint
  <2> QED BY <1>5, <1>6, <1>7, <1>8, <2>5
<1>12. /\ \A a \in Owned : bram'[a] = bram[a]
       /\ bram' \in [Addrs -> Word]
  <2>1. CASE bram' = bram
    BY <1>4, <2>1
  <2>2. CASE Write(slot, Fresh)
    BY <1>4, <1>5, <2>2, EmptyWord DEF Write, Owned
  <2> QED BY <1>1, <2>1, <2>2
<1>13. /\ Owned' = Owned
       /\ OwnersPlaced' /\ OwnersDistinct' /\ EntriesOwned' /\ LinksTrue' /\ PathsLead'
  BY <1>1, <1>9, <1>10, <1>12, TreeKept
<1>14. ~Deleting'
  BY <1>1, <1>4 DEF Deleting, Return, Idle, BtCall
<1>15. BottomsFree'
  <2>1. ASSUME NEW k \in Levels
        PROVE  /\ bram_empty_bottoms'[k] =< bram_tops'[k]
               /\ bram_empty_bottoms'[k] >= EmptyTops[k]
               /\ <<k, bram_empty_bottoms'[k]>> \notin Owned
    <3>1. CASE k = l
      BY <1>5, <1>6, <1>7, <1>8, <1>9, <1>11, <3>1
    <3>2. CASE k # l
      BY <1>2, <1>9, <3>2 DEF Inv, BTShape, BottomsFree
    <3> QED BY <3>1, <3>2
  <2> QED BY <1>13, <2>1 DEF BottomsFree, EmptyTops
<1>16. NodesMarked'
  BY <1>2, <1>12, <1>13 DEF Inv, BTShape, NodesMarked
<1>17. CASE Return("no room")
  <2>1. /\ bt' \in BtCall /\ bt'.ret # "unexpected"
        /\ WalkTrue' /\ InsertTrue' /\ DeleteTrue'
    BY <1>17, ReturnFacts
  <2>2. BTrieTypeOK'
    BY <1>1, <1>9, <1>12, <2>1 DEF Inv, BTrieTypeOK
  <2> QED BY <1>13, <1>15, <1>16, <2>1, <2>2 DEF Inv, BTShape
<1>18. CASE top < CAP /\ Write(slot, Fresh) /\ bt' = [bt EXCEPT !.pc = "link", !.child = new]
  <2>1. /\ bt' \in BtCall /\ bt'.ret = bt.ret /\ bt'.prefix = bt.prefix /\ bt'.at = bt.at
        /\ bt'.goal = bt.goal /\ bt'.child = new /\ bt'.len = bt.len /\ bt'.pc = "link"
    BY <1>4, <1>5, <1>18 DEF BtCall, Pcs
  <2>2. WalkTrue'
    BY <1>1, <1>3, <2>1 DEF Inv, BTShape, WalkTrue
  <2>3. WordAt(bt.at)' = WordAt(bt.at)
    <3>1. bt.at \in Addrs => bt.at \in Owned
      BY <1>1, <1>3, AtFacts
    <3> QED BY <1>12, <2>1, <3>1 DEF WordAt
  <2>4. new \in 1 .. CAP - 1
    BY <1>5, <1>7, <1>18, ShapeAssumption
  <2>5. slot \in Addrs => bram'[slot] = Fresh
    BY <1>4, <1>18 DEF Write
  <2>6. InsertTrue'
    <3>1. Child(WordAt(bt.at), bt.prefix[n]) = 0
      BY <1>1 DEF Inv, BTShape, InsertTrue, n
    <3>2. new < bram_tops'[l] /\ new # bram_empty_bottoms'[l]
      BY <1>5, <1>7, <1>8, <1>9
    <3> QED BY <1>1, <1>5, <1>13, <2>1, <2>3, <2>4, <2>5, <3>1, <3>2 DEF InsertTrue, n, l
  <2>7. DeleteTrue'
    BY <1>14, <2>1 DEF DeleteTrue
  <2>8. BTrieTypeOK'
    BY <1>1, <1>9, <1>12, <2>1 DEF Inv, BTrieTypeOK
  <2> QED BY <1>13, <1>15, <1>16, <2>1, <2>2, <2>6, <2>7, <2>8 DEF Inv, BTShape
<1> QED BY <1>1, <1>17, <1>18

-----------------------------------------------------------------------------
(* Linking. *)

\* A node leads only to longer paths, and only one node has a given path.
LEMMA NoStranger ==
  ASSUME Inv, NEW q \in Seq(Bit), NEW k \in 1 .. Len(q) - 1, NEW v \in Owned,
         owner[v] = Cut(q, k), Child(bram[v], q[k + 1]) = 0
  PROVE  \A a \in Owned : owner[a] # q
<1> SUFFICES ASSUME NEW a \in Owned, owner[a] = q PROVE FALSE
  OBVIOUS
<1>1. PICK u \in Owned, c \in 1 .. CAP - 1 : LeadsTo(u, q, k, c)
  BY DEF Inv, BTShape, PathsLead
<1>2. u = v
  BY <1>1 DEF Inv, BTShape, OwnersDistinct, LeadsTo
<1> QED BY <1>1, <1>2, ShapeAssumption DEF LeadsTo

LEMMA LinkInv == ASSUME Inv, BTrieLink PROVE Inv'
<1> DEFINE n == bt.len + 1
           b == bt.prefix[n]
           q == Cut(bt.prefix, n)
           new == <<LevelOf(n), bt.child>>
           w == WithChild(WordAt(bt.at), b, bt.child)
<1>1. /\ bt.pc = "link" /\ Write(bt.at, w) /\ UNCHANGED allocVars
      /\ bt' = [bt EXCEPT !.pc = "insert", !.len = n, !.at = new, !.child = 0]
      /\ owner' = IF new \in Addrs THEN [owner EXCEPT ![new] = q] ELSE owner
  BY DEF BTrieLink
<1>2. /\ bt.len < bt.goal /\ bt.child \in 1 .. CAP - 1
      /\ bt.child < bram_tops[LevelOf(n)] /\ bt.child # bram_empty_bottoms[LevelOf(n)]
      /\ new \in Addrs => new \notin Owned /\ bram[new] = Fresh
      /\ Child(WordAt(bt.at), b) = 0
  BY <1>1 DEF Inv, BTShape, InsertTrue
<1>3. /\ bt.prefix \in Seq(Bit) /\ bt.goal \in 1 .. Len(bt.prefix) /\ bt.len \in 0 .. bt.goal
      /\ Len(bt.prefix) \in Nat
      /\ \A i \in 1 .. Len(bt.prefix) : bt.prefix[i] \in Bit /\ LevelOf(i) \in Levels
  BY <1>1, CallFacts
<1>4. bt.len # 0 /\ ~Deleting
  BY <1>1 DEF Inv, BTShape, WalkTrue, Deleting
<1>5. /\ bt.len \in 1 .. Len(bt.prefix) - 1 /\ n \in 1 .. Len(bt.prefix) /\ n \in 2 .. bt.goal
      /\ b \in Bit /\ LevelOf(n) \in Levels /\ LevelOf(n) \in Nat
      /\ LevelOf(bt.len) \in Nat /\ LevelOf(bt.len) =< LevelOf(n)
  <2>1. bt.len \in 1 .. Len(bt.prefix) - 1 /\ n \in 1 .. Len(bt.prefix) /\ n \in 2 .. bt.goal
    BY <1>2, <1>3, <1>4
  <2> QED BY <1>3, <2>1, LevelNat, LevelNext
<1>6. /\ q \in Seq(Bit) /\ Len(q) = n /\ q # <<>>
      /\ \A k \in 0 .. n : Cut(q, k) = Cut(bt.prefix, k)
      /\ \A i \in 1 .. n : q[i] = bt.prefix[i]
      /\ Append(Cut(bt.prefix, bt.len), b) = q /\ Len(Cut(bt.prefix, bt.len)) = bt.len
  <2>1. n \in 0 .. Len(bt.prefix) /\ bt.len \in 0 .. Len(bt.prefix)
        /\ bt.len \in 0 .. Len(bt.prefix) - 1
    BY <1>5
  <2>2. q \in Seq(Bit) /\ Len(q) = n /\ \A i \in 1 .. n : q[i] = bt.prefix[i]
    BY <1>3, <2>1, CutType
  <2>3. \A k \in 0 .. n : Cut(q, k) = Cut(bt.prefix, k)
    BY <1>3, <2>1, CutCut
  <2>4. Append(Cut(bt.prefix, bt.len), b) = q /\ Len(Cut(bt.prefix, bt.len)) = bt.len
    BY <1>3, <2>1, CutNext, CutType
  <2> QED BY <1>5, <2>2, <2>3, <2>4
<1>7. /\ bt.at = <<LevelOf(bt.len), bt.at[2]>> /\ bt.at[2] \in 1 .. CAP - 1
      /\ bt.at \in Addrs => bt.at \in Owned /\ owner[bt.at] = Cut(bt.prefix, bt.len)
  <2>1. bt.pc # "idle" /\ bt.len > 0
    BY <1>1, <1>5
  <2> QED BY <2>1, AtFacts
<1>8. /\ w \in Word /\ w # Empty /\ Child(w, b) = bt.child
      /\ \A d \in Bit \ {b} : Child(w, d) = Child(WordAt(bt.at), d)
  <2>1. WordAt(bt.at) \in Word /\ bt.child \in 0 .. CAP - 1
    BY <1>2, WordAtType DEF Inv
  <2>2. w \in Word /\ Child(w, b) = bt.child
        /\ \A d \in Bit \ {b} : Child(w, d) = Child(WordAt(bt.at), d)
    BY <1>5, <2>1, WithChildType
  <2> QED BY <1>2, <1>5, <2>2, EmptyWord
<1>9. /\ bram_tops' = bram_tops /\ bram_empty_bottoms' = bram_empty_bottoms
      /\ bram_tops \in [Levels -> Nat] /\ bram_empty_bottoms \in [Levels -> Nat]
      /\ bram \in [Addrs -> Word] /\ owner \in [Addrs -> Seq(Bit)] /\ bt \in BtCall
  BY <1>1 DEF allocVars, Inv, BTrieTypeOK
<1> HIDE DEF b, q, w
<1>10. /\ bt' \in BtCall /\ bt'.ret = bt.ret /\ bt'.prefix = bt.prefix /\ bt'.at = new
       /\ bt'.goal = bt.goal /\ bt'.len = n /\ bt'.pc = "insert"
  <2>1. n \in Nat /\ new \in Nat \X Nat
    BY <1>2, <1>5
  <2> HIDE DEF n, new
  <2> QED BY <1>1, <1>9, <2>1 DEF BtCall, Pcs
<1>11. new \in Addrs => bt.at \in Addrs
  <2>1. new \in Addrs => LevelOf(bt.len) \in 0 .. BT_LEVELS - 1
    BY <1>5, ShapeAssumption DEF Addrs
  <2>2. bt.at[2] \in 0 .. CAP - 1
    BY <1>7, ShapeAssumption
  <2>3. LevelOf(bt.len) \in 0 .. BT_LEVELS - 1 => <<LevelOf(bt.len), bt.at[2]>> \in Addrs
    BY <2>2 DEF Addrs
  <2> QED BY <1>7, <2>1, <2>3
<1> HIDE DEF new
<1>12. WalkTrue'
  <2>1. new[1] = LevelOf(n) /\ new[2] = bt.child
    BY DEF new
  <2>2. new \in Addrs => owner'[new] = Cut(bt.prefix, n)
    BY <1>1, <1>9 DEF q
  <2> QED BY <1>2, <1>3, <1>5, <1>10, <2>1, <2>2 DEF WalkTrue
<1>13. bram' \in [Addrs -> Word] /\ owner' \in [Addrs -> Seq(Bit)]
  BY <1>1, <1>6, <1>8, <1>9 DEF Write
<1>14. new \in Addrs => bram'[new] = Fresh /\ new # bt.at
  BY <1>1, <1>2, <1>7, <1>9, <1>11 DEF Write
<1>15. InsertTrue'
  <2>1. n < bt.goal => bt.prefix[n + 1] \in Bit
    BY <1>3, <1>5
  <2>2. n < bt.goal =>
          Child(IF new \in Addrs THEN bram'[new] ELSE Empty, bt.prefix[n + 1]) = 0
    BY <1>14, <2>1, EmptyWord
  <2>3. WordAt(bt.at)' = IF new \in Addrs THEN bram'[new] ELSE Empty
    BY <1>10 DEF WordAt
  <2> HIDE DEF n
  <2> QED BY <1>10, <2>2, <2>3 DEF InsertTrue
<1>16. DeleteTrue' /\ ~Deleting'
  BY <1>10 DEF DeleteTrue, Deleting
<1>17. BTrieTypeOK' /\ bt'.ret # "unexpected"
  BY <1>9, <1>10, <1>13 DEF BTrieTypeOK, Inv, BTShape
<1>18. CASE bt.at \notin Addrs
  <2>1. bram' = bram /\ owner' = owner
    BY <1>1, <1>11, <1>18 DEF Write
  <2>2. /\ Owned' = Owned
        /\ OwnersPlaced' /\ OwnersDistinct' /\ EntriesOwned' /\ LinksTrue' /\ PathsLead'
    BY <1>9, <2>1, TreeKept
  <2>3. BottomsFree' /\ NodesMarked'
    BY <1>4, <1>9, <2>1, <2>2 DEF Inv, BTShape, BottomsFree, NodesMarked
  <2> QED BY <1>12, <1>15, <1>16, <1>17, <2>2, <2>3 DEF Inv, BTShape
<1>19. CASE bt.at \in Addrs
  <2>1. /\ bram'[bt.at] = w /\ \A a \in Addrs : a # bt.at => bram'[a] = bram[a]
        /\ WordAt(bt.at) = bram[bt.at]
    BY <1>1, <1>9, <1>19 DEF Write, WordAt
  <2>2. /\ \A a \in Addrs : a # new => owner'[a] = owner[a]
        /\ new \in Addrs => owner'[new] = q
    BY <1>1, <1>9
  <2>3. /\ \A a : a \in Owned' <=> a \in Owned \/ (a = new /\ new \in Addrs)
        /\ \A a \in Owned : owner'[a] = owner[a] /\ a \in Addrs /\ owner[a] \in Seq(Bit)
    BY <1>2, <1>6, <1>9, <2>2 DEF Owned
  <2>4. bt.at \in Owned /\ owner[bt.at] = Cut(bt.prefix, bt.len)
    BY <1>7, <1>19
  <2>5. \A a \in Owned, d \in Bit : a # bt.at \/ d # b => Child(bram'[a], d) = Child(bram[a], d)
    BY <1>8, <2>1, <2>3
  <2>6. OwnersPlaced'
    <3>1. new[1] = LevelOf(n) /\ new[2] = bt.child
      BY DEF new
    <3> QED BY <1>2, <1>6, <1>9, <2>2, <2>3, <3>1 DEF Inv, BTShape, OwnersPlaced
  <2>7. OwnersDistinct'
    <3>1. \A a \in Owned : owner[a] # q
      <4>1. bt.len \in 1 .. Len(q) - 1 /\ owner[bt.at] = Cut(q, bt.len)
        BY <1>5, <1>6, <2>4
      <4>2. q[bt.len + 1] = b
        BY <1>5, <1>6 DEF b, n
      <4>3. Child(bram[bt.at], q[bt.len + 1]) = 0
        BY <1>2, <2>1, <4>2
      <4> QED BY <1>6, <2>4, <4>1, <4>3, NoStranger
    <3> QED BY <2>2, <2>3, <3>1 DEF Inv, BTShape, OwnersDistinct
  <2>8. EntriesOwned'
    <3>1. <<0, 1>> \in Owned /\ <<0, 2>> \in Owned
      BY EntryAddrs, OneBit DEF Owned, Inv, BTShape, EntriesOwned, Bit
    <3> QED BY <2>3, <3>1 DEF Inv, BTShape, EntriesOwned
  <2>9. LinksTrue'
    <3> SUFFICES ASSUME NEW a \in Owned', NEW d \in Bit,
                        Child(bram'[a], d) # 0,
                        <<LevelOf(Len(owner'[a]) + 1), Child(bram'[a], d)>> \in Addrs
                 PROVE  owner'[<<LevelOf(Len(owner'[a]) + 1), Child(bram'[a], d)>>]
                          = Append(owner'[a], d)
      BY DEF LinksTrue
    <3>1. a # new
      BY <1>14, <2>3, EmptyWord
    <3>2. a \in Owned /\ owner'[a] = owner[a]
      BY <2>3, <3>1
    <3>3. CASE a = bt.at /\ d = b
      <4>1. <<LevelOf(Len(owner'[a]) + 1), Child(bram'[a], d)>> = new
        BY <1>6, <1>8, <2>1, <2>4, <3>2, <3>3 DEF new
      <4> QED BY <1>6, <2>2, <2>4, <3>2, <3>3, <4>1
    <3>4. CASE ~(a = bt.at /\ d = b)
      <4> DEFINE next == <<LevelOf(Len(owner[a]) + 1), Child(bram[a], d)>>
      <4>1. Child(bram'[a], d) = Child(bram[a], d)
        BY <2>5, <3>2, <3>4
      <4>2. owner[next] = Append(owner[a], d) /\ next \in Addrs
        BY <3>2, <4>1 DEF Inv, BTShape, LinksTrue
      <4>3. Append(owner[a], d) # <<>>
        BY <2>3, <3>2, CutAppend
      <4>4. next # new
        BY <1>2, <4>2, <4>3 DEF Owned
      <4> QED BY <2>2, <3>2, <4>1, <4>2, <4>4
    <3> QED BY <3>3, <3>4
  <2>10. PathsLead'
    <3>1. ASSUME NEW a \in Owned, NEW k \in 1 .. Len(owner[a]) - 1
          PROVE  \E u \in Owned, c \in 1 .. CAP - 1 :
                   owner[u] = Cut(owner[a], k) /\ Child(bram'[u], owner[a][k + 1]) = c
      <4>1. PICK u \in Owned, c \in 1 .. CAP - 1 : LeadsTo(u, owner[a], k, c)
        BY DEF Inv, BTShape, PathsLead
      <4>2. owner[a][k + 1] \in Bit
        BY <2>3
      <4>3. u # bt.at \/ owner[a][k + 1] # b
        BY <1>2, <2>1, <4>1, ShapeAssumption DEF LeadsTo
      <4> QED BY <2>5, <4>1, <4>2, <4>3 DEF LeadsTo
    <3>2. ASSUME NEW k \in 1 .. n - 1
          PROVE  \E u \in Owned, c \in 1 .. CAP - 1 :
                   owner[u] = Cut(q, k) /\ Child(bram'[u], q[k + 1]) = c
      <4>1. CASE k = bt.len
        <5>1. q[k + 1] = b /\ Cut(q, k) = owner[bt.at]
          BY <1>5, <1>6, <2>4, <4>1 DEF n, b
        <5> QED BY <1>2, <1>8, <2>1, <2>4, <5>1
      <4>2. CASE k # bt.len
        <5>1. k \in 1 .. bt.len - 1 /\ bt.len \in 0 .. Len(bt.prefix) /\ k + 1 \in 1 .. bt.len
              /\ k + 1 \in 1 .. n /\ k \in 0 .. bt.len /\ k \in 0 .. n
          BY <1>5, <4>2 DEF n
        <5>2. k \in 1 .. Len(owner[bt.at]) - 1
          BY <1>6, <2>4, <5>1
        <5>3. PICK u \in Owned, c \in 1 .. CAP - 1 : 
                owner[u] = Cut(owner[bt.at], k) /\ Child(bram'[u], owner[bt.at][k + 1]) = c
          BY <2>4, <3>1, <5>2
        <5>4. Cut(owner[bt.at], k) = Cut(q, k) /\ owner[bt.at][k + 1] = q[k + 1]
          <6>1. Cut(owner[bt.at], k) = Cut(bt.prefix, k)
            BY <1>3, <2>4, <5>1, CutCut
          <6>2. owner[bt.at][k + 1] = bt.prefix[k + 1]
            BY <1>3, <2>4, <5>1, CutType
          <6> QED BY <1>6, <5>1, <6>1, <6>2
        <5> QED BY <5>3, <5>4
      <4> QED BY <4>1, <4>2
    <3>3. ASSUME NEW a \in Owned', NEW k \in 1 .. Len(owner'[a]) - 1
          PROVE  \E u \in Owned', c \in 1 .. CAP - 1 :
                   owner'[u] = Cut(owner'[a], k) /\ Child(bram'[u], owner'[a][k + 1]) = c
      <4>1. CASE a \in Owned
        BY <2>3, <3>1, <4>1
      <4>2. CASE a = new /\ new \in Addrs
        BY <1>6, <2>2, <2>3, <3>2, <4>2
      <4> QED BY <2>3, <4>1, <4>2
    <3> QED BY <3>3 DEF PathsLead, LeadsTo
  <2>11. BottomsFree'
    <3>1. ASSUME NEW l \in Levels PROVE <<l, bram_empty_bottoms[l]>> \notin Owned'
      <4>1. <<l, bram_empty_bottoms[l]>> \notin Owned
        BY <1>4 DEF Inv, BTShape, BottomsFree
      <4>2. <<l, bram_empty_bottoms[l]>> # new
        BY <1>2 DEF new
      <4> QED BY <2>3, <4>1, <4>2
    <3> QED BY <1>9, <3>1 DEF Inv, BTShape, BottomsFree, EmptyTops
  <2>12. NodesMarked'
    BY <1>4, <1>8, <1>14, <2>1, <2>3, EmptyWord DEF Inv, BTShape, NodesMarked
  <2> QED BY <1>12, <1>15, <1>16, <1>17, <2>6, <2>7, <2>8, <2>9, <2>10, <2>11, <2>12
          DEF Inv, BTShape
<1> QED BY <1>18, <1>19

-----------------------------------------------------------------------------
(* Deleting. *)

LEMMA AtEntry ==
  ASSUME Inv, bt.pc # "idle", bt.len > 0
  PROVE  IsEntryPoint(bt.at) <=> bt.len = 1
<1>1. /\ bt.prefix \in Seq(Bit) /\ bt.len \in 1 .. Len(bt.prefix) /\ bt.prefix[1] \in Bit
      /\ bt.len \in 0 .. Len(bt.prefix) /\ Len(bt.prefix) \in Nat
  BY CallFacts
<1>2. /\ bt.at = <<LevelOf(bt.len), bt.at[2]>> /\ bt.at[2] \in 1 .. CAP - 1
      /\ bt.at \in Addrs => bt.at \in Owned /\ owner[bt.at] = Cut(bt.prefix, bt.len)
  BY AtFacts
<1>3. Len(Cut(bt.prefix, bt.len)) = bt.len
  BY <1>1, CutType
<1>4. ASSUME IsEntryPoint(bt.at) PROVE bt.len = 1
  <2>1. bt.at \in Addrs
    BY <1>4, EntryAddrs DEF IsEntryPoint
  <2>2. owner[bt.at] = <<0>> \/ owner[bt.at] = <<1>>
    BY <1>4 DEF IsEntryPoint, Inv, BTShape, EntriesOwned
  <2> QED BY <1>2, <1>3, <2>1, <2>2, OneBit DEF Bit
<1>5. ASSUME bt.len = 1 PROVE IsEntryPoint(bt.at)
  <2>1. bt.at \in Addrs
    BY <1>2, <1>5, LevelFirst, ShapeAssumption DEF Addrs
  <2>2. Cut(bt.prefix, 1) = <<bt.prefix[1]>>
    BY <1>1, <1>5 DEF Cut
  <2>3. bt.prefix[1] = 0 \/ bt.prefix[1] = 1
    BY <1>1 DEF Bit
  <2>4. <<0, 1>> \in Owned /\ <<0, 2>> \in Owned
    BY EntryAddrs, OneBit DEF Owned, Inv, BTShape, EntriesOwned, Bit
  <2>5. owner[bt.at] = owner[<<0, 1>>] \/ owner[bt.at] = owner[<<0, 2>>]
    BY <1>2, <1>5, <2>1, <2>2, <2>3 DEF Inv, BTShape, EntriesOwned
  <2> QED BY <1>2, <2>1, <2>4, <2>5 DEF IsEntryPoint, Inv, BTShape, OwnersDistinct
<1> QED BY <1>4, <1>5

LEMMA GiveBackFacts ==
  ASSUME Inv, NEW a \in Levels \X (1 .. CAP - 1), GiveBack(a)
  PROVE  /\ bram_empty_bottoms' \in [Levels -> Nat]
         /\ IsEntryPoint(a) => bram_empty_bottoms' = bram_empty_bottoms
         /\ \A l \in Levels :
              /\ bram_empty_bottoms'[l] =< bram_tops[l]
              /\ bram_empty_bottoms'[l] >= EmptyTops[l]
              /\ \/ bram_empty_bottoms'[l] = bram_empty_bottoms[l]
                 \/ <<l, bram_empty_bottoms'[l]>> = a
<1>1. /\ bram_empty_bottoms \in [Levels -> Nat] /\ bram_tops \in [Levels -> Nat]
      /\ \A l \in Levels : /\ bram_empty_bottoms[l] =< bram_tops[l]
                           /\ bram_empty_bottoms[l] >= EmptyTops[l]
  BY DEF Inv, BTrieTypeOK, BTShape, BottomsFree
<1>2. a[1] \in Levels /\ a[2] \in Nat /\ a[2] >= 1 /\ a = <<a[1], a[2]>>
  OBVIOUS
<1>3. CASE bram_empty_bottoms' = bram_empty_bottoms
  BY <1>1, <1>3
<1>4. CASE /\ ~IsEntryPoint(a) /\ a[2] < bram_empty_bottoms[a[1]]
           /\ bram_empty_bottoms' = [bram_empty_bottoms EXCEPT ![a[1]] = a[2]]
  <2>1. a[2] >= EmptyTops[a[1]]
    <3>1. a[1] = 0 => a[2] # 1 /\ a[2] # 2
      BY <1>2, <1>4 DEF IsEntryPoint
    <3> QED BY <1>2, <3>1 DEF EmptyTops
  <2>2. a[2] =< bram_tops[a[1]]
    BY <1>1, <1>2, <1>4
  <2>3. /\ bram_empty_bottoms'[a[1]] = a[2]
        /\ \A l \in Levels \ {a[1]} : bram_empty_bottoms'[l] = bram_empty_bottoms[l]
        /\ bram_empty_bottoms' \in [Levels -> Nat]
    BY <1>1, <1>2, <1>4
  <2> QED BY <1>1, <1>2, <1>4, <2>1, <2>2, <2>3
<1> QED BY <1>3, <1>4 DEF GiveBack

LEMMA ClearInv == ASSUME Inv, BTrieClear PROVE Inv'
<1> DEFINE w == [WordAt(bt.at) EXCEPT !.valid = FALSE, !.next_hop = 0]
           leaf == IsLeaf(WordAt(bt.at))
<1>1. /\ bt.pc = "delete" /\ bt.len = bt.goal /\ Write(bt.at, w)
      /\ IF leaf THEN GiveBack(bt.at) ELSE bram_empty_bottoms' = bram_empty_bottoms
      /\ IF leaf /\ bt.goal > 1
         THEN bt' = Find("parent_find", bt.prefix, 0, bt.goal - 1, bt.at[2])
         ELSE Return("ok")
      /\ bram_tops' = bram_tops /\ owner' = owner
  BY DEF BTrieClear
<1>2. /\ bt.prefix \in Seq(Bit) /\ bt.prefix \in Prefixes /\ bt.goal \in 1 .. Len(bt.prefix)
      /\ Len(bt.prefix) \in Nat /\ LevelOf(bt.goal) \in Levels /\ bt.goal \in Nat
  BY <1>1, CallFacts
<1>3. /\ bt.at = <<LevelOf(bt.goal), bt.at[2]>> /\ bt.at[2] \in 1 .. CAP - 1
      /\ bt.at \in Addrs => bt.at \in Owned /\ owner[bt.at] = Cut(bt.prefix, bt.goal)
      /\ bt.at \in Levels \X (1 .. CAP - 1)
  <2>1. bt.len > 0 /\ bt.pc # "idle"
    BY <1>1, <1>2
  <2>2. /\ bt.at = <<LevelOf(bt.goal), bt.at[2]>> /\ bt.at[2] \in 1 .. CAP - 1
        /\ bt.at \in Addrs => bt.at \in Owned /\ owner[bt.at] = Cut(bt.prefix, bt.goal)
    BY <1>1, <2>1, AtFacts
  <2>3. <<LevelOf(bt.goal), bt.at[2]>> \in Levels \X (1 .. CAP - 1)
    BY <1>2, <2>2
  <2> QED BY <2>2, <2>3
<1>4. IsEntryPoint(bt.at) <=> bt.goal = 1
  BY <1>1, <1>2, AtEntry
<1>5. WordAt(bt.at) \in Word
  BY WordAtType DEF Inv
<1>6. /\ w \in Word /\ (leaf => w = Empty)
      /\ \A b \in Bit : Child(w, b) = Child(WordAt(bt.at), b)
  <2>1. /\ w \in Word /\ w.lc = WordAt(bt.at).lc /\ w.rc = WordAt(bt.at).rc
        /\ w.valid = FALSE /\ w.next_hop = 0
    BY <1>5 DEF Word
  <2>2. leaf => w.lc = 0 /\ w.rc = 0
    BY <2>1 DEF IsLeaf
  <2> HIDE DEF w, leaf
  <2>3. leaf => w = Empty
    BY <2>1, <2>2 DEF Word, Empty
  <2> QED BY <2>1, <2>3 DEF Child
<1>7. ~leaf => w # Empty
  BY <1>5, <1>6, LeafChildren, EmptyWord
<1> HIDE DEF w, leaf
<1>8. /\ bram' \in [Addrs -> Word]
      /\ \A a \in Addrs : a # bt.at => bram'[a] = bram[a]
      /\ bt.at \in Addrs => bram'[bt.at] = w /\ WordAt(bt.at) = bram[bt.at]
  BY <1>1, <1>6 DEF Write, Inv, BTrieTypeOK, WordAt
<1>9. \A a \in Owned, b \in Bit : Child(bram'[a], b) = Child(bram[a], b)
  BY <1>6, <1>8 DEF Owned
<1>10. bram_tops \in [Levels -> Nat] /\ bram_empty_bottoms \in [Levels -> Nat] /\ bt \in BtCall
  BY DEF Inv, BTrieTypeOK
<1>11. /\ Owned' = Owned
       /\ OwnersPlaced' /\ OwnersDistinct' /\ EntriesOwned' /\ LinksTrue' /\ PathsLead'
  BY <1>1, <1>9, <1>10, TreeKept
<1>12. ~Deleting
  BY <1>1 DEF Deleting
<1>13. \A a \in Owned : a # bt.at /\ bram'[a] = Empty => IsEntryPoint(a)
  BY <1>8, <1>12 DEF Inv, BTShape, NodesMarked, Owned
<1>14. \A l \in Levels : /\ bram_empty_bottoms[l] =< bram_tops[l]
                         /\ bram_empty_bottoms[l] >= EmptyTops[l]
                         /\ <<l, bram_empty_bottoms[l]>> \notin Owned
  BY <1>12 DEF Inv, BTShape, BottomsFree
<1>15. CASE ~(leaf /\ bt.goal > 1)
  <2>1. Return("ok")
    BY <1>1, <1>15
  <2>2. /\ bt' \in BtCall /\ bt'.ret # "unexpected"
        /\ WalkTrue' /\ InsertTrue' /\ DeleteTrue'
    BY <2>1, ReturnFacts
  <2>3. bram_empty_bottoms' = bram_empty_bottoms
    BY <1>1, <1>2, <1>3, <1>4, <1>15, GiveBackFacts
  <2>4. BTrieTypeOK'
    BY <1>1, <1>8, <1>10, <2>2, <2>3 DEF Inv, BTrieTypeOK
  <2>5. BottomsFree'
    BY <1>1, <1>11, <1>14, <2>3 DEF BottomsFree, EmptyTops
  <2>6. \A a \in Owned : bram'[a] = Empty => IsEntryPoint(a)
    BY <1>2, <1>4, <1>7, <1>8, <1>13, <1>15 DEF Owned
  <2>7. NodesMarked'
    BY <1>11, <2>6 DEF NodesMarked
  <2> QED BY <1>11, <2>2, <2>4, <2>5, <2>7 DEF Inv, BTShape
<1>16. CASE leaf /\ bt.goal > 1
  <2>1. bt' = Find("parent_find", bt.prefix, 0, bt.goal - 1, bt.at[2]) /\ GiveBack(bt.at)
    BY <1>1, <1>16
  <2>2. bt.goal - 1 \in 1 .. Len(bt.prefix) /\ bt.goal - 1 \in Nat
        /\ bt.goal - 1 < Len(bt.prefix) /\ bt.goal - 1 + 1 = bt.goal
    BY <1>2, <1>16
  <2>3. /\ bt'.ret = "none" /\ bt'.prefix = bt.prefix /\ bt'.len = 0 /\ bt'.pc = "parent_find"
        /\ bt'.goal = bt.goal - 1 /\ bt'.child = bt.at[2] /\ bt' \in BtCall
    BY <1>2, <1>3, <2>1, <2>2 DEF Find, BtCall, Pcs
  <2>4. Deleting' /\ Freed' = bt.at
    BY <1>3, <2>2, <2>3 DEF Deleting, Freed
  <2>5. WalkTrue' /\ InsertTrue'
    BY <2>2, <2>3 DEF WalkTrue, InsertTrue
  <2>6. DeleteTrue'
    <3>1. PICK u \in Addrs : LeadsTo(u, bt.prefix, bt.goal - 1, bt.at[2])
      BY <1>1, <1>16 DEF Inv, BTShape, DeleteTrue
    <3>2. u \in Owned' /\ owner'[u] = Cut(bt.prefix, bt.goal - 1)
          /\ Child(bram'[u], bt.prefix[bt.goal - 1 + 1]) = bt.at[2]
      <4>1. bt.prefix[bt.goal - 1 + 1] \in Bit
        BY <1>2, <2>2
      <4> QED BY <1>1, <1>9, <1>11, <3>1, <4>1 DEF LeadsTo
    <3>3. (\E v \in Addrs : LeadsTo(v, bt.prefix, bt.goal, bt.child))'
      BY <2>3, <3>2 DEF LeadsTo
    <3>4. (Freed \in Addrs => owner[Freed] = Cut(bt.prefix, bt.goal + 1)
                           /\ bram[Freed] = Empty)'
      BY <1>1, <1>3, <1>6, <1>8, <1>16, <2>2, <2>3, <2>4
    <3> QED BY <1>3, <2>2, <2>3, <3>3, <3>4 DEF DeleteTrue
  <2>7. BTrieTypeOK'
    BY <1>1, <1>3, <1>8, <1>10, <2>1, <2>3, GiveBackFacts DEF Inv, BTrieTypeOK
  <2>8. BottomsFree'
    <3>1. ASSUME NEW l \in Levels
          PROVE  /\ bram_empty_bottoms'[l] =< bram_tops'[l]
                 /\ bram_empty_bottoms'[l] >= EmptyTops[l]
                 /\ <<l, bram_empty_bottoms'[l]>> \in Owned =>
                      <<l, bram_empty_bottoms'[l]>> = bt.at
      BY <1>1, <1>3, <1>14, <2>1, GiveBackFacts
    <3> QED BY <1>11, <2>4, <3>1 DEF BottomsFree, EmptyTops
  <2>9. NodesMarked'
    BY <1>11, <1>13, <2>4 DEF NodesMarked
  <2>10. bt'.ret # "unexpected"
    BY <2>3
  <2> QED BY <1>11, <2>5, <2>6, <2>7, <2>8, <2>9, <2>10 DEF Inv, BTShape
<1> QED BY <1>15, <1>16

\* The word a parent keeps when its child goes.
LEMMA UnlinkedFacts ==
  ASSUME NEW w \in Word, NEW b \in Bit
  PROVE  /\ Unlinked(w, b) \in Word /\ Child(Unlinked(w, b), b) = 0
         /\ \A d \in Bit \ {b} : Child(Unlinked(w, b), d) = Child(w, d)
         /\ ~Unlinked(w, b).valid /\ IsLeaf(Unlinked(w, b)) <=> Unlinked(w, b) = Empty
<1> DEFINE x == [w EXCEPT !.next_hop = IF w.valid THEN w.next_hop ELSE 0]
           y == WithChild(x, b, 0)
<1>1. x \in Word /\ (~x.valid => x.next_hop = 0)
      /\ \A d \in Bit : Child(x, d) = Child(w, d)
  BY DEF Word, Child
<1>2. 0 \in 0 .. CAP - 1 /\ Unlinked(w, b) = y
  BY ShapeAssumption DEF Unlinked
<1> HIDE DEF x
<1>3. /\ y \in Word /\ Child(y, b) = 0 /\ y.valid = x.valid /\ y.next_hop = x.next_hop
      /\ \A d \in Bit \ {b} : Child(y, d) = Child(x, d)
  BY <1>1, <1>2, WithChildType
<1> HIDE DEF y
<1>4. ~y.valid /\ IsLeaf(y) => y = Empty
  <2>1. ~y.valid /\ IsLeaf(y) => y.valid = FALSE /\ y.next_hop = 0 /\ y.lc = 0 /\ y.rc = 0
    BY <1>1, <1>3 DEF IsLeaf, Word
  <2> QED BY <1>3, <2>1 DEF Word, Empty
<1>5. y = Empty => ~y.valid /\ IsLeaf(y)
  BY DEF Empty, IsLeaf
<1> QED BY <1>1, <1>2, <1>3, <1>4, <1>5

\* The freed node is the only node of its path, and nothing is below it.
LEMMA FreedAlone ==
  ASSUME Inv, Deleting, NEW a \in Owned, a # Freed, Len(owner[a]) > bt.goal
  PROVE  Cut(owner[a], bt.goal + 1) # Cut(bt.prefix, bt.goal + 1)
<1> DEFINE n == bt.goal + 1
           q == Cut(bt.prefix, n)
<1> SUFFICES ASSUME Cut(owner[a], n) = q PROVE FALSE
  OBVIOUS
<1>1. /\ bt.prefix \in Seq(Bit) /\ Len(bt.prefix) \in Nat /\ bt.goal \in Nat \ {0}
      /\ n \in 1 .. Len(bt.prefix) /\ n \in 0 .. Len(bt.prefix) /\ bt.child \in 1 .. CAP - 1
      /\ Freed \in Addrs => owner[Freed] = q /\ bram[Freed] = Empty
  BY CallFacts DEF Deleting, Inv, BTShape, DeleteTrue
<1>2. q \in Seq(Bit) /\ Len(q) = n /\ q # <<>>
  BY <1>1, CutType
<1>3. owner[a] \in Seq(Bit) /\ Len(owner[a]) \in Nat /\ owner[a] # <<>>
  BY DEF Owned, Inv, BTrieTypeOK
<1>4. ASSUME NEW v \in Owned, owner[v] = q PROVE v = Freed /\ Freed \in Addrs
  <2>1. CASE Freed \in Addrs
    BY <1>1, <1>2, <1>4, <2>1 DEF Owned, Inv, BTShape, OwnersDistinct
  <2>2. CASE Freed \notin Addrs
    <3>1. v[1] = LevelOf(n) /\ v[1] \in 0 .. BT_LEVELS - 1
      BY <1>2, <1>4 DEF Inv, BTShape, OwnersPlaced, Owned, Addrs
    <3>2. Freed \in Addrs
      BY <1>1, <3>1, ShapeAssumption DEF Freed, Addrs
    <3> QED BY <2>2, <3>2
  <2> QED BY <2>1, <2>2
<1>5. CASE Len(owner[a]) = n
  <2>1. owner[a] = q
    BY <1>3, <1>5, CutFull
  <2> QED BY <1>4, <2>1
<1>6. CASE Len(owner[a]) # n
  <2>1. n \in 1 .. Len(owner[a]) - 1
    BY <1>1, <1>3, <1>6
  <2>2. PICK v \in Owned, c \in 1 .. CAP - 1 : LeadsTo(v, owner[a], n, c)
    BY <2>1 DEF Inv, BTShape, PathsLead
  <2>3. v = Freed /\ bram[v] = Empty
    BY <1>1, <1>4, <2>2 DEF LeadsTo
  <2>4. owner[a][n + 1] \in Bit
    BY <1>3, <2>1
  <2> QED BY <2>2, <2>3, <2>4, EmptyWord, ShapeAssumption DEF LeadsTo
<1> QED BY <1>5, <1>6

LEMMA UnlinkInv == ASSUME Inv, BTrieUnlink PROVE Inv'
<1> DEFINE b == bt.prefix[bt.goal + 1]
           par == Unlinked(WordAt(bt.at), b)
           f == Freed
           q == Cut(bt.prefix, bt.goal + 1)
           bare == ~IsEntryPoint(bt.at) /\ ~par.valid /\ IsLeaf(par)
<1>1. bt.pc = "unlink" /\ Deleting /\ bt.pc # "idle"
  BY DEF BTrieUnlink, Deleting
<1>2. /\ bt.prefix \in Seq(Bit) /\ Len(bt.prefix) \in Nat /\ bt.goal \in Nat \ {0}
      /\ bt.goal \in 1 .. Len(bt.prefix) - 1 /\ bt.len = bt.goal
      /\ bt.goal + 1 \in 1 .. Len(bt.prefix) /\ bt.child \in 1 .. CAP - 1
      /\ b \in Bit /\ bt.prefix \in Prefixes
  BY <1>1, CallFacts DEF Inv, BTShape, DeleteTrue
<1>3. /\ bt.at \in Owned /\ bt.at \in Addrs /\ Child(WordAt(bt.at), b) = bt.child
      /\ WordAt(bt.at) = bram[bt.at]
  BY <1>1, <1>2, ParentReached DEF Owned, WordAt
<1>4. /\ bt.at = <<LevelOf(bt.goal), bt.at[2]>> /\ bt.at[2] \in 1 .. CAP - 1
      /\ owner[bt.at] = Cut(bt.prefix, bt.goal) /\ LevelOf(bt.goal) \in Levels
      /\ bt.at \in Levels \X (1 .. CAP - 1)
  <2>1. bt.len > 0
    BY <1>2
  <2>2. /\ bt.at = <<LevelOf(bt.goal), bt.at[2]>> /\ bt.at[2] \in 1 .. CAP - 1
        /\ owner[bt.at] = Cut(bt.prefix, bt.goal)
    BY <1>1, <1>2, <1>3, <2>1, AtFacts
  <2>3. LevelOf(bt.goal) \in Levels
    BY <1>1, <1>2, CallFacts
  <2>4. <<LevelOf(bt.goal), bt.at[2]>> \in Levels \X (1 .. CAP - 1)
    BY <2>2, <2>3
  <2> QED BY <2>2, <2>3, <2>4
<1>5. IsEntryPoint(bt.at) <=> bt.goal = 1
  <2>1. bt.len > 0
    BY <1>2
  <2> QED BY <1>1, <1>2, <2>1, AtEntry
<1>6. /\ par \in Word /\ Child(par, b) = 0
      /\ \A d \in Bit \ {b} : Child(par, d) = Child(bram[bt.at], d)
      /\ ~par.valid /\ IsLeaf(par) <=> par = Empty
  <2>1. WordAt(bt.at) \in Word
    BY WordAtType DEF Inv
  <2> QED BY <1>2, <1>3, <2>1, UnlinkedFacts
<1>7. /\ Write(bt.at, par) /\ bram_tops' = bram_tops
      /\ owner' = IF f \in Addrs THEN [owner EXCEPT ![f] = <<>>] ELSE owner
      /\ IF bare THEN /\ GiveBack(bt.at)
                      /\ bt' = Find("parent_find", bt.prefix, 0, bt.goal - 1, bt.at[2])
                 ELSE /\ bram_empty_bottoms' = bram_empty_bottoms
                      /\ Return("ok")
  BY <1>2, <1>3 DEF BTrieUnlink
<1>8. /\ f \in Addrs => owner[f] = q /\ bram[f] = Empty
      /\ q \in Seq(Bit) /\ Len(q) = bt.goal + 1 /\ Len(owner[bt.at]) = bt.goal
      /\ Cut(q, bt.goal) = owner[bt.at] /\ q[bt.goal + 1] = b
  <2>1. f \in Addrs => owner[f] = q /\ bram[f] = Empty
    BY <1>1 DEF Inv, BTShape, DeleteTrue
  <2>2. bt.goal + 1 \in 0 .. Len(bt.prefix) /\ bt.goal \in 0 .. bt.goal + 1
        /\ bt.goal \in 0 .. Len(bt.prefix) /\ bt.goal + 1 \in 1 .. bt.goal + 1
    BY <1>2
  <2>3. q \in Seq(Bit) /\ Len(q) = bt.goal + 1 /\ q[bt.goal + 1] = b
    BY <1>2, <2>2, CutType
  <2>4. Len(owner[bt.at]) = bt.goal
    BY <1>2, <1>4, <2>2, CutType
  <2>5. Cut(q, bt.goal) = owner[bt.at]
    BY <1>2, <1>4, <2>2, CutCut
  <2> QED BY <2>1, <2>3, <2>4, <2>5
<1>9. f # bt.at
  BY <1>2, <1>3, <1>8
<1>10. /\ bram \in [Addrs -> Word] /\ owner \in [Addrs -> Seq(Bit)] /\ bt \in BtCall
       /\ bram_tops \in [Levels -> Nat] /\ bram_empty_bottoms \in [Levels -> Nat]
  BY DEF Inv, BTrieTypeOK
<1> HIDE DEF par, f, q, b
<1>11. /\ bram' \in [Addrs -> Word] /\ bram'[bt.at] = par
       /\ \A a \in Addrs : a # bt.at => bram'[a] = bram[a]
       /\ owner' \in [Addrs -> Seq(Bit)]
       /\ \A a \in Addrs : a # f => owner'[a] = owner[a]
       /\ f \in Addrs => owner'[f] = <<>>
  BY <1>3, <1>6, <1>7, <1>10 DEF Write
<1>12. /\ \A a : a \in Owned' <=> a \in Owned /\ a # f
       /\ \A a \in Owned : a \in Addrs /\ owner[a] \in Seq(Bit) /\ owner[a] # <<>>
  BY <1>10, <1>11 DEF Owned
<1>13. \A a \in Owned, d \in Bit : a # bt.at \/ d # b => Child(bram'[a], d) = Child(bram[a], d)
  BY <1>6, <1>11, <1>12
<1>14. OwnersPlaced' /\ OwnersDistinct'
  BY <1>7, <1>11, <1>12 DEF Inv, BTShape, OwnersPlaced, OwnersDistinct
<1>15. EntriesOwned'
  <2>1. /\ owner[<<0, 1>>] = <<0>> /\ owner[<<0, 2>>] = <<1>>
        /\ Len(<<0>>) = 1 /\ Len(<<1>>) = 1
    BY DEF Inv, BTShape, EntriesOwned
  <2>2. f \in Addrs => Len(owner[f]) >= 2
    <3>1. bt.goal + 1 \in 1 .. Len(bt.prefix) /\ bt.goal + 1 >= 2 /\ bt.prefix \in Seq(Bit)
      BY <1>2
    <3>2. Len(Cut(bt.prefix, bt.goal + 1)) = bt.goal + 1
      BY <3>1, CutType
    <3> QED BY <1>8, <3>1, <3>2
  <2>3. f # <<0, 1>> /\ f # <<0, 2>>
    BY <2>1, <2>2, EntryAddrs
  <2> QED BY <1>11, <2>1, <2>3, EntryAddrs DEF EntriesOwned
<1>16. LinksTrue'
  <2> SUFFICES ASSUME NEW a \in Owned', NEW d \in Bit,
                      Child(bram'[a], d) # 0,
                      <<LevelOf(Len(owner'[a]) + 1), Child(bram'[a], d)>> \in Addrs
               PROVE  owner'[<<LevelOf(Len(owner'[a]) + 1), Child(bram'[a], d)>>]
                        = Append(owner'[a], d)
    BY DEF LinksTrue
  <2> DEFINE next == <<LevelOf(Len(owner[a]) + 1), Child(bram[a], d)>>
  <2>1. a \in Owned /\ owner'[a] = owner[a]
    BY <1>11, <1>12
  <2>2. a # bt.at \/ d # b
    BY <1>6, <1>11
  <2>3. Child(bram'[a], d) = Child(bram[a], d)
    BY <1>13, <2>1, <2>2
  <2>4. owner[next] = Append(owner[a], d) /\ next \in Addrs
    BY <2>1, <2>3 DEF Inv, BTShape, LinksTrue
  <2>5. next # f
    <3> SUFFICES ASSUME next = f PROVE FALSE
      OBVIOUS
    <3>1. q = Append(owner[a], d)
      BY <1>8, <2>4
    <3>2. /\ Len(q) = Len(owner[a]) + 1 /\ q[Len(owner[a]) + 1] = d
          /\ Cut(q, Len(owner[a])) = Cut(owner[a], Len(owner[a]))
          /\ Len(owner[a]) \in Nat
      BY <1>12, <2>1, <3>1, CutAppend
    <3>3. Len(owner[a]) = bt.goal
      BY <1>2, <1>8, <3>2
    <3>4. owner[a] = owner[bt.at] /\ d = b
      BY <1>8, <1>12, <2>1, <3>2, <3>3, CutFull
    <3> QED BY <1>3, <2>1, <2>2, <3>4 DEF Inv, BTShape, OwnersDistinct
  <2> QED BY <1>11, <2>1, <2>3, <2>4, <2>5
<1>17. PathsLead'
  <2>1. ASSUME NEW a \in Owned, a # f, NEW k \in 1 .. Len(owner[a]) - 1
        PROVE  \E u \in Owned, c \in 1 .. CAP - 1 :
                 u # f /\ owner[u] = Cut(owner[a], k) /\ Child(bram'[u], owner[a][k + 1]) = c
    <3>1. PICK u \in Owned, c \in 1 .. CAP - 1 : LeadsTo(u, owner[a], k, c)
      BY DEF Inv, BTShape, PathsLead
    <3>2. owner[a] \in Seq(Bit) /\ owner[a][k + 1] \in Bit /\ k \in 0 .. Len(owner[a])
          /\ k \in 0 .. Len(owner[a]) - 1
      BY <1>12
    <3>3. u # f
      BY <1>8, <1>12, <3>1, <3>2, EmptyWord, ShapeAssumption DEF LeadsTo
    <3>4. u # bt.at \/ owner[a][k + 1] # b
      <4> SUFFICES ASSUME u = bt.at, owner[a][k + 1] = b PROVE FALSE
        OBVIOUS
      <4>1. owner[bt.at] = Cut(owner[a], k)
        BY <3>1 DEF LeadsTo
      <4>2. k = bt.goal
        BY <1>8, <3>2, <4>1, CutType
      <4>3. Cut(owner[a], k + 1) = Append(Cut(owner[a], k), b)
        BY <3>2, CutNext
      <4>4. Cut(bt.prefix, bt.goal + 1) = Append(Cut(bt.prefix, bt.goal), b)
        <5>1. bt.goal \in 0 .. Len(bt.prefix) - 1
          BY <1>2
        <5> QED BY <1>2, <5>1, CutNext DEF b
      <4>5. Cut(owner[a], bt.goal + 1) = Cut(bt.prefix, bt.goal + 1)
        BY <1>4, <4>1, <4>2, <4>3, <4>4
      <4>6. Len(owner[a]) > bt.goal
        BY <1>2, <1>12, <4>2
      <4> QED BY <1>1, <2>1, <4>5, <4>6, FreedAlone DEF f
    <3> QED BY <1>13, <3>1, <3>2, <3>3, <3>4 DEF LeadsTo
  <2>2. ASSUME NEW a \in Owned', NEW k \in 1 .. Len(owner'[a]) - 1
        PROVE  \E u \in Owned', c \in 1 .. CAP - 1 :
                 owner'[u] = Cut(owner'[a], k) /\ Child(bram'[u], owner'[a][k + 1]) = c
    <3>1. a \in Owned /\ a # f /\ owner'[a] = owner[a]
      BY <1>11, <1>12
    <3>2. PICK u \in Owned, c \in 1 .. CAP - 1 :
            u # f /\ owner[u] = Cut(owner[a], k) /\ Child(bram'[u], owner[a][k + 1]) = c
      BY <2>1, <3>1
    <3>3. u \in Owned' /\ owner'[u] = owner[u]
      BY <1>11, <1>12, <3>2
    <3> QED BY <3>1, <3>2, <3>3
  <2> QED BY <2>2 DEF PathsLead, LeadsTo
<1>18. \A a \in Owned' : a # bt.at /\ bram'[a] = Empty => IsEntryPoint(a)
  BY <1>11, <1>12 DEF Inv, BTShape, NodesMarked, f
<1>19. \A l \in Levels : /\ bram_empty_bottoms[l] =< bram_tops[l]
                         /\ bram_empty_bottoms[l] >= EmptyTops[l]
                         /\ <<l, bram_empty_bottoms[l]>> \notin Owned'
  BY <1>12 DEF Inv, BTShape, BottomsFree, f
<1>20. CASE ~bare
  <2>1. Return("ok") /\ bram_empty_bottoms' = bram_empty_bottoms
    BY <1>7, <1>20
  <2>2. /\ bt' \in BtCall /\ bt'.ret # "unexpected"
        /\ WalkTrue' /\ InsertTrue' /\ DeleteTrue'
    BY <2>1, ReturnFacts
  <2>3. BTrieTypeOK'
    BY <1>7, <1>10, <1>11, <2>1, <2>2 DEF BTrieTypeOK
  <2>4. BottomsFree'
    BY <1>7, <1>19, <2>1 DEF BottomsFree, EmptyTops
  <2>5. NodesMarked'
    BY <1>6, <1>11, <1>18, <1>20 DEF NodesMarked
  <2> QED BY <1>14, <1>15, <1>16, <1>17, <2>2, <2>3, <2>4, <2>5 DEF Inv, BTShape
<1>21. CASE bare
  <2>1. bt' = Find("parent_find", bt.prefix, 0, bt.goal - 1, bt.at[2]) /\ GiveBack(bt.at)
    BY <1>7, <1>21
  <2>2. bt.goal - 1 \in 1 .. Len(bt.prefix) /\ bt.goal - 1 \in Nat /\ bt.goal > 1
        /\ bt.goal - 1 < Len(bt.prefix) /\ bt.goal - 1 + 1 = bt.goal
    BY <1>2, <1>5, <1>21
  <2>3. /\ bt'.ret = "none" /\ bt'.prefix = bt.prefix /\ bt'.len = 0 /\ bt'.pc = "parent_find"
        /\ bt'.goal = bt.goal - 1 /\ bt'.child = bt.at[2] /\ bt' \in BtCall
    BY <1>2, <1>4, <2>1, <2>2 DEF Find, BtCall, Pcs
  <2>4. Deleting' /\ Freed' = bt.at
    BY <1>4, <2>2, <2>3 DEF Deleting, Freed
  <2>5. WalkTrue' /\ InsertTrue'
    BY <2>2, <2>3 DEF WalkTrue, InsertTrue
  <2>6. DeleteTrue'
    <3>1. PICK u \in Addrs : LeadsTo(u, bt.prefix, bt.goal - 1, bt.at[2])
      BY <1>1, <1>2, <2>2 DEF Inv, BTShape, DeleteTrue
    <3>2. u \in Owned /\ owner[u] = Cut(bt.prefix, bt.goal - 1) /\ Len(owner[u]) = bt.goal - 1
          /\ Child(bram[u], bt.prefix[bt.goal - 1 + 1]) = bt.at[2]
      <4>1. bt.goal - 1 \in 0 .. Len(bt.prefix)
        BY <1>2, <2>2
      <4> QED BY <1>2, <3>1, <4>1, CutType DEF LeadsTo
    <3>3. u # f /\ u # bt.at
      BY <1>2, <1>8, <1>12, <3>2
    <3>4. (\E v \in Addrs : LeadsTo(v, bt.prefix, bt.goal, bt.child))'
      BY <1>11, <1>12, <2>3, <3>2, <3>3 DEF LeadsTo
    <3>5. (Freed \in Addrs => owner[Freed] = Cut(bt.prefix, bt.goal + 1)
                           /\ bram[Freed] = Empty)'
      BY <1>3, <1>4, <1>6, <1>9, <1>11, <1>21, <2>2, <2>3, <2>4
    <3> QED BY <1>4, <2>2, <2>3, <3>4, <3>5 DEF DeleteTrue
  <2>7. BTrieTypeOK'
    BY <1>4, <1>7, <1>10, <1>11, <2>1, <2>3, GiveBackFacts DEF BTrieTypeOK
  <2>8. BottomsFree'
    <3>1. ASSUME NEW l \in Levels
          PROVE  /\ bram_empty_bottoms'[l] =< bram_tops'[l]
                 /\ bram_empty_bottoms'[l] >= EmptyTops[l]
                 /\ <<l, bram_empty_bottoms'[l]>> \in Owned' =>
                      <<l, bram_empty_bottoms'[l]>> = bt.at
      BY <1>4, <1>7, <1>19, <2>1, GiveBackFacts
    <3> QED BY <2>4, <3>1 DEF BottomsFree, EmptyTops
  <2>9. NodesMarked'
    BY <1>18, <2>4 DEF NodesMarked
  <2>10. bt'.ret # "unexpected"
    BY <2>3
  <2> QED BY <1>14, <1>15, <1>16, <1>17, <2>5, <2>6, <2>7, <2>8, <2>9, <2>10
          DEF Inv, BTShape
<1> QED BY <1>20, <1>21

-----------------------------------------------------------------------------

LEMMA StepInv == Inv /\ [BTrieNext]_btVars => Inv'
<1> SUFFICES ASSUME Inv, [BTrieNext]_btVars PROVE Inv'
  OBVIOUS
<1>1. CASE UNCHANGED btVars
  <2>1. UNCHANGED <<bram, bram_tops, bram_empty_bottoms, bt, owner>>
    BY <1>1 DEF btVars
  <2> QED BY <2>1 DEF Inv, BTrieTypeOK, BTShape, OwnersPlaced, OwnersDistinct, EntriesOwned,
            LinksTrue, PathsLead, BottomsFree, NodesMarked, WalkTrue, InsertTrue, DeleteTrue,
            Owned, LeadsTo, Deleting, Freed, WordAt
<1>2. CASE \E p \in Prefixes : BTrieDelete(p)
  BY <1>2, DeleteInv
<1>3. CASE \E p \in Prefixes, h \in Hops : BTrieInsert(p, h)
  BY <1>3, InsertInv
<1>4. CASE BTrieStep
  BY <1>4, WalkInv, NewInv, LinkInv, StoreInv, NotFoundInv, ClearInv, UnlinkInv
     DEF BTrieStep
<1>5. CASE BTrieInitBram
  BY <1>5, ResetInv
<1> QED BY <1>1, <1>2, <1>3, <1>4, <1>5 DEF BTrieNext

\* Every word, index and call of the binary trie stays in its range
\* (binary_trie.c:31-47): an insertion never hands out a slot past the RAM.
THEOREM BTrieTyped == BTrieSpec => []BTrieTypeOK
<1>1. Inv => BTrieTypeOK
  BY DEF Inv
<1> QED BY <1>1, InitInv, StepInv, PTL DEF BTrieSpec

\* The trie is in shape after every step of every call and of every reset:
\* one node for a path, one path for a node, no slot handed out twice, no
\* deletion that loses its way (binary_trie.c:50-61, 125-309).
THEOREM BTrieShaped == BTrieSpec => []BTShape
<1>1. Inv => BTShape
  BY DEF Inv
<1> QED BY <1>1, InitInv, StepInv, PTL DEF BTrieSpec

-----------------------------------------------------------------------------
(* Both tries. *)

CallFields ==
  vc = [pc |-> vc.pc, prefix |-> vc.prefix, hop |-> vc.hop, depth |-> vc.depth,
        at |-> vc.at, slot |-> vc.slot]
PassedOn ==
  vc.pc \in {"insert", "prefix", "hop", "excessive", "modify"} =>
    vc.prefix \in Prefixes /\ vc.hop \in Hops
VcInv == CallFields /\ PassedOn

LEMMA VcInitInv == Init => VcInv
BY DEF Init, VCTrieInit, VcIdle, VcInv, CallFields, PassedOn

LEMMA VcStepInv == VcInv /\ [Next]_vars => VcInv'
<1> SUFFICES ASSUME VcInv, [Next]_vars PROVE VcInv'
  OBVIOUS
<1> USE DEF VcInv, CallFields, PassedOn
<1>1. CASE vc' = vc
  BY <1>1
<1>2. CASE vc' = VcIdle
  BY <1>2 DEF VcIdle
<1>3. ASSUME NEW p \in Prefixes, NEW h \in Hops, TrieInsert(p, h) PROVE VcInv'
  BY <1>3 DEF TrieInsert, VCTrieInsert, VcIdle
<1>4. ASSUME NEW p \in Prefixes, NEW h \in Hops, TrieModify(p, h) PROVE VcInv'
  BY <1>1, <1>4 DEF TrieModify, VCEntryModify, VcIdle, vcVars
<1>5. ASSUME NEW p \in Prefixes, TrieDelete(p) PROVE VcInv'
  BY <1>1, <1>5 DEF TrieDelete, VCEntryInvalidate, VcIdle, vcVars
<1>6. CASE TrieInsertExcessive
  BY <1>2, <1>6 DEF TrieInsertExcessive
<1>7. CASE TrieInit \/ TrieAsk
  BY <1>1, <1>2, <1>7 DEF TrieInit, TrieAsk, VCTrieReset, vars, vcVars
<1>8. CASE VcStep
  <2>1. CASE VcDescend
    BY <2>1 DEF VcDescend
  <2>2. CASE VcExcessive
    BY <2>2 DEF VcExcessive
  <2>3. CASE VcPlaceLength
    BY <2>3 DEF VcPlaceLength
  <2>4. CASE VcPlacePrefix
    BY <2>4 DEF VcPlacePrefix
  <2>5. CASE VcPlaceHop \/ VcModifyHop \/ VcInvalidateHop
    BY <1>2, <2>5 DEF VcPlaceHop, VcModifyHop, VcInvalidateHop
  <2>6. CASE VcInvalidateLength
    BY <2>6 DEF VcInvalidateLength
  <2> QED BY <1>8, <2>1, <2>2, <2>3, <2>4, <2>5, <2>6 DEF VcStep
<1>9. CASE UNCHANGED vcVars \/ UNCHANGED vars
  BY <1>1, <1>9 DEF vcVars, vars
<1> QED BY <1>3, <1>4, <1>5, <1>6, <1>7, <1>8, <1>9 DEF Next

LEMMA StepsMap == VcInv /\ [Next]_vars => [BTrieNext]_btVars
<1> SUFFICES ASSUME VcInv, [Next]_vars PROVE [BTrieNext]_btVars
  OBVIOUS
<1>1. ASSUME NEW p \in Prefixes, NEW h \in Hops, TrieInsert(p, h) \/ TrieModify(p, h)
      PROVE  [BTrieNext]_btVars
  BY <1>1 DEF TrieInsert, TrieModify, BTrieNext
<1>2. ASSUME NEW p \in Prefixes, TrieDelete(p) PROVE [BTrieNext]_btVars
  BY <1>2 DEF TrieDelete, BTrieNext
<1>3. CASE TrieInsertExcessive
  BY <1>3 DEF TrieInsertExcessive, BTrieNext, VcInv, PassedOn
<1>4. CASE TrieInit
  BY <1>4 DEF TrieInit, BTrieNext
<1>5. CASE BTrieStep \/ UNCHANGED btVars \/ UNCHANGED vars
  BY <1>5 DEF BTrieNext, vars
<1> QED BY <1>1, <1>2, <1>3, <1>4, <1>5 DEF Next, TrieAsk

\* Whatever the variable-stride trie passes on, refuses or takes over, the
\* binary trie sees only calls of its own (tries.c:32-109): what is proved of
\* it alone holds where it is used.
THEOREM TriesImplementBTrie == Spec => BTrieSpec
<1>1. Init => BTrieInit
  BY DEF Init
<1> QED BY <1>1, VcInitInv, VcStepInv, StepsMap, PTL DEF Spec, BTrieSpec

\* The binary trie is in shape after every step of the firmware on either trie
\* and after every reset (tries.c:27-109, binary_trie.c:50-61, 125-309).
THEOREM TriesShaped == Spec => []BTShape
BY TriesImplementBTrie, BTrieShaped, PTL

-----------------------------------------------------------------------------
(* The types of both. *)

InPlace == {"prefix", "hop", "modify", "invalidate", "invalidate hop"}
Standing ==
  /\ vc.pc = "insert" => vc.depth =< Len(vc.prefix) + 1
  /\ vc.pc = "prefix" => vc.depth =< Len(vc.prefix)
  /\ vc.pc \in InPlace =>
       vc.at \in Nodes /\ vc.at # Root /\ vc.slot \in Slots(vc.at[1])
TriesInv == /\ VcTypeOK /\ VcInv /\ Standing
            /\ filed \subseteq Prefixes /\ warm \in BOOLEAN

LEMMA BinSlots ==
  ASSUME VcTypeOK, NEW n, NEW i \in DOMAIN BinOf(n)
  PROVE  /\ n \in Nodes /\ n # Root /\ i \in Slots(n[1]) /\ i \in Nat
         /\ BinOf(n) = vcbram[n].bin
<1>1. n # Root
  BY DEF BinOf
<1>2. n \in Nodes
  BY <1>1 DEF BinOf, NodeAt
<1>3. BinOf(n) = vcbram[n].bin
  BY <1>1, <1>2 DEF BinOf, NodeAt
<1>4. i \in Slots(n[1])
  BY <1>2, <1>3 DEF VcTypeOK
<1>5. n[1] \in Stages
  BY <1>2 DEF Nodes
<1>6. i \in Nat
  BY <1>4, <1>5, VcShapeAssumption DEF Slots
<1> QED BY <1>1, <1>2, <1>3, <1>4, <1>6

\* A lookup that finds something takes the first match.
FirstMatch(p, m) ==
  m \in Matches(p) /\ \A o \in Matches(p) : m[1] < o[1] \/ (m[1] = o[1] /\ m[3] =< o[3])

LEMMA LookupFirst ==
  ASSUME VcTypeOK, NEW p \in Prefixes, InVcTrie(p)
  PROVE  \E m : /\ FirstMatch(p, m) /\ VCTrieLookup(p) = <<m[2], m[3]>>
               /\ m[2] \in Nodes /\ m[2] # Root /\ m[3] \in Slots(m[2][1])
<1> DEFINE found == Matches(p)
           First(m) == \A o \in found : m[1] < o[1] \/ (m[1] = o[1] /\ m[3] =< o[3])
           m == CHOOSE x \in found : First(x)
<1>1. found # {} /\ VCTrieLookup(p) = <<m[2], m[3]>>
  BY DEF InVcTrie, VCTrieLookup
<1>2. Len(p) \in Nat
  BY DepthOfPrefix
<1>3. \A x \in found : \E d \in 0 .. Len(p) : \E n : \E i \in DOMAIN BinOf(n) : x = <<d, n, i>>
  BY DEF Matches
<1>4. ASSUME NEW x \in found
      PROVE  /\ x[1] \in Nat /\ x[3] \in Nat
             /\ x[2] \in Nodes /\ x[2] # Root /\ x[3] \in Slots(x[2][1])
  <2>1. PICK d \in 0 .. Len(p) : \E n : \E i \in DOMAIN BinOf(n) : x = <<d, n, i>>
    BY <1>3
  <2>2. PICK n : \E i \in DOMAIN BinOf(n) : x = <<d, n, i>>
    BY <2>1
  <2>3. PICK i \in DOMAIN BinOf(n) : x = <<d, n, i>>
    BY <2>2
  <2>4. n \in Nodes /\ n # Root /\ i \in Slots(n[1]) /\ i \in Nat
    BY BinSlots
  <2> QED BY <1>2, <2>3, <2>4
<1> HIDE DEF found
<1>5. PICK a \in found : \A o \in found : a[1] =< o[1]
  <2> DEFINE S == {x[1] : x \in found}
  <2>1. S \subseteq Nat /\ S # {}
    BY <1>1, <1>4
  <2>2. PICK s \in S : \A t \in S : s =< t
    <3> HIDE DEF S
    <3> QED BY <2>1, LeastNat
  <2> QED BY <2>2
<1>6. PICK c \in found : c[1] = a[1] /\ \A o \in found : o[1] = a[1] => c[3] =< o[3]
  <2> DEFINE S == {x[3] : x \in {y \in found : y[1] = a[1]}}
  <2>1. S \subseteq Nat /\ S # {}
    BY <1>4
  <2>2. PICK s \in S : \A t \in S : s =< t
    <3> HIDE DEF S
    <3> QED BY <2>1, LeastNat
  <2> QED BY <2>2
<1>7. First(c)
  <2>1. ASSUME NEW o \in found PROVE c[1] < o[1] \/ (c[1] = o[1] /\ c[3] =< o[3])
    <3>1. c[1] =< o[1] /\ c[1] \in Nat /\ o[1] \in Nat
      BY <1>4, <1>5, <1>6
    <3>2. c[1] = o[1] => c[3] =< o[3]
      BY <1>6
    <3> QED BY <3>1, <3>2
  <2> QED BY <2>1
<1>8. m \in found
  BY <1>7
<1>9. First(m)
  BY <1>7
<1>10. m[2] \in Nodes /\ m[2] # Root /\ m[3] \in Slots(m[2][1])
  <2> HIDE DEF m
  <2> QED BY <1>4, <1>8
<1>11. FirstMatch(p, m)
  BY <1>8, <1>9 DEF FirstMatch, found
<1> HIDE DEF m
<1> QED BY <1>1, <1>10, <1>11

LEMMA LookupIn ==
  ASSUME VcTypeOK, NEW p \in Prefixes, InVcTrie(p)
  PROVE  /\ VCTrieLookup(p)[1] \in Nodes /\ VCTrieLookup(p)[1] # Root
         /\ VCTrieLookup(p)[2] \in Slots(VCTrieLookup(p)[1][1])
BY LookupFirst

LEMMA SetEntryType ==
  ASSUME VcTypeOK, vc.at \in Nodes, vc.slot \in Slots(vc.at[1]), NEW e \in Entry, SetEntry(e)
  PROVE  /\ DOMAIN vcbram' = Nodes
         /\ \A n \in Nodes : vcbram'[n] \in
              [lc : Nat, rc : Nat, bin : [Slots(n[1]) -> Entry]]
BY DEF SetEntry, VcTypeOK

LEMMA SlotEntry ==
  ASSUME VcTypeOK, vc.at \in Nodes, vc.slot \in Slots(vc.at[1]), vc.at # Root
  PROVE  BinOf(vc.at)[vc.slot] \in Entry
BY DEF VcTypeOK, BinOf, NodeAt

LEMMA TriesInitInv == Init => TriesInv
<1> SUFFICES ASSUME Init PROVE TriesInv
  OBVIOUS
<1>1. NoEntry \in Entry
  BY DEF NoEntry, Entry
<1>2. VcTypeOK
  BY <1>1, VcShapeAssumption
     DEF Init, VCTrieInit, VcIdle, Root, VcTypeOK, Stages
<1> QED BY <1>2, VcInitInv
        DEF Init, VCTrieInit, VcIdle, TriesInv, Standing, InPlace

LEMMA VcCallInv ==
  ASSUME TriesInv, [Next]_vars PROVE VcInv'
BY VcStepInv DEF TriesInv

LEMMA ModifyInv ==
  ASSUME TriesInv, NEW p \in Prefixes, InVcTrie(p), UNCHANGED <<vcbram, node_num>>,
         vc'.pc \in {"modify", "invalidate"},
         vc'.at = VCTrieLookup(p)[1], vc'.slot = VCTrieLookup(p)[2], vc'.depth = 0
  PROVE  VcTypeOK' /\ Standing'
<1>1. /\ vc'.at \in Nodes /\ vc'.at # Root /\ vc'.slot \in Slots(vc'.at[1])
  BY LookupIn DEF TriesInv
<1>2. vc'.at \in Stages \X Nat /\ vc'.slot \in Nat
  BY <1>1, VcShapeAssumption DEF Nodes, Slots
<1>3. VcTypeOK'
  <2>1. vcbram' = vcbram /\ node_num' = node_num
    OBVIOUS
  <2>2. /\ DOMAIN vcbram' = Nodes
        /\ \A n \in Nodes : vcbram'[n] \in
             [lc : Nat, rc : Nat, bin : [Slots(n[1]) -> Entry]]
    BY <2>1 DEF TriesInv, VcTypeOK
  <2>3. node_num' \in [Stages -> Nat] /\ \A s \in Stages : node_num'[s] < BRAM_DEPTHS[s]
    BY <2>1 DEF TriesInv, VcTypeOK
  <2>4. vc'.pc \in {"idle", "insert", "prefix", "hop", "excessive", "modify",
                      "invalidate", "invalidate hop"}
    BY Zenon
  <2>5. vc'.depth \in Nat
    BY SMT
  <2> QED BY <1>2, <2>2, <2>3, <2>4, <2>5, ZenonT(30) DEF VcTypeOK
<1>4. Standing'
  BY <1>1 DEF Standing, InPlace
<1> QED BY <1>3, <1>4

LEMMA IdleInv ==
  ASSUME TriesInv, vc' = VcIdle, UNCHANGED node_num, 
         DOMAIN vcbram' = Nodes,
         \A n \in Nodes : vcbram'[n] \in [lc : Nat, rc : Nat, bin : [Slots(n[1]) -> Entry]]
  PROVE  VcTypeOK' /\ Standing'
<1>1. /\ vc'.pc = "idle" /\ vc'.at = <<0, 0>> /\ vc'.slot = 0 /\ vc'.depth = 0
  BY DEF VcIdle, Root
<1>2. <<0, 0>> \in Stages \X Nat
  BY VcShapeAssumption DEF Stages
<1>3. VcTypeOK'
  BY <1>1, <1>2 DEF TriesInv, VcTypeOK
<1>4. Standing'
  BY <1>1 DEF Standing, InPlace
<1> QED BY <1>3, <1>4

LEMMA WriteInv ==
  ASSUME TriesInv, UNCHANGED node_num, vc.pc \in InPlace, NEW e \in Entry, SetEntry(e),
         vc' = VcIdle \/ \E pc \in {"hop", "invalidate hop"} : vc' = [vc EXCEPT !.pc = pc]
  PROVE  VcTypeOK' /\ Standing'
<1>1. /\ DOMAIN vcbram' = Nodes
      /\ \A n \in Nodes : vcbram'[n] \in [lc : Nat, rc : Nat, bin : [Slots(n[1]) -> Entry]]
  BY SetEntryType DEF TriesInv, Standing
<1>2. CASE vc' = VcIdle
  BY <1>1, <1>2, IdleInv
<1>3. ASSUME NEW pc \in {"hop", "invalidate hop"}, vc' = [vc EXCEPT !.pc = pc]
      PROVE  VcTypeOK' /\ Standing'
  <2>1. /\ vc'.pc = pc /\ vc'.at = vc.at /\ vc'.slot = vc.slot /\ vc'.depth = vc.depth
    BY <1>3 DEF TriesInv, VcInv, CallFields
  <2> QED BY <1>1, <2>1 DEF TriesInv, VcTypeOK, Standing, InPlace
<1> QED BY <1>2, <1>3

LEMMA StandStill ==
  ASSUME TriesInv, UNCHANGED vcVars PROVE VcTypeOK' /\ Standing'
<1>1. vcbram' = vcbram /\ node_num' = node_num /\ vc' = vc
  BY DEF vcVars
<1> QED BY <1>1 DEF TriesInv, VcTypeOK, Standing

LEMMA ResetTypes ==
  ASSUME TriesInv, VCTrieReset PROVE VcTypeOK' /\ Standing'
<1>1. /\ DOMAIN vcbram' = Nodes
      /\ \A n \in Nodes : vcbram'[n] \in [lc : Nat, rc : Nat, bin : [Slots(n[1]) -> Entry]]
  BY DEF TriesInv, VCTrieReset, VcTypeOK
<1>2. node_num' \in [Stages -> Nat] /\ \A s \in Stages : node_num'[s] < BRAM_DEPTHS[s]
  BY VcShapeAssumption DEF VCTrieReset
<1>3. /\ vc'.pc = "idle" /\ vc'.at = <<0, 0>> /\ vc'.slot = 0 /\ vc'.depth = 0
  BY DEF VCTrieReset, VcIdle, Root
<1>4. <<0, 0>> \in Stages \X Nat
  BY VcShapeAssumption DEF Stages
<1>5. VcTypeOK'
  BY <1>1, <1>2, <1>3, <1>4 DEF VcTypeOK
<1> QED BY <1>3, <1>5 DEF Standing, InPlace

LEMMA InsertTypes ==
  ASSUME TriesInv, NEW p \in Prefixes, NEW h \in Hops, VCTrieInsert(p, h)
  PROVE  VcTypeOK' /\ Standing'
<1>1. /\ DOMAIN vcbram' = Nodes
      /\ \A n \in Nodes : vcbram'[n] \in [lc : Nat, rc : Nat, bin : [Slots(n[1]) -> Entry]]
      /\ node_num' \in [Stages -> Nat] /\ \A s \in Stages : node_num'[s] < BRAM_DEPTHS[s]
  BY DEF TriesInv, VCTrieInsert, VcTypeOK
<1>2. /\ vc'.pc = "insert" /\ vc'.at = <<0, 0>> /\ vc'.slot = 0 /\ vc'.depth = 0
      /\ vc'.prefix = p
  BY DEF VCTrieInsert, VcIdle, Root
<1>3. <<0, 0>> \in Stages \X Nat
  BY VcShapeAssumption DEF Stages
<1>4. VcTypeOK'
  BY <1>1, <1>2, <1>3 DEF VcTypeOK
<1>5. Len(p) \in Nat
  BY DepthOfPrefix
<1> QED BY <1>2, <1>4, <1>5 DEF Standing, InPlace

LEMMA DescendBound ==
  ASSUME TriesInv, vc.pc = "insert", MustDescend
  PROVE  vc.depth =< Len(vc.prefix) /\ vc.depth \in Nat /\ NextStage \in Stages
<1>1. vc.prefix \in VcPrefixes /\ vc.depth \in Nat /\ vc.depth =< Len(vc.prefix) + 1
  BY SameAssumption DEF TriesInv, VcInv, PassedOn, VcTypeOK, Standing
<1> DEFINE top == VC_LEVELS * VC_STRIDE
<1>2. Len(vc.prefix) \in Nat /\ Len(vc.prefix) + 1 =< top /\ top \in Nat
  BY <1>1, VcPrefixesAssumption, VcShapeAssumption
<1>3. vc.depth =< Len(vc.prefix)
  BY <1>1, <1>2, VcShapeAssumption DEF MustDescend, TooHigh
<1>4. NextStage = LevelOf(vc.depth + 1) /\ VC_LEVELS = LEVELS /\ VC_STRIDE = STRIDE
  BY SameAssumption DEF NextStage, StageOf, LevelOf
<1>5. vc.depth + 1 =< LEVELS * STRIDE
  <2>1. vc.depth + 1 =< top
    <3> HIDE DEF top
    <3> QED BY <1>1, <1>2, <1>3
  <2> QED BY <1>4, <2>1
<1>6. LevelOf(vc.depth + 1) \in Levels
  BY <1>1, <1>5, LevelBound
<1> QED BY <1>1, <1>3, <1>4, <1>6 DEF Levels, Stages

LEMMA ChildNat ==
  ASSUME VcTypeOK, NEW n, NEW b \in Bit PROVE GetChild(n, b) \in Nat
<1>1. CASE n = Root
  BY <1>1 DEF GetChild, Bit
<1>2. CASE n # Root /\ n \in Nodes
  BY <1>2 DEF GetChild, NodeAt, VcTypeOK
<1>3. CASE n # Root /\ n \notin Nodes
  BY <1>3 DEF GetChild, NodeAt
<1> QED BY <1>1, <1>2, <1>3

LEMMA DescendTypes ==
  ASSUME TriesInv, VcDescend PROVE VcTypeOK' /\ Standing'
<1> DEFINE c == GetChild(vc.at, NextBit)
           new == node_num[NextStage] + 1
<1>1. /\ vc.pc = "insert" /\ MustDescend
      /\ vc.depth =< Len(vc.prefix) /\ vc.depth \in Nat /\ NextStage \in Stages
  BY DescendBound DEF VcDescend
<1>2. vc.prefix \in Seq(Bit) /\ Len(vc.prefix) \in Nat
  BY <1>1, DepthOfPrefix DEF TriesInv, VcInv, PassedOn
<1>3. NextBit \in Bit
  BY <1>1, <1>2 DEF NextBit, BitOf, Bit
<1>4. c \in Nat /\ new \in Nat
  BY <1>1, <1>3, ChildNat DEF TriesInv, VcTypeOK
<1>5. /\ DOMAIN vcbram' = Nodes
      /\ \A n \in Nodes : vcbram'[n] \in [lc : Nat, rc : Nat, bin : [Slots(n[1]) -> Entry]]
  <2>1. CASE vcbram' = vcbram
    BY <2>1 DEF TriesInv, VcTypeOK
  <2>2. CASE vc.at \in Nodes /\ vcbram' = [vcbram EXCEPT ![vc.at].lc = new]
    BY <1>4, <2>2 DEF TriesInv, VcTypeOK
  <2>3. CASE vc.at \in Nodes /\ vcbram' = [vcbram EXCEPT ![vc.at].rc = new]
    BY <1>4, <2>3 DEF TriesInv, VcTypeOK
  <2> QED BY <2>1, <2>2, <2>3 DEF VcDescend
<1>6. node_num' \in [Stages -> Nat] /\ \A s \in Stages : node_num'[s] < BRAM_DEPTHS[s]
  <2>1. CASE node_num' = node_num
    BY <2>1 DEF TriesInv, VcTypeOK
  <2>2. CASE ~NoRoom /\ node_num' = [node_num EXCEPT ![NextStage] = new]
    <3>1. BRAM_DEPTHS[NextStage] \in Nat /\ new < BRAM_DEPTHS[NextStage]
      BY <1>1, <1>4, <2>2, VcShapeAssumption DEF NoRoom
    <3> QED BY <1>1, <1>4, <2>2, <3>1 DEF TriesInv, VcTypeOK
  <2> QED BY <2>1, <2>2 DEF VcDescend
<1>7. \E k \in Nat : vc' = [vc EXCEPT !.at = <<NextStage, k>>, !.depth = @ + 1]
  BY <1>4 DEF VcDescend
<1>8. /\ vc'.pc = "insert" /\ vc'.slot = vc.slot /\ vc'.depth = vc.depth + 1
      /\ vc'.prefix = vc.prefix /\ vc'.at \in Stages \X Nat
  BY <1>1, <1>7 DEF TriesInv, VcInv, CallFields
<1>9. vc'.slot \in Nat /\ vc'.depth \in Nat
  BY <1>1, <1>8 DEF TriesInv, VcTypeOK
<1>10. VcTypeOK'
  BY <1>5, <1>6, <1>8, <1>9 DEF VcTypeOK
<1>11. Standing'
  BY <1>1, <1>2, <1>8 DEF Standing, InPlace
<1> QED BY <1>10, <1>11

LEMMA PlaceFacts ==
  ASSUME TriesInv, vc.pc = "insert", ~MustDescend, vc.depth =< Len(vc.prefix),
         NEW i \in FreeSlots
  PROVE  /\ vc.at \in Nodes /\ vc.at # Root /\ i \in Slots(vc.at[1]) /\ i \in Nat
         /\ BinOf(vc.at) = vcbram[vc.at].bin
         /\ Len(vc.prefix) - vc.depth \in 0 .. MAX_PREFIX_LEN
<1>1. i \in DOMAIN BinOf(vc.at)
  BY DEF FreeSlots
<1>2. Len(vc.prefix) \in Nat /\ vc.depth \in Nat
  BY DepthOfPrefix DEF TriesInv, VcInv, PassedOn, VcTypeOK
<1>3. ~(Len(vc.prefix) > vc.depth + MAX_PREFIX_LEN)
  BY DEF MustDescend, TooHigh
<1>4. Len(vc.prefix) - vc.depth \in 0 .. MAX_PREFIX_LEN
  BY <1>2, <1>3, VcShapeAssumption DEF INVALID
<1> QED BY <1>1, <1>4, BinSlots DEF TriesInv

LEMMA LeastFree ==
  ASSUME TriesInv, FreeSlots # {}
  PROVE  (CHOOSE i \in FreeSlots : \A j \in FreeSlots : i =< j) \in FreeSlots
<1>1. \A i \in FreeSlots : i \in Nat
  BY BinSlots DEF TriesInv, FreeSlots
<1>2. \E i \in FreeSlots : \A j \in FreeSlots : i =< j
  BY <1>1, LeastNat
<1> QED BY <1>2

LEMMA PlaceTypes ==
  ASSUME TriesInv, VcPlaceLength PROVE VcTypeOK' /\ Standing'
<1> DEFINE i == CHOOSE i \in FreeSlots : \A j \in FreeSlots : i =< j
           len == Len(vc.prefix) - vc.depth
<1>1. /\ vc.pc = "insert" /\ ~MustDescend /\ vc.depth =< Len(vc.prefix)
      /\ vcbram' = [vcbram EXCEPT ![vc.at].bin[i].length = len]
      /\ vc' = [vc EXCEPT !.pc = "prefix", !.slot = i]
      /\ node_num' = node_num
  BY DEF VcPlaceLength
<1>2. i \in FreeSlots
  BY <1>1, LeastFree DEF MustDescend
<1> HIDE DEF i
<1>3. /\ vc.at \in Nodes /\ vc.at # Root /\ i \in Slots(vc.at[1]) /\ i \in Nat
      /\ len \in 0 .. MAX_PREFIX_LEN
  BY <1>1, <1>2, PlaceFacts
<1> HIDE DEF len
<1>4. vcbram[vc.at].bin[i] \in Entry
  BY <1>3 DEF TriesInv, VcTypeOK
<1>5. [vcbram[vc.at].bin[i] EXCEPT !.length = len] \in Entry
  BY <1>3, <1>4 DEF Entry
<1>6. vcbram' = [vcbram EXCEPT ![vc.at].bin[i] = [vcbram[vc.at].bin[i] EXCEPT !.length = len]]
  BY <1>1
<1>7. /\ DOMAIN vcbram' = Nodes
      /\ \A n \in Nodes : vcbram'[n] \in [lc : Nat, rc : Nat, bin : [Slots(n[1]) -> Entry]]
  BY <1>3, <1>5, <1>6 DEF TriesInv, VcTypeOK
<1>8. /\ vc'.pc = "prefix" /\ vc'.slot = i /\ vc'.at = vc.at /\ vc'.depth = vc.depth
      /\ vc'.prefix = vc.prefix
  BY <1>1 DEF TriesInv, VcInv, CallFields
<1>9. VcTypeOK'
  BY <1>1, <1>3, <1>7, <1>8 DEF TriesInv, VcTypeOK
<1> QED BY <1>1, <1>3, <1>8, <1>9 DEF Standing, InPlace

LEMMA PlacePrefixTypes ==
  ASSUME TriesInv, VcPlacePrefix PROVE VcTypeOK' /\ Standing'
<1>1. /\ vc.pc = "prefix" /\ vc.pc \in InPlace /\ vc.depth =< Len(vc.prefix)
      /\ vc.at \in Nodes /\ vc.at # Root /\ vc.slot \in Slots(vc.at[1])
  BY DEF VcPlacePrefix, TriesInv, Standing, InPlace
<1>2. BinOf(vc.at)[vc.slot] \in Entry
  BY <1>1, SlotEntry DEF TriesInv
<1>3. vc.prefix \in Seq(Bit) /\ Len(vc.prefix) \in Nat /\ vc.depth \in Nat
  BY <1>1, DepthOfPrefix DEF TriesInv, VcInv, PassedOn, VcTypeOK
<1>4. Below(vc.prefix, vc.depth) \in Seq({0, 1})
  BY <1>3 DEF Below, Bit
<1>5. [BinOf(vc.at)[vc.slot] EXCEPT !.prefix = Below(vc.prefix, vc.depth)] \in Entry
  BY <1>2, <1>4 DEF Entry
<1> QED BY <1>1, <1>5, WriteInv DEF VcPlacePrefix

LEMMA HopTypes ==
  ASSUME TriesInv, VcPlaceHop \/ VcModifyHop PROVE VcTypeOK' /\ Standing'
<1>1. /\ vc.pc \in {"hop", "modify"} /\ vc.pc \in InPlace
      /\ vc.at \in Nodes /\ vc.at # Root /\ vc.slot \in Slots(vc.at[1])
  BY DEF VcPlaceHop, VcModifyHop, TriesInv, Standing, InPlace
<1>2. BinOf(vc.at)[vc.slot] \in Entry /\ vc.hop \in VcHops
  BY <1>1, SlotEntry, SameAssumption DEF TriesInv, VcInv, PassedOn
<1>3. [BinOf(vc.at)[vc.slot] EXCEPT !.next_hop = vc.hop] \in Entry
  BY <1>2 DEF Entry
<1> QED BY <1>1, <1>3, WriteInv DEF VcPlaceHop, VcModifyHop

LEMMA InvalidateTypes ==
  ASSUME TriesInv, VcInvalidateLength \/ VcInvalidateHop PROVE VcTypeOK' /\ Standing'
<1>1. /\ vc.pc \in InPlace
      /\ vc.at \in Nodes /\ vc.at # Root /\ vc.slot \in Slots(vc.at[1])
  BY DEF VcInvalidateLength, VcInvalidateHop, TriesInv, Standing, InPlace
<1>2. BinOf(vc.at)[vc.slot] \in Entry
  BY <1>1, SlotEntry DEF TriesInv
<1>3. /\ [BinOf(vc.at)[vc.slot] EXCEPT !.length = INVALID] \in Entry
      /\ [BinOf(vc.at)[vc.slot] EXCEPT !.next_hop = INVALID] \in Entry
  BY <1>2 DEF Entry
<1>4. CASE VcInvalidateLength
  BY <1>1, <1>3, <1>4, WriteInv DEF VcInvalidateLength
<1>5. CASE VcInvalidateHop
  BY <1>1, <1>3, <1>5, WriteInv DEF VcInvalidateHop
<1> QED BY <1>4, <1>5

LEMMA VcTypesStep ==
  ASSUME TriesInv, [Next]_vars PROVE VcTypeOK' /\ Standing'
<1>1. ASSUME NEW p \in Prefixes, NEW h \in Hops, TrieInsert(p, h) PROVE VcTypeOK' /\ Standing'
  BY <1>1, InsertTypes DEF TrieInsert
<1>2. ASSUME NEW p \in Prefixes, NEW h \in Hops, TrieModify(p, h) PROVE VcTypeOK' /\ Standing'
  <2>1. CASE UNCHANGED vcVars
    BY <2>1, StandStill
  <2>2. CASE InVcTrie(p) /\ VCEntryModify(p, h, VCTrieLookup(p))
    <3>1. /\ vc'.pc = "modify" /\ vc'.depth = 0
          /\ vc'.at = VCTrieLookup(p)[1] /\ vc'.slot = VCTrieLookup(p)[2]
      BY <2>2 DEF VCEntryModify, VcIdle
    <3> QED BY <2>2, <3>1, ModifyInv DEF VCEntryModify
  <2> QED BY <1>2, <2>1, <2>2 DEF TrieModify
<1>3. ASSUME NEW p \in Prefixes, TrieDelete(p) PROVE VcTypeOK' /\ Standing'
  <2>1. CASE UNCHANGED vcVars
    BY <2>1, StandStill
  <2>2. CASE InVcTrie(p) /\ VCEntryInvalidate(p, VCTrieLookup(p))
    <3>1. /\ vc'.pc = "invalidate" /\ vc'.depth = 0
          /\ vc'.at = VCTrieLookup(p)[1] /\ vc'.slot = VCTrieLookup(p)[2]
      BY <2>2 DEF VCEntryInvalidate, VcIdle
    <3> QED BY <2>2, <3>1, ModifyInv DEF VCEntryInvalidate
  <2> QED BY <1>3, <2>1, <2>2 DEF TrieDelete
<1>4. CASE TrieInsertExcessive
  <2>1. vc' = VcIdle /\ vcbram' = vcbram /\ node_num' = node_num
    BY <1>4 DEF TrieInsertExcessive
  <2>2. /\ DOMAIN vcbram' = Nodes
        /\ \A n \in Nodes : vcbram'[n] \in
             [lc : Nat, rc : Nat, bin : [Slots(n[1]) -> Entry]]
    BY <2>1 DEF TriesInv, VcTypeOK
  <2> QED BY <2>1, <2>2, IdleInv
<1>5. CASE VcExcessive
  <2>1. /\ vc' = [vc EXCEPT !.pc = "excessive"] /\ vcbram' = vcbram /\ node_num' = node_num
    BY <1>5 DEF VcExcessive
  <2>2. /\ vc'.pc = "excessive" /\ vc'.at = vc.at /\ vc'.slot = vc.slot
        /\ vc'.depth = vc.depth
    BY <2>1 DEF TriesInv, VcInv, CallFields
  <2>3. VcTypeOK'
    BY <2>1, <2>2 DEF TriesInv, VcTypeOK
  <2> QED BY <2>2, <2>3 DEF Standing, InPlace
<1>6. CASE VcStep
  BY <1>5, <1>6, DescendTypes, PlaceTypes, PlacePrefixTypes, HopTypes, InvalidateTypes
     DEF VcStep
<1>7. CASE TrieInit
  BY <1>7, ResetTypes DEF TrieInit
<1>8. CASE UNCHANGED vcVars \/ UNCHANGED vars \/ TrieAsk
  BY <1>8, StandStill DEF vars, TrieAsk
<1> QED BY <1>1, <1>2, <1>3, <1>4, <1>6, <1>7, <1>8 DEF Next

LEMMA FiledStep ==
  ASSUME TriesInv, Inv, [Next]_vars PROVE filed' \subseteq Prefixes /\ warm' \in BOOLEAN
<1>1. filed \subseteq Prefixes /\ warm \in BOOLEAN
  BY DEF TriesInv
<1>2. CASE filed' = filed /\ warm' \in {warm, TRUE}
  BY <1>1, <1>2
<1>3. CASE BTrieStep /\ BTrieReturns /\ UNCHANGED <<vcVars, warm>>
  <2>1. bt.pc = "insert" => bt.prefix \in Prefixes
    <3>1. bt.pc = "insert" => bt.goal \in 1 .. Len(bt.prefix)
      BY DEF Inv, BTShape, WalkTrue
    <3>2. bt.prefix \in Prefixes \cup {<<>>}
      BY DEF Inv, BTrieTypeOK, BtCall
    <3> QED BY <3>1, <3>2
  <2> QED BY <1>1, <1>3, <2>1 DEF BTrieReturns
<1>4. CASE VcStep /\ VcReturns /\ UNCHANGED <<btVars, warm>>
  <2>1. vc.pc = "hop" => vc.prefix \in Prefixes
    BY DEF TriesInv, VcInv, PassedOn
  <2> QED BY <1>1, <1>4, <2>1 DEF VcReturns
<1>5. CASE \/ \E p \in Prefixes :
                TrieDelete(p) \/ \E h \in Hops : TrieInsert(p, h) \/ TrieModify(p, h)
           \/ TrieAsk \/ TrieInsertExcessive \/ TrieInit \/ UNCHANGED vars
  BY <1>2, <1>5 DEF TrieDelete, TrieInsert, TrieModify, TrieAsk, TrieInsertExcessive,
                    TrieInit, vars
<1> QED BY <1>3, <1>4, <1>5 DEF Next

\* Every word, entry, index and call of both tries has its type, and no RAM of
\* either hands out a node it does not have (vc_trie.cpp:212-228,
\* binary_trie.c:145-160), whatever a reset left in the nodes.
THEOREM TriesTyped == Spec => []TypeOK
<1>1. Spec => []Inv
  BY TriesImplementBTrie, InitInv, StepInv, PTL DEF BTrieSpec
<1>2. TriesInv /\ Inv /\ [Next]_vars => TriesInv'
  <2> SUFFICES ASSUME TriesInv, Inv, [Next]_vars PROVE TriesInv'
    OBVIOUS
  <2> QED BY VcCallInv, VcTypesStep, FiledStep DEF TriesInv
<1>3. TriesInv /\ Inv => TypeOK
  BY DEF TriesInv, Inv, TypeOK
<1> QED BY <1>1, <1>2, <1>3, TriesInitInv, PTL DEF Spec

-----------------------------------------------------------------------------
(* The binary trie as a map: the nodes a walk finds are the nodes that own  *)
(* their path.  The walk is a recursive function over the depth, which is  *)
(* reasoned about by its first depth that is not as claimed.               *)

\* What the walk adds at depth d.
Deeper(node, p, d) ==
  IF d = 1 THEN {<<0, EntryPoint(p[1])>>}
  ELSE {<<LevelOf(d), Child(WordAt(up), p[d])>> :
          up \in {n \in node[d - 1] : Child(WordAt(n), p[d]) # 0}}
IsWalk(node, p, k) == node = [d \in 1 .. k |-> Deeper(node, p, d)]

LEMMA DeeperSame ==
  ASSUME NEW f, NEW g, NEW p, NEW d, d = 1 \/ f[d - 1] = g[d - 1]
  PROVE  Deeper(f, p, d) = Deeper(g, p, d)
BY DEF Deeper

LEMMA WalkExists == ASSUME NEW p, NEW k \in Nat PROVE \E f : IsWalk(f, p, k)
<1> DEFINE S == {n \in Nat : ~\E f : IsWalk(f, p, n)}
<1> SUFFICES ASSUME S # {} PROVE FALSE
  OBVIOUS
<1>1. PICK n \in S : \A m \in S : n =< m
  <2> HIDE DEF S
  <2>1. \A x \in S : x \in Nat
    BY DEF S
  <2> QED BY <2>1, LeastNat
<1>2. n \in Nat /\ ~\E f : IsWalk(f, p, n)
  OBVIOUS
<1>3. IsWalk([d \in 1 .. 0 |-> {}], p, 0)
  BY DEF IsWalk
<1>4. n # 0
  BY <1>2, <1>3
<1>5. n - 1 \in Nat /\ n - 1 \notin S
  BY <1>1, <1>2, <1>4
<1>6. PICK g : IsWalk(g, p, n - 1)
  BY <1>5
<1> DEFINE f == [d \in 1 .. n |-> IF d = n THEN Deeper(g, p, n) ELSE g[d]]
<1>7. \A d \in 1 .. n : d = 1 \/ f[d - 1] = g[d - 1]
  BY <1>2, <1>5
<1>8. \A d \in 1 .. n : Deeper(f, p, d) = Deeper(g, p, d)
  <2> HIDE DEF f
  <2> QED BY <1>7, DeeperSame
<1>9. ASSUME NEW d \in 1 .. n PROVE f[d] = Deeper(g, p, d)
  <2>1. CASE d = n
    BY <2>1
  <2>2. CASE d # n
    <3>1. d \in 1 .. n - 1
      BY <1>2, <1>5, <2>2
    <3> QED BY <1>6, <2>2, <3>1 DEF IsWalk
  <2> QED BY <2>1, <2>2
<1>10. f = [d \in 1 .. n |-> Deeper(f, p, d)]
  <2>1. f = [d \in 1 .. n |-> f[d]]
    OBVIOUS
  <2> HIDE DEF f
  <2> QED BY <1>8, <1>9, <2>1
<1> QED BY <1>2, <1>10 DEF IsWalk

LEMMA NodeOfIs ==
  ASSUME NEW p, Len(p) \in Nat
  PROVE  \E f : IsWalk(f, p, Len(p)) /\ NodeOf(p) = f[Len(p)]
<1> DEFINE f == CHOOSE f : IsWalk(f, p, Len(p))
<1>1. IsWalk(f, p, Len(p))
  BY WalkExists
<1>2. NodeOf(p) = f[Len(p)]
  BY DEF NodeOf, IsWalk, Deeper
<1> QED BY <1>1, <1>2

LEMMA KeptFacts ==
  ASSUME NEW p \in Kept
  PROVE  /\ p \in Prefixes /\ p \in Seq(Bit) /\ Len(p) \in Nat \ {0}
         /\ \A d \in 1 .. Len(p) : LevelOf(d) \in 0 .. BT_LEVELS - 1
<1>1. p \in Prefixes /\ p \in Seq(Bit) /\ Len(p) \in Nat \ {0}
  BY DepthOfPrefix DEF Kept
<1>2. Len(p) =< BT_LEVELS * STRIDE /\ BT_LEVELS * STRIDE \in Nat
  BY ShapeAssumption DEF Kept
<1>3. ASSUME NEW d \in Nat \ {0}, d =< BT_LEVELS * STRIDE PROVE LevelOf(d) \in 0 .. BT_LEVELS - 1
  BY <1>3, ShapeAssumption DEF LevelOf
<1> QED BY <1>1, <1>2, <1>3

LEMMA NodesOwn ==
  ASSUME Inv, NEW p \in Seq(Bit), Len(p) \in Nat \ {0},
         \A d \in 1 .. Len(p) : LevelOf(d) \in 0 .. BT_LEVELS - 1
  PROVE  NodeOf(p) = {a \in Owned : owner[a] = p}
<1> DEFINE At(d) == {a \in Owned : owner[a] = Cut(p, d)}
<1>1. /\ p \in Seq(Bit) /\ Len(p) \in Nat \ {0}
      /\ \A d \in 1 .. Len(p) : LevelOf(d) \in 0 .. BT_LEVELS - 1 /\ p[d] \in Bit
  OBVIOUS
<1>2. PICK f : IsWalk(f, p, Len(p)) /\ NodeOf(p) = f[Len(p)]
  BY <1>1, NodeOfIs
<1>3. \A d \in 1 .. Len(p) : f[d] = Deeper(f, p, d)
  BY <1>2 DEF IsWalk
<1>4. f[1] = At(1)
  <2>1. Cut(p, 1) = <<p[1]>> /\ p[1] \in Bit
    BY <1>1 DEF Cut
  <2>2. <<0, 1>> \in Owned /\ <<0, 2>> \in Owned
    BY EntryAddrs, OneBit DEF Owned, Inv, BTShape, EntriesOwned, Bit
  <2>3. <<0, EntryPoint(p[1])>> \in At(1)
    <3>1. owner[<<0, 1>>] = <<0>> /\ owner[<<0, 2>>] = <<1>>
      BY DEF Inv, BTShape, EntriesOwned
    <3>2. p[1] = 0 => EntryPoint(p[1]) = 1 /\ Cut(p, 1) = <<0>>
      BY <2>1 DEF EntryPoint
    <3>3. p[1] = 1 => EntryPoint(p[1]) = 2 /\ Cut(p, 1) = <<1>>
      BY <2>1 DEF EntryPoint
    <3> QED BY <2>1, <2>2, <3>1, <3>2, <3>3 DEF Bit
  <2>4. At(1) = {<<0, EntryPoint(p[1])>>}
    BY <2>3 DEF Inv, BTShape, OwnersDistinct
  <2>5. f[1] = Deeper(f, p, 1)
    <3>1. 1 \in 1 .. Len(p)
      BY <1>1
    <3> QED BY <1>3, <3>1
  <2>6. Deeper(f, p, 1) = {<<0, EntryPoint(p[1])>>}
    BY DEF Deeper
  <2> HIDE DEF At
  <2> QED BY <2>4, <2>5, <2>6
<1>5. ASSUME NEW d \in 2 .. Len(p), f[d - 1] = At(d - 1) PROVE f[d] = At(d)
  <2>1. /\ d \in 1 .. Len(p) /\ d - 1 \in 1 .. Len(p) /\ d - 1 \in 0 .. Len(p) - 1
        /\ d - 1 + 1 = d /\ d # 1 /\ d \in 0 .. Len(p) /\ d - 1 \in 0 .. d
        /\ d - 1 \in 0 .. Len(p) /\ d - 1 \in 1 .. d - 1 /\ d \in 1 .. d /\ d \in Nat
    BY <1>1
  <2>2. f[d] = {<<LevelOf(d), Child(WordAt(up), p[d])>> :
                  up \in {n \in At(d - 1) : Child(WordAt(n), p[d]) # 0}}
    BY <1>3, <1>5, <2>1 DEF Deeper
  <2>3. /\ Len(Cut(p, d - 1)) = d - 1 /\ Append(Cut(p, d - 1), p[d]) = Cut(p, d)
        /\ Len(Cut(p, d)) = d /\ Cut(p, d)[d] = p[d] /\ Cut(Cut(p, d), d - 1) = Cut(p, d - 1)
        /\ Cut(p, d) # <<>>
    <3>1. Len(Cut(p, d - 1)) = d - 1 /\ Append(Cut(p, d - 1), p[d]) = Cut(p, d)
      <4> DEFINE k == d - 1
      <4>1. k \in 0 .. Len(p) /\ k \in 0 .. Len(p) - 1 /\ k + 1 = d
        BY <2>1
      <4> HIDE DEF k
      <4>2. Len(Cut(p, k)) = k /\ Append(Cut(p, k), p[d]) = Cut(p, d)
        BY <1>1, <4>1, CutType, CutNext
      <4> QED BY <4>2 DEF k
    <3>2. Len(Cut(p, d)) = d /\ Cut(p, d)[d] = p[d]
      BY <1>1, <2>1, CutType
    <3>3. Cut(Cut(p, d), d - 1) = Cut(p, d - 1)
      BY <1>1, <2>1, CutCut
    <3> QED BY <2>1, <3>1, <3>2, <3>3
  <2>4. ASSUME NEW up \in Owned, owner[up] = Cut(p, d - 1), Child(bram[up], p[d]) # 0
        PROVE  <<LevelOf(d), Child(bram[up], p[d])>> \in At(d)
    <3>1. Child(bram[up], p[d]) \in 0 .. CAP - 1
      BY <1>1, <2>1, ChildType DEF Owned, Inv, BTrieTypeOK
    <3>2. <<LevelOf(d), Child(bram[up], p[d])>> \in Addrs
      BY <1>1, <2>1, <3>1 DEF Addrs
    <3>3. LevelOf(Len(owner[up]) + 1) = LevelOf(d) /\ Append(owner[up], p[d]) = Cut(p, d)
      BY <2>1, <2>3, <2>4
    <3>4. owner[<<LevelOf(d), Child(bram[up], p[d])>>] = Cut(p, d)
      BY <1>1, <2>1, <2>4, <3>2, <3>3 DEF Inv, BTShape, LinksTrue
    <3> QED BY <2>3, <3>2, <3>4 DEF Owned
  <2>5. ASSUME NEW a \in At(d)
        PROVE  \E up \in At(d - 1) : /\ Child(bram[up], p[d]) # 0
                                     /\ a = <<LevelOf(d), Child(bram[up], p[d])>>
    <3>1. a \in Owned /\ owner[a] = Cut(p, d)
      OBVIOUS
    <3>2. d - 1 \in 1 .. Len(owner[a]) - 1
      BY <2>1, <2>3, <3>1
    <3>3. PICK u \in Owned, c \in 1 .. CAP - 1 : LeadsTo(u, owner[a], d - 1, c)
      BY <3>1, <3>2 DEF Inv, BTShape, PathsLead
    <3>4. owner[u] = Cut(p, d - 1) /\ Child(bram[u], p[d]) = c /\ c # 0
      BY <2>1, <2>3, <3>1, <3>3, ShapeAssumption DEF LeadsTo
    <3>5. <<LevelOf(d), c>> \in At(d)
      BY <2>4, <3>4
    <3>6. a = <<LevelOf(d), c>>
      BY <3>1, <3>5 DEF Inv, BTShape, OwnersDistinct
    <3> QED BY <3>4, <3>6
  <2>6. \A n \in At(d - 1) : WordAt(n) = bram[n] /\ n \in Owned /\ owner[n] = Cut(p, d - 1)
    BY DEF Owned, WordAt
  <2> HIDE DEF At
  <2>7. f[d] \subseteq At(d)
    <3> SUFFICES ASSUME NEW a \in f[d] PROVE a \in At(d)
      OBVIOUS
    <3>1. PICK up \in At(d - 1) : /\ Child(WordAt(up), p[d]) # 0
                                  /\ a = <<LevelOf(d), Child(WordAt(up), p[d])>>
      BY <2>2
    <3> QED BY <2>4, <2>6, <3>1
  <2>8. At(d) \subseteq f[d]
    <3> SUFFICES ASSUME NEW a \in At(d) PROVE a \in f[d]
      OBVIOUS
    <3>1. PICK up \in At(d - 1) : /\ Child(bram[up], p[d]) # 0
                                  /\ a = <<LevelOf(d), Child(bram[up], p[d])>>
      BY <2>5
    <3> QED BY <2>2, <2>6, <3>1
  <2> QED BY <2>7, <2>8
<1> HIDE DEF At
<1>6. f[Len(p)] = At(Len(p))
  <2> DEFINE S == {d \in 1 .. Len(p) : f[d] # At(d)}
  <2>1. S = {}
    <3> SUFFICES ASSUME S # {} PROVE FALSE
      OBVIOUS
    <3>1. PICK d \in S : \A e \in S : d =< e
      <4> HIDE DEF S
      <4>1. S \subseteq Nat
        BY <1>1 DEF S
      <4> QED BY <4>1, LeastNat
    <3>2. d \in 1 .. Len(p) /\ d # 1 /\ f[d] # At(d)
      BY <1>4
    <3>3. d \in 2 .. Len(p) /\ d - 1 \in 1 .. Len(p) /\ d - 1 < d
      BY <1>1, <3>2
    <3>4. d - 1 \notin S
      BY <3>1, <3>2, <3>3
    <3> QED BY <1>5, <3>2, <3>3, <3>4
  <2> QED BY <1>1, <2>1
<1> QED BY <1>1, <1>2, <1>6, CutFull DEF At

LEMMA NodesFound ==
  ASSUME Inv, NEW p \in Kept PROVE NodeOf(p) = {a \in Owned : owner[a] = p}
BY KeptFacts, NodesOwn

\* Prefix p has a node that holds next hop h.
Stored(p, h) == \E a \in Owned : owner[a] = p /\ bram[a].valid /\ bram[a].next_hop = h
RoutesTrue ==
  \A p \in Kept : /\ \A h : Stored(p, h) => BTrieRoute(p) = h
                  /\ (\A h : ~Stored(p, h)) => BTrieRoute(p) = None

LEMMA RoutesFound == Inv => RoutesTrue
<1> SUFFICES ASSUME Inv, NEW p \in Kept
             PROVE  /\ \A h : Stored(p, h) => BTrieRoute(p) = h
                    /\ (\A h : ~Stored(p, h)) => BTrieRoute(p) = None
  BY DEF RoutesTrue
<1> DEFINE hops == {WordAt(n).next_hop : n \in {n \in NodeOf(p) : WordAt(n).valid}}
<1>1. \A n \in NodeOf(p) : n \in Owned /\ owner[n] = p /\ WordAt(n) = bram[n]
  BY NodesFound DEF Owned, WordAt
<1>2. \A n \in Owned : owner[n] = p => n \in NodeOf(p)
  BY NodesFound
<1>3. \A h : h \in hops <=> Stored(p, h)
  BY <1>1, <1>2 DEF Stored
<1>4. \A h, k : Stored(p, h) /\ Stored(p, k) => h = k
  BY DEF Stored, Inv, BTShape, OwnersDistinct
<1>5. BTrieRoute(p) = IF hops = {} THEN None ELSE CHOOSE h \in hops : TRUE
  BY DEF BTrieRoute
<1> HIDE DEF hops
<1>6. ASSUME NEW h, Stored(p, h) PROVE BTrieRoute(p) = h
  <2>1. hops # {} /\ (CHOOSE k \in hops : TRUE) \in hops
    BY <1>3, <1>6
  <2> QED BY <1>3, <1>4, <1>5, <1>6, <2>1
<1>7. (\A h : ~Stored(p, h)) => BTrieRoute(p) = None
  BY <1>3, <1>5
<1> QED BY <1>6, <1>7

LEMMA RoutesFoundNext == Inv' => RoutesTrue'
BY RoutesFound, PTL

\* A step that stores and removes nothing shows the same map.
LEMMA MapKept ==
  ASSUME Inv, Inv', \A p \in Kept : \A h : Stored(p, h)' <=> Stored(p, h)
  PROVE  \A p \in Kept : BTrieRoute(p)' = BTrieRoute(p)
<1>1. RoutesTrue /\ RoutesTrue'
  BY RoutesFound, RoutesFoundNext
<1> QED BY <1>1 DEF RoutesTrue

-----------------------------------------------------------------------------
(* Which call is in progress. *)

Entering == {"insert_find", "insert", "link"}
Leaving == {"delete_find", "delete"}
\* A call that has not taken effect is after the whole prefix; a deletion that
\* stops early has met a missing child; and only one trie is at work.
PendingInv ==
  /\ bt.pc \in Entering \cup Leaving => bt.goal = Len(bt.prefix)
  /\ bt.pc = "delete" /\ bt.len < bt.goal =>
       Child(WordAt(bt.at), bt.prefix[bt.len + 1]) = 0
  /\ bt.pc = "idle" \/ vc.pc = "idle"

LEMMA PendingInit == Init => PendingInv
BY DEF Init, BTrieInit, VCTrieInit, Idle, VcIdle, PendingInv, Entering, Leaving

LEMMA PendingBt ==
  ASSUME Inv, PendingInv, BTrieStep, vc' = vc PROVE PendingInv'
<1>1. CASE bt'.pc \in {"idle", "parent_find"} /\ bt.pc # "idle"
  BY <1>1 DEF PendingInv, Entering, Leaving
<1>2. CASE BTrieWalk
  <2>1. /\ bt.pc \in {"insert_find", "delete_find", "parent_find"}
        /\ bram' = bram
        /\ \/ bt.len < bt.goal /\ bt' = [bt EXCEPT !.len = bt.len + 1,
                                          !.at = <<LevelOf(bt.len + 1), NextNode>>]
           \/ ~(bt.len < bt.goal /\ NextNode # 0) /\ bt' = [bt EXCEPT !.pc = Found(bt.pc)]
    BY <1>2 DEF BTrieWalk
  <2>2. bt \in BtCall
    BY DEF Inv, BTrieTypeOK
  <2>3. CASE bt' = [bt EXCEPT !.len = bt.len + 1, !.at = <<LevelOf(bt.len + 1), NextNode>>]
    <3>1. bt'.pc = bt.pc /\ bt'.goal = bt.goal /\ bt'.prefix = bt.prefix
      BY <2>2, <2>3 DEF BtCall
    <3> QED BY <2>1, <3>1 DEF PendingInv
  <2>4. CASE ~(bt.len < bt.goal /\ NextNode # 0) /\ bt' = [bt EXCEPT !.pc = Found(bt.pc)]
    <3>1. /\ bt'.pc = Found(bt.pc) /\ bt'.goal = bt.goal /\ bt'.prefix = bt.prefix
          /\ bt'.len = bt.len /\ bt'.at = bt.at
      BY <2>2, <2>4 DEF BtCall
    <3>2. /\ bt.pc = "insert_find" => bt'.pc = "insert"
          /\ bt.pc = "delete_find" => bt'.pc = "delete"
          /\ bt.pc = "parent_find" => bt'.pc = "unlink"
      BY <3>1 DEF Found
    <3>3. bt.len < bt.goal => Child(WordAt(bt.at), bt.prefix[bt.len + 1]) = 0
      <4>1. bt.len = 0 => NextNode # 0
        <5>1. bt.prefix[1] \in Bit
          BY <2>1, CallFacts
        <5> QED BY <5>1 DEF NextNode, EntryPoint, Bit
      <4> QED BY <2>4, <4>1 DEF NextNode
    <3>4. WordAt(bt.at)' = WordAt(bt.at)
      BY <2>1, <3>1 DEF WordAt
    <3> QED BY <2>1, <3>1, <3>2, <3>3, <3>4 DEF PendingInv, Entering, Leaving
  <2> QED BY <2>1, <2>3, <2>4
<1>3. CASE BTrieNew \/ BTrieLink
  <2>1. bt \in BtCall /\ bt.pc \in {"insert", "link"}
    BY <1>3 DEF BTrieNew, BTrieLink, Inv, BTrieTypeOK
  <2>2. CASE Return("no room")
    BY <1>1, <2>1, <2>2 DEF Return, Idle
  <2>3. CASE bt' # [Idle EXCEPT !.ret = "no room"]
    <3>1. bt'.pc \in {"insert", "link"} /\ bt'.goal = bt.goal /\ bt'.prefix = bt.prefix
      BY <1>3, <2>1, <2>3 DEF BTrieNew, BTrieLink, Return, BtCall
    <3> QED BY <2>1, <3>1 DEF PendingInv, Entering, Leaving
  <2> QED BY <2>2, <2>3 DEF Return
<1>4. CASE BTrieStore \/ BTrieNotFound \/ BTrieClear \/ BTrieUnlink
  <2>1. bt'.pc \in {"idle", "parent_find"} /\ bt.pc # "idle"
    <3>1. \A r : Return(r) => bt'.pc = "idle"
      BY DEF Return, Idle
    <3>2. \A g, c : bt' = Find("parent_find", bt.prefix, 0, g, c) => bt'.pc = "parent_find"
      BY DEF Find
    <3>3. CASE BTrieStore \/ BTrieNotFound
      BY <3>1, <3>3 DEF BTrieStore, BTrieNotFound
    <3>4. CASE BTrieClear
      BY <3>1, <3>2, <3>4 DEF BTrieClear
    <3>5. CASE BTrieUnlink
      <4>1. bt.pc = "unlink"
        BY <3>5 DEF BTrieUnlink
      <4>2. \/ Return("ok") \/ Return("unexpected")
            \/ bt' = Find("parent_find", bt.prefix, 0, bt.goal - 1, bt.at[2])
        BY <3>5 DEF BTrieUnlink
      <4> QED BY <3>1, <3>2, <4>1, <4>2
    <3> QED BY <1>4, <3>3, <3>4, <3>5
  <2> QED BY <1>1, <2>1
<1> QED BY <1>2, <1>3, <1>4 DEF BTrieStep

LEMMA PendingStep ==
  ASSUME Inv, PendingInv, [Next]_vars PROVE PendingInv'
<1>1. ASSUME NEW p \in Prefixes, NEW h \in Hops, BTrieInsert(p, h), vc'.pc = "idle"
      PROVE  PendingInv'
  BY <1>1 DEF BTrieInsert, Find, PendingInv, Entering, Leaving
<1>2. ASSUME NEW p \in Prefixes, BTrieDelete(p), vc'.pc = "idle" PROVE PendingInv'
  BY <1>2 DEF BTrieDelete, Find, PendingInv, Entering, Leaving
<1>3. CASE bt' = bt /\ bram' = bram /\ (bt.pc = "idle" \/ vc'.pc = vc.pc)
  BY <1>3 DEF PendingInv, WordAt
<1>4. CASE BTrieStep /\ UNCHANGED vcVars
  BY <1>4, PendingBt DEF vcVars
<1>5. ASSUME NEW p \in Prefixes, TrieDelete(p) PROVE PendingInv'
  BY <1>2, <1>3, <1>5 DEF TrieDelete, Ready, btVars, vcVars
<1>6. ASSUME NEW p \in Prefixes, NEW h \in Hops, TrieInsert(p, h) \/ TrieModify(p, h)
      PROVE PendingInv'
  BY <1>1, <1>3, <1>6 DEF TrieInsert, TrieModify, Ready, btVars, vcVars
<1>7. CASE TrieInsertExcessive
  <2>1. BTrieInsert(vc.prefix, vc.hop) /\ vc'.pc = "idle"
    BY <1>7 DEF TrieInsertExcessive, VcIdle
  <2> QED BY <2>1 DEF BTrieInsert, Find, PendingInv, Entering, Leaving
<1>8. CASE TrieInit
  BY <1>8 DEF TrieInit, BTrieInitBram, VCTrieReset, Idle, VcIdle, PendingInv, Entering, Leaving
<1>9. CASE VcStep /\ UNCHANGED btVars
  <2>1. vc.pc # "idle"
    BY <1>9 DEF VcStep, VcDescend, VcExcessive, VcPlaceLength, VcPlacePrefix, VcPlaceHop,
                VcModifyHop, VcInvalidateLength, VcInvalidateHop
  <2> QED BY <1>3, <1>9, <2>1 DEF PendingInv, btVars
<1>10. CASE TrieAsk \/ UNCHANGED vars
  BY <1>3, <1>10 DEF TrieAsk, vars, btVars, vcVars
<1> QED BY <1>4, <1>5, <1>6, <1>7, <1>8, <1>9, <1>10 DEF Next

-----------------------------------------------------------------------------
(* What each step does to the routes that are stored. *)

LEMMA AtKept ==
  ASSUME Inv, bt.pc # "idle", bt.len > 0, bt.prefix \in Kept
  PROVE  bt.at \in Owned /\ bt.at \in Addrs /\ owner[bt.at] = Cut(bt.prefix, bt.len)
<1>1. /\ bt.at = <<LevelOf(bt.len), bt.at[2]>> /\ bt.at[2] \in 1 .. CAP - 1
      /\ bt.at \in Addrs => bt.at \in Owned /\ owner[bt.at] = Cut(bt.prefix, bt.len)
  BY AtFacts
<1>2. bt.len \in 1 .. Len(bt.prefix)
  BY CallFacts
<1>3. LevelOf(bt.len) \in 0 .. BT_LEVELS - 1
  BY <1>2, KeptFacts
<1>4. <<LevelOf(bt.len), bt.at[2]>> \in Addrs
  BY <1>1, <1>3, ShapeAssumption DEF Addrs
<1> QED BY <1>1, <1>4

\* Where a walk stops early there is no route.
LEMMA NothingBelow ==
  ASSUME Inv, PendingInv, bt.pc \in {"insert", "delete"}, bt.len < bt.goal,
         bt.prefix \in Kept
  PROVE  \A h : ~Stored(bt.prefix, h)
<1>1. /\ bt.prefix \in Seq(Bit) /\ bt.goal = Len(bt.prefix) /\ Len(bt.prefix) \in Nat
      /\ bt.len \in 0 .. bt.goal
  BY CallFacts DEF PendingInv, Entering, Leaving
<1>2. bt.len # 0
  BY DEF Inv, BTShape, WalkTrue
<1>3. bt.len \in 1 .. Len(bt.prefix) - 1 /\ bt.len > 0
  BY <1>1, <1>2
<1>4. bt.at \in Owned /\ bt.at \in Addrs /\ owner[bt.at] = Cut(bt.prefix, bt.len)
  BY <1>3, AtKept
<1>5. Child(bram[bt.at], bt.prefix[bt.len + 1]) = 0
  BY <1>4 DEF PendingInv, Inv, BTShape, InsertTrue, WordAt
<1>6. \A a \in Owned : owner[a] # bt.prefix
  BY <1>1, <1>3, <1>4, <1>5, NoStranger
<1> QED BY <1>6 DEF Stored

LEMMA StoredSame ==
  ASSUME bram' = bram, owner' = owner PROVE \A p, h : Stored(p, h)' <=> Stored(p, h)
BY DEF Stored, Owned

LEMMA StoredNew ==
  ASSUME Inv, BTrieNew PROVE \A p, h : Stored(p, h)' <=> Stored(p, h)
<1> DEFINE l == LevelOf(bt.len + 1)
           slot == <<l, bram_empty_bottoms[l]>>
<1>1. bt.pc = "insert" /\ bt.len < bt.goal /\ owner' = owner
      /\ (bram' = bram \/ Write(slot, Fresh))
  BY DEF BTrieNew
<1>2. l \in Levels
  <2>1. bt.len + 1 \in 1 .. Len(bt.prefix)
    BY <1>1, CallFacts
  <2> QED BY <1>1, <2>1, CallFacts
<1>3. slot \notin Owned
  BY <1>1, <1>2 DEF Inv, BTShape, BottomsFree, Deleting
<1> HIDE DEF slot
<1>4. \A a \in Owned : bram'[a] = bram[a]
  BY <1>1, <1>3 DEF Write, Owned, Inv, BTrieTypeOK
<1>5. Owned' = Owned
  BY <1>1 DEF Owned
<1> QED BY <1>1, <1>4, <1>5 DEF Stored

LEMMA StoredLink ==
  ASSUME Inv, BTrieLink PROVE \A p, h : Stored(p, h)' <=> Stored(p, h)
<1> DEFINE b == bt.prefix[bt.len + 1]
           q == Cut(bt.prefix, bt.len + 1)
           new == <<LevelOf(bt.len + 1), bt.child>>
           w == WithChild(WordAt(bt.at), b, bt.child)
<1>1. /\ bt.pc = "link" /\ Write(bt.at, w)
      /\ owner' = IF new \in Addrs THEN [owner EXCEPT ![new] = q] ELSE owner
      /\ bt.len < bt.goal /\ bt.child \in 1 .. CAP - 1
      /\ new \in Addrs => new \notin Owned /\ bram[new] = Fresh
  BY DEF BTrieLink, Inv, BTShape, InsertTrue
<1>2. bt.len > 0 /\ b \in Bit
  <2>1. bt.len # 0
    BY <1>1 DEF Inv, BTShape, WalkTrue
  <2>2. bt.len + 1 \in 1 .. Len(bt.prefix) /\ bt.len \in Nat
    BY <1>1, CallFacts
  <2> QED BY <1>1, <2>1, <2>2, CallFacts
<1>3. bt.at \in Addrs => bt.at \in Owned
  BY <1>1, <1>2, AtFacts
<1>4. w \in Word /\ w.valid = WordAt(bt.at).valid /\ w.next_hop = WordAt(bt.at).next_hop
  BY <1>1, <1>2, WordAtType, WithChildType, ShapeAssumption DEF Inv
<1>5. Fresh.valid = FALSE
  BY DEF Fresh, Empty
<1> HIDE DEF w, q, new, b
<1>6. bram \in [Addrs -> Word] /\ owner \in [Addrs -> Seq(Bit)]
  BY DEF Inv, BTrieTypeOK
<1>7. \A a \in Addrs : bram'[a].valid = bram[a].valid /\ bram'[a].next_hop = bram[a].next_hop
  <2>1. CASE bt.at \in Addrs
    <3>1. bram' = [bram EXCEPT ![bt.at] = w] /\ WordAt(bt.at) = bram[bt.at]
      BY <1>1, <2>1 DEF Write, WordAt
    <3> QED BY <1>4, <1>6, <3>1
  <2>2. CASE bt.at \notin Addrs
    BY <1>1, <2>2 DEF Write
  <2> QED BY <2>1, <2>2
<1>8. \A a \in Owned : a \in Addrs /\ owner'[a] = owner[a] /\ a \in Owned'
  BY <1>1, <1>6 DEF Owned
<1>9. \A a \in Owned' : a \in Addrs /\ (a \in Owned \/ ~bram'[a].valid)
  BY <1>1, <1>5, <1>6, <1>7 DEF Owned
<1> QED BY <1>7, <1>8, <1>9 DEF Stored

\* The word a call has reached, and the route in it.
LEMMA AtNode ==
  ASSUME Inv, PendingInv, bt.pc \in {"insert", "delete"}, bt.len = bt.goal
  PROVE  /\ bt.at \in Addrs => bt.at \in Owned /\ owner[bt.at] = bt.prefix
         /\ bt.prefix \in Kept => bt.at \in Addrs
<1>1. bt.len = Len(bt.prefix) /\ bt.len > 0 /\ bt.prefix \in Seq(Bit) /\ bt.pc # "idle"
  BY CallFacts DEF PendingInv, Entering, Leaving
<1>2. Cut(bt.prefix, bt.len) = bt.prefix
  BY <1>1, CutFull
<1> QED BY <1>1, <1>2, AtFacts, AtKept

LEMMA StoredStore ==
  ASSUME Inv, PendingInv, BTrieStore
  PROVE  \A p \in Kept : \A h : Stored(p, h)' <=> IF p = bt.prefix THEN h = bt.hop
                                                  ELSE Stored(p, h)
<1> DEFINE w == [WordAt(bt.at) EXCEPT !.valid = TRUE, !.next_hop = bt.hop]
<1>1. /\ bt.pc = "insert" /\ bt.len >= bt.goal /\ Write(bt.at, w) /\ owner' = owner
  BY DEF BTrieStore
<1>2. bt.len = bt.goal
  BY <1>1, CallFacts
<1>3. /\ bt.at \in Addrs => bt.at \in Owned /\ owner[bt.at] = bt.prefix
      /\ bt.prefix \in Kept => bt.at \in Addrs
  BY <1>1, <1>2, AtNode
<1>4. w.valid = TRUE /\ w.next_hop = bt.hop
  BY WordAtType DEF Inv, Word
<1> HIDE DEF w
<1>5. /\ bt.at \in Addrs => bram'[bt.at] = w
      /\ \A a \in Addrs : a # bt.at => bram'[a] = bram[a]
  BY <1>1 DEF Write, Inv, BTrieTypeOK
<1>6. Owned' = Owned /\ \A a \in Owned : a \in Addrs
  BY <1>1 DEF Owned
<1>7. \A a, c \in Owned : owner[a] = owner[c] => a = c
  BY DEF Inv, BTShape, OwnersDistinct
<1>8. ASSUME NEW p \in Kept, NEW h, p = bt.prefix PROVE Stored(p, h)' <=> h = bt.hop
  <2>1. bt.at \in Owned /\ owner[bt.at] = p
    BY <1>3, <1>8
  <2> QED BY <1>1, <1>4, <1>5, <1>6, <1>7, <2>1 DEF Stored
<1>9. ASSUME NEW p \in Kept, NEW h, p # bt.prefix PROVE Stored(p, h)' <=> Stored(p, h)
  BY <1>1, <1>3, <1>5, <1>6, <1>9 DEF Stored
<1> QED BY <1>8, <1>9

LEMMA StoredClear ==
  ASSUME Inv, PendingInv, BTrieClear
  PROVE  \A p \in Kept : \A h : Stored(p, h)' <=> p # bt.prefix /\ Stored(p, h)
<1> DEFINE w == [WordAt(bt.at) EXCEPT !.valid = FALSE, !.next_hop = 0]
<1>1. /\ bt.pc = "delete" /\ bt.len = bt.goal /\ Write(bt.at, w) /\ owner' = owner
  BY DEF BTrieClear
<1>2. /\ bt.at \in Addrs => bt.at \in Owned /\ owner[bt.at] = bt.prefix
      /\ bt.prefix \in Kept => bt.at \in Addrs
  BY <1>1, AtNode
<1>3. w.valid = FALSE
  BY WordAtType DEF Inv, Word
<1> HIDE DEF w
<1>4. /\ bt.at \in Addrs => bram'[bt.at] = w
      /\ \A a \in Addrs : a # bt.at => bram'[a] = bram[a]
  BY <1>1 DEF Write, Inv, BTrieTypeOK
<1>5. Owned' = Owned /\ \A a \in Owned : a \in Addrs
  BY <1>1 DEF Owned
<1>6. \A a, c \in Owned : owner[a] = owner[c] => a = c
  BY DEF Inv, BTShape, OwnersDistinct
<1>7. ASSUME NEW p \in Kept, NEW h, p = bt.prefix PROVE ~Stored(p, h)'
  <2>1. bt.at \in Owned /\ owner[bt.at] = p
    BY <1>2, <1>7
  <2> QED BY <1>1, <1>3, <1>4, <1>5, <1>6, <2>1 DEF Stored
<1>8. ASSUME NEW p \in Kept, NEW h, p # bt.prefix PROVE Stored(p, h)' <=> Stored(p, h)
  BY <1>1, <1>2, <1>4, <1>5, <1>8 DEF Stored
<1> QED BY <1>7, <1>8

LEMMA StoredUnlink ==
  ASSUME Inv, BTrieUnlink PROVE \A p, h : Stored(p, h)' <=> Stored(p, h)
<1> DEFINE b == bt.prefix[bt.goal + 1]
           par == Unlinked(WordAt(bt.at), b)
           f == Freed
<1>1. bt.pc = "unlink" /\ Deleting
  BY DEF BTrieUnlink, Deleting
<1>2. \/ bram' = bram /\ owner' = owner
      \/ /\ Write(bt.at, par)
         /\ owner' = IF f \in Addrs THEN [owner EXCEPT ![f] = <<>>] ELSE owner
  BY DEF BTrieUnlink
<1>3. f \in Addrs => bram[f] = Empty
  BY <1>1 DEF Inv, BTShape, DeleteTrue
<1>4. Empty.valid = FALSE
  BY DEF Empty
<1>5. b \in Bit
  <2>1. bt.goal + 1 \in 1 .. Len(bt.prefix) /\ bt.pc # "idle"
    BY <1>1, CallFacts DEF Inv, BTShape, DeleteTrue
  <2> QED BY <2>1, CallFacts
<1>6. /\ par.valid = WordAt(bt.at).valid
      /\ par.valid => par.next_hop = WordAt(bt.at).next_hop
  <2> DEFINE x == [WordAt(bt.at) EXCEPT !.next_hop = IF WordAt(bt.at).valid THEN @ ELSE 0]
  <2>1. /\ x \in Word /\ x.valid = WordAt(bt.at).valid
        /\ x.valid => x.next_hop = WordAt(bt.at).next_hop
    BY WordAtType DEF Inv, Word
  <2>2. par = WithChild(x, b, 0)
    BY DEF Unlinked
  <2> HIDE DEF x
  <2>3. 0 \in 0 .. CAP - 1
    BY ShapeAssumption
  <2> QED BY <1>5, <2>1, <2>2, <2>3, WithChildType
<1> HIDE DEF par, f, b
<1>7. bram \in [Addrs -> Word] /\ owner \in [Addrs -> Seq(Bit)]
  BY DEF Inv, BTrieTypeOK
<1>8. CASE bram' = bram /\ owner' = owner
  BY <1>8, StoredSame
<1>9. CASE /\ Write(bt.at, par)
           /\ owner' = IF f \in Addrs THEN [owner EXCEPT ![f] = <<>>] ELSE owner
  <2>1. \A a \in Addrs : /\ bram'[a].valid <=> bram[a].valid
                         /\ bram[a].valid => bram'[a].next_hop = bram[a].next_hop
    <3>1. CASE bt.at \in Addrs
      <4>1. bram' = [bram EXCEPT ![bt.at] = par] /\ WordAt(bt.at) = bram[bt.at]
        BY <1>9, <3>1 DEF Write, WordAt
      <4> QED BY <1>6, <1>7, <4>1
    <3>2. CASE bt.at \notin Addrs
      BY <1>9, <3>2 DEF Write
    <3> QED BY <3>1, <3>2
  <2>2. \A a \in Owned' : a \in Addrs /\ a \in Owned /\ owner'[a] = owner[a]
    BY <1>7, <1>9 DEF Owned
  <2>3. \A a \in Owned : a \in Addrs /\ (a = f \/ (a \in Owned' /\ owner'[a] = owner[a]))
    BY <1>7, <1>9 DEF Owned
  <2>4. \A a \in Owned : bram[a].valid => a # f
    BY <1>3, <1>4, <2>3
  <2> QED BY <2>1, <2>2, <2>3, <2>4 DEF Stored
<1> QED BY <1>2, <1>8, <1>9

-----------------------------------------------------------------------------
(* Each step is a step of the map, or none. *)

PendingShown ==
  /\ vc.pc = "idle" /\ bt.pc \in Entering /\ bt.prefix \in Kept =>
       BtPending = [kind |-> "put", key |-> bt.prefix, hop |-> bt.hop]
  /\ vc.pc = "idle" /\ bt.pc \in Leaving /\ bt.prefix \in Kept =>
       BtPending = [kind |-> "drop", key |-> bt.prefix]
  /\ vc.pc # "idle" \/ bt.pc \notin Entering \cup Leaving \/ bt.prefix \notin Kept =>
       BtPending = [kind |-> "none"]

LEMMA PendingSeen == PendingShown
BY DEF PendingShown, BtPending, PendingCall, Put, Entering, Leaving

LEMMA PendingSeenNext == PendingShown'
BY PendingSeen, PTL

LEMMA PcFacts ==
  /\ \A x \in Entering : x # "idle" /\ x \notin Leaving
  /\ \A x \in Leaving : x # "idle" /\ x \notin Entering
  /\ "idle" \notin Entering \cup Leaving /\ "parent_find" \notin Entering \cup Leaving
  /\ "unlink" \notin Entering \cup Leaving
BY DEF Entering, Leaving

\* The routes as the abstract map sees them.
MapNow == [p \in Kept |-> BTrieRoute(p)]
MapSteps == BTrieMap!Next \/ (MapNow' = MapNow /\ BtPending' = BtPending)
OneCall == \/ BTrieMap!Call \/ BTrieMap!Put \/ BTrieMap!Drop \/ BTrieMap!Refuse
           \/ MapNow' = MapNow /\ BtPending' = BtPending

LEMMA MapSame ==
  ASSUME Inv, Inv', \A p \in Kept : \A h : Stored(p, h)' <=> Stored(p, h)
  PROVE  MapNow' = MapNow
BY MapKept DEF MapNow

\* A step that shows the same routes and asks for the same.
LEMMA StutterSteps ==
  ASSUME Inv, Inv', \A p \in Kept : \A h : Stored(p, h)' <=> Stored(p, h),
         vc' = vc,
         bt'.pc \in Entering \cup Leaving => bt'.prefix = bt.prefix /\ bt'.hop = bt.hop,
         bt'.pc \in Entering <=> bt.pc \in Entering,
         bt'.pc \in Leaving <=> bt.pc \in Leaving
  PROVE  OneCall
<1>1. MapNow' = MapNow
  BY MapSame
<1>2. PendingShown /\ PendingShown'
  BY PendingSeen, PendingSeenNext
<1>3. BtPending' = BtPending
  <2>1. CASE vc.pc # "idle" \/ bt.pc \notin Entering \cup Leaving \/ bt.prefix \notin Kept
    <3>1. vc'.pc # "idle" \/ bt'.pc \notin Entering \cup Leaving \/ bt'.prefix \notin Kept
      BY <2>1
    <3> QED BY <1>2, <2>1, <3>1 DEF PendingShown
  <2>2. CASE vc.pc = "idle" /\ bt.pc \in Entering /\ bt.prefix \in Kept
    <3>1. vc'.pc = "idle" /\ bt'.pc \in Entering /\ bt'.prefix = bt.prefix /\ bt'.hop = bt.hop
      BY <2>2
    <3> QED BY <1>2, <2>2, <3>1 DEF PendingShown
  <2>3. CASE vc.pc = "idle" /\ bt.pc \in Leaving /\ bt.prefix \in Kept
    <3>1. vc'.pc = "idle" /\ bt'.pc \in Leaving /\ bt'.prefix = bt.prefix
      BY <2>3
    <3> QED BY <1>2, <2>3, <3>1 DEF PendingShown
  <2> QED BY <2>1, <2>2, <2>3
<1> QED BY <1>1, <1>3 DEF OneCall

\* No call of the binary trie is pending before or after.
LEMMA NothingSteps ==
  ASSUME Inv, Inv', \A p \in Kept : \A h : Stored(p, h)' <=> Stored(p, h),
         vc.pc # "idle" \/ bt.pc \notin Entering \cup Leaving,
         vc'.pc # "idle" \/ bt'.pc \notin Entering \cup Leaving
  PROVE  OneCall
<1>1. MapNow' = MapNow
  BY MapSame
<1>2. BtPending = [kind |-> "none"] /\ BtPending' = [kind |-> "none"]
  BY PendingSeen, PendingSeenNext DEF PendingShown
<1> QED BY <1>1, <1>2 DEF OneCall

\* A call begins.
LEMMA CallSteps ==
  ASSUME Inv, Inv', bram' = bram, owner' = owner,
         vc.pc # "idle" \/ bt.pc \notin Entering \cup Leaving, vc'.pc = "idle",
         NEW p \in Prefixes, bt'.prefix = p,
         bt'.pc = "delete_find" \/ (bt'.pc = "insert_find" /\ bt'.hop \in Hops)
  PROVE  OneCall
<1>1. MapNow' = MapNow
  BY StoredSame, MapSame
<1>2. BtPending = [kind |-> "none"]
  BY PendingSeen DEF PendingShown
<1>3. CASE p \notin Kept
  <2>1. BtPending' = [kind |-> "none"]
    BY <1>3, PendingSeenNext DEF PendingShown
  <2> QED BY <1>1, <1>2, <2>1 DEF OneCall
<1>4. CASE p \in Kept
  <2>1. BtPending' \in BTrieMap!Calls
    <3>1. CASE bt'.pc = "delete_find"
      <4>1. BtPending' = [kind |-> "drop", key |-> p]
        BY <1>4, <3>1, PendingSeenNext DEF PendingShown, Leaving
      <4> QED BY <1>4, <4>1 DEF BTrieMap!Calls
    <3>2. CASE bt'.pc = "insert_find" /\ bt'.hop \in Hops
      <4>1. BtPending' = [kind |-> "put", key |-> p, hop |-> bt'.hop]
        BY <1>4, <3>2, PendingSeenNext DEF PendingShown, Entering
      <4>2. PICK h \in Hops : h = bt'.hop
        BY <3>2
      <4>3. BtPending' = [kind |-> "put", key |-> p, hop |-> h]
        BY <4>1, <4>2
      <4> QED BY <1>4, <4>3 DEF BTrieMap!Calls
    <3> QED BY <3>1, <3>2
  <2>2. BTrieMap!Call
    BY <1>1, <1>2, <2>1 DEF BTrieMap!Call, BTrieMap!NoCall, MapNow
  <2> QED BY <2>2 DEF OneCall
<1> QED BY <1>3, <1>4

\* A call returns without effect: there was no route of its prefix.
LEMMA RefuseSteps ==
  ASSUME Inv, Inv', PendingInv, \A p \in Kept : \A h : Stored(p, h)' <=> Stored(p, h),
         bt.pc \in {"insert", "delete"}, bt.len < bt.goal, bt'.pc = "idle"
  PROVE  OneCall
<1>1. MapNow' = MapNow
  BY MapSame
<1>2. BtPending' = [kind |-> "none"]
  BY PendingSeenNext, PcFacts DEF PendingShown
<1>3. CASE bt.prefix \notin Kept
  <2>1. BtPending = [kind |-> "none"]
    BY <1>3, PendingSeen DEF PendingShown
  <2> QED BY <1>1, <1>2, <2>1 DEF OneCall
<1>4. CASE bt.prefix \in Kept
  <2>1. BTrieRoute(bt.prefix) = None
    <3>1. \A h : ~Stored(bt.prefix, h)
      BY <1>4, NothingBelow
    <3> QED BY <1>4, <3>1, RoutesFound DEF RoutesTrue
  <2>2. vc.pc = "idle" /\ bt.pc \in Entering \cup Leaving
    BY DEF PendingInv, Entering, Leaving
  <2>3. BtPending # [kind |-> "none"] /\ BtPending.key = bt.prefix
    <3>1. CASE bt.pc \in Entering
      <4>1. BtPending = [kind |-> "put", key |-> bt.prefix, hop |-> bt.hop]
        BY <1>4, <2>2, <3>1, PendingSeen DEF PendingShown
      <4>2. BtPending.kind = "put" /\ BtPending.key = bt.prefix
        BY <4>1
      <4> QED BY <4>2
    <3>2. CASE bt.pc \in Leaving
      <4>1. BtPending = [kind |-> "drop", key |-> bt.prefix]
        BY <1>4, <2>2, <3>2, PendingSeen DEF PendingShown
      <4>2. BtPending.kind = "drop" /\ BtPending.key = bt.prefix
        BY <4>1
      <4> QED BY <4>2
    <3> QED BY <2>2, <3>1, <3>2
  <2>4. BTrieMap!Refuse
    BY <1>1, <1>2, <1>4, <2>1, <2>3 DEF BTrieMap!Refuse, BTrieMap!NoCall, MapNow
  <2> QED BY <2>4 DEF OneCall
<1> QED BY <1>3, <1>4

LEMMA StoreSteps ==
  ASSUME Inv, Inv', PendingInv, BTrieStore, vc' = vc PROVE OneCall
<1>1. /\ bt.pc = "insert" /\ bt.pc \in Entering /\ bt'.pc = "idle" /\ vc.pc = "idle"
  BY DEF BTrieStore, Return, Idle, Entering, PendingInv
<1>2. \A p \in Kept : \A h : Stored(p, h)' <=> IF p = bt.prefix THEN h = bt.hop
                                               ELSE Stored(p, h)
  BY StoredStore
<1>3. RoutesTrue /\ RoutesTrue'
  BY RoutesFound, RoutesFoundNext
<1>4. BtPending' = [kind |-> "none"]
  BY <1>1, PendingSeenNext, PcFacts DEF PendingShown
<1>5. CASE bt.prefix \notin Kept
  <2>1. BtPending = [kind |-> "none"]
    BY <1>5, PendingSeen DEF PendingShown
  <2>2. MapNow' = MapNow
    BY <1>2, <1>5, MapSame
  <2> QED BY <1>4, <2>1, <2>2 DEF OneCall
<1>6. CASE bt.prefix \in Kept
  <2>1. BtPending = [kind |-> "put", key |-> bt.prefix, hop |-> bt.hop]
    BY <1>1, <1>6, PendingSeen DEF PendingShown
  <2>2. \A p \in Kept : BTrieRoute(p)' = IF p = bt.prefix THEN bt.hop ELSE BTrieRoute(p)
    BY <1>2, <1>3 DEF RoutesTrue
  <2>3. MapNow' = [MapNow EXCEPT ![bt.prefix] = bt.hop]
    BY <1>6, <2>2 DEF MapNow
  <2>4. BtPending.kind = "put" /\ BtPending.key = bt.prefix /\ BtPending.hop = bt.hop
    BY <2>1
  <2>5. BTrieMap!Put
    BY <1>4, <2>3, <2>4 DEF BTrieMap!Put, BTrieMap!NoCall, MapNow
  <2> QED BY <2>5 DEF OneCall
<1> QED BY <1>5, <1>6

LEMMA ClearSteps ==
  ASSUME Inv, Inv', PendingInv, BTrieClear, vc' = vc PROVE OneCall
<1>1. bt.pc = "delete" /\ bt.pc \in Leaving /\ vc.pc = "idle"
  BY DEF BTrieClear, Leaving, PendingInv
<1>2. \A p \in Kept : \A h : Stored(p, h)' <=> p # bt.prefix /\ Stored(p, h)
  BY StoredClear
<1>3. RoutesTrue /\ RoutesTrue'
  BY RoutesFound, RoutesFoundNext
<1>4. bt'.pc = "idle" \/ bt'.pc = "parent_find"
  <2>1. Return("ok") => bt'.pc = "idle"
    BY DEF Return, Idle
  <2>2. \A g, c : bt' = Find("parent_find", bt.prefix, 0, g, c) => bt'.pc = "parent_find"
    BY DEF Find
  <2> QED BY <2>1, <2>2 DEF BTrieClear
<1>5. BtPending' = [kind |-> "none"]
  BY <1>4, PendingSeenNext, PcFacts DEF PendingShown
<1>6. CASE bt.prefix \notin Kept
  <2>1. BtPending = [kind |-> "none"]
    BY <1>6, PendingSeen DEF PendingShown
  <2>2. MapNow' = MapNow
    BY <1>2, <1>6, MapSame
  <2> QED BY <1>5, <2>1, <2>2 DEF OneCall
<1>7. CASE bt.prefix \in Kept
  <2>1. BtPending = [kind |-> "drop", key |-> bt.prefix]
    BY <1>1, <1>7, PendingSeen DEF PendingShown
  <2>2. \A p \in Kept : BTrieRoute(p)' = IF p = bt.prefix THEN None ELSE BTrieRoute(p)
    BY <1>2, <1>3 DEF RoutesTrue
  <2>3. MapNow' = [MapNow EXCEPT ![bt.prefix] = None]
    BY <1>7, <2>2 DEF MapNow
  <2>4. BtPending.kind = "drop" /\ BtPending.key = bt.prefix
    BY <2>1
  <2>5. BTrieMap!Drop
    BY <1>5, <2>3, <2>4 DEF BTrieMap!Drop, BTrieMap!NoCall, MapNow
  <2> QED BY <2>5 DEF OneCall
<1> QED BY <1>6, <1>7

LEMMA ResetSteps ==
  ASSUME Inv, Inv', BTrieInitBram PROVE MapSteps
<1>1. Restarted'
  BY EntryAddrs, EmptyWord
     DEF BTrieInitBram, Restarted, Inv, BTrieTypeOK, ClearedOnReset, IsEntryPoint
<1>2. \A p, h : ~Stored(p, h)'
  <2>1. \A a \in Owned' : a = <<0, 1>> \/ a = <<0, 2>>
    BY <1>1 DEF Restarted, Owned, OnlyEntryPoints
  <2>2. Empty.valid = FALSE
    BY DEF Empty
  <2> QED BY <1>1, <2>1, <2>2 DEF Restarted, Stored
<1>3. MapNow' = [p \in Kept |-> None]
  BY <1>2, RoutesFoundNext DEF RoutesTrue, MapNow
<1>4. bt'.pc = "idle"
  BY DEF BTrieInitBram, Idle
<1>5. BtPending' = [kind |-> "none"]
  BY <1>4, PendingSeenNext, PcFacts DEF PendingShown
<1>6. BTrieMap!Reset
  BY <1>3, <1>5 DEF BTrieMap!Reset, BTrieMap!Nothing, BTrieMap!NoCall, MapNow
<1> QED BY <1>6 DEF MapSteps, BTrieMap!Next

LEMMA BtMapSteps ==
  ASSUME Inv, Inv', PendingInv, BTrieStep, vc' = vc PROVE OneCall
<1>0. bt \in BtCall
  BY DEF Inv, BTrieTypeOK
<1>1. CASE BTrieWalk
  <2>1. /\ bram' = bram /\ owner' = owner
        /\ bt.pc \in {"insert_find", "delete_find", "parent_find"}
        /\ \/ bt' = [bt EXCEPT !.len = bt.len + 1, !.at = <<LevelOf(bt.len + 1), NextNode>>]
           \/ bt' = [bt EXCEPT !.pc = Found(bt.pc)]
    BY <1>1 DEF BTrieWalk
  <2>2. /\ bt'.prefix = bt.prefix /\ bt'.hop = bt.hop
        /\ bt'.pc = bt.pc \/ bt'.pc = Found(bt.pc)
    BY <1>0, <2>1 DEF BtCall
  <2>3. /\ bt'.pc \in Entering <=> bt.pc \in Entering
        /\ bt'.pc \in Leaving <=> bt.pc \in Leaving
    BY <2>1, <2>2 DEF Found, Entering, Leaving
  <2> QED BY <2>1, <2>2, <2>3, StoredSame, StutterSteps
<1>2. CASE BTrieNew
  <2>1. bt.pc = "insert" /\ bt.len < bt.goal
        /\ (Return("no room") \/ \E c : bt' = [bt EXCEPT !.pc = "link", !.child = c])
    BY <1>2 DEF BTrieNew
  <2>2. \A p \in Kept : \A h : Stored(p, h)' <=> Stored(p, h)
    BY <1>2, StoredNew
  <2>3. CASE Return("no room")
    <3>1. bt'.pc = "idle"
      BY <2>3 DEF Return, Idle
    <3> QED BY <2>1, <2>2, <3>1, RefuseSteps
  <2>4. CASE \E c : bt' = [bt EXCEPT !.pc = "link", !.child = c]
    <3>1. bt'.pc = "link" /\ bt'.prefix = bt.prefix /\ bt'.hop = bt.hop
      BY <1>0, <2>4 DEF BtCall
    <3>2. /\ bt'.pc \in Entering <=> bt.pc \in Entering
          /\ bt'.pc \in Leaving <=> bt.pc \in Leaving
      BY <2>1, <3>1 DEF Entering, Leaving
    <3> QED BY <2>2, <3>1, <3>2, StutterSteps
  <2> QED BY <2>1, <2>3, <2>4
<1>3. CASE BTrieLink
  <2>1. bt.pc = "link" /\ \E n, a : bt' = [bt EXCEPT !.pc = "insert", !.len = n, !.at = a,
                                                    !.child = 0]
    BY <1>3 DEF BTrieLink
  <2>2. bt'.pc = "insert" /\ bt'.prefix = bt.prefix /\ bt'.hop = bt.hop
    BY <1>0, <2>1 DEF BtCall
  <2>3. /\ bt'.pc \in Entering <=> bt.pc \in Entering
        /\ bt'.pc \in Leaving <=> bt.pc \in Leaving
    BY <2>1, <2>2 DEF Entering, Leaving
  <2> QED BY <1>3, <2>2, <2>3, StoredLink, StutterSteps
<1>4. CASE BTrieStore
  BY <1>4, StoreSteps
<1>5. CASE BTrieNotFound
  <2>1. bt.pc = "delete" /\ bt.len # bt.goal /\ Return("not found")
        /\ bram' = bram /\ owner' = owner
    BY <1>5 DEF BTrieNotFound
  <2>2. bt.len < bt.goal
    <3>1. bt.pc # "idle"
      BY <2>1
    <3>2. bt.len \in 0 .. bt.goal /\ bt.goal \in 1 .. Len(bt.prefix) /\ Len(bt.prefix) \in Nat
      BY <3>1, CallFacts
    <3>3. bt.len # bt.goal
      BY <2>1
    <3> QED BY <3>2, <3>3
  <2>3. bt'.pc = "idle"
    BY <2>1 DEF Return, Idle
  <2> QED BY <2>1, <2>2, <2>3, StoredSame, RefuseSteps
<1>6. CASE BTrieClear
  BY <1>6, ClearSteps
<1>7. CASE BTrieUnlink
  <2>1. bt.pc = "unlink"
    BY <1>7 DEF BTrieUnlink
  <2>2. \/ Return("ok") \/ Return("unexpected")
        \/ bt' = Find("parent_find", bt.prefix, 0, bt.goal - 1, bt.at[2])
    BY <1>7 DEF BTrieUnlink
  <2>3. bt'.pc \in {"idle", "parent_find"}
    BY <2>2 DEF Return, Idle, Find
  <2> QED BY <1>7, <2>1, <2>3, PcFacts, StoredUnlink, NothingSteps
<1> QED BY <1>1, <1>2, <1>3, <1>4, <1>5, <1>6, <1>7 DEF BTrieStep

LEMMA EveryStepCalls ==
  ASSUME Inv, Inv', VcInv, PendingInv, [Next]_vars, ~TrieInit PROVE OneCall
<1>1. CASE BTrieStep /\ UNCHANGED vcVars
  BY <1>1, BtMapSteps DEF vcVars
<1>2. ASSUME bram' = bram, owner' = owner, bt' = bt, bt.pc = "idle" PROVE OneCall
  BY <1>2, PcFacts, StoredSame, NothingSteps
<1>3. ASSUME NEW p \in Prefixes, TrieDelete(p) PROVE OneCall
  <2>1. bt.pc = "idle" /\ vc.pc = "idle"
    BY <1>3 DEF TrieDelete, Ready
  <2>2. CASE UNCHANGED btVars
    BY <1>2, <2>1, <2>2 DEF btVars
  <2>3. CASE BTrieDelete(p) /\ UNCHANGED vcVars
    <3>1. bram' = bram /\ owner' = owner /\ bt'.pc = "delete_find" /\ bt'.prefix = p
          /\ vc'.pc = "idle"
      BY <2>1, <2>3 DEF BTrieDelete, Find, vcVars
    <3> QED BY <2>1, <3>1, PcFacts, CallSteps
  <2> QED BY <1>3, <2>2, <2>3 DEF TrieDelete
<1>4. ASSUME NEW p \in Prefixes, NEW h \in Hops, TrieInsert(p, h) \/ TrieModify(p, h)
      PROVE OneCall
  <2>1. bt.pc = "idle" /\ vc.pc = "idle"
    BY <1>4 DEF TrieInsert, TrieModify, Ready
  <2>2. CASE UNCHANGED btVars
    BY <1>2, <2>1, <2>2 DEF btVars
  <2>3. CASE BTrieInsert(p, h) /\ UNCHANGED vcVars
    <3>1. bram' = bram /\ owner' = owner /\ bt'.pc = "insert_find" /\ bt'.prefix = p
          /\ bt'.hop \in Hops /\ vc'.pc = "idle"
      BY <2>1, <2>3 DEF BTrieInsert, Find, vcVars
    <3> QED BY <2>1, <3>1, PcFacts, CallSteps
  <2> QED BY <1>4, <2>2, <2>3 DEF TrieInsert, TrieModify
<1>5. CASE TrieInsertExcessive
  <2>1. vc.prefix \in Prefixes /\ vc.hop \in Hops /\ vc.pc = "excessive"
    BY <1>5 DEF TrieInsertExcessive, VcInv, PassedOn
  <2>2. bram' = bram /\ owner' = owner /\ bt'.pc = "insert_find" /\ bt'.prefix = vc.prefix
        /\ bt'.hop \in Hops /\ vc'.pc = "idle"
    BY <1>5, <2>1 DEF TrieInsertExcessive, BTrieInsert, Find, VcIdle
  <2>3. vc.pc # "idle"
    BY <2>1
  <2> QED BY <2>1, <2>2, <2>3, CallSteps
<1>7. CASE VcStep /\ UNCHANGED btVars
  <2>1. vc.pc # "idle"
    BY <1>7 DEF VcStep, VcDescend, VcExcessive, VcPlaceLength, VcPlacePrefix, VcPlaceHop,
                VcModifyHop, VcInvalidateLength, VcInvalidateHop
  <2> QED BY <1>2, <1>7, <2>1 DEF PendingInv, btVars
<1>8. CASE TrieAsk \/ UNCHANGED vars
  <2>1. bram' = bram /\ owner' = owner /\ bt' = bt /\ vc' = vc
    BY <1>8 DEF TrieAsk, vars, btVars, vcVars
  <2> QED BY <2>1, StoredSame, StutterSteps
<1> QED BY <1>1, <1>3, <1>4, <1>5, <1>7, <1>8 DEF Next

LEMMA EveryStepMaps ==
  ASSUME Inv, Inv', VcInv, PendingInv, [Next]_vars PROVE MapSteps
<1>1. CASE TrieInit
  BY <1>1, ResetSteps DEF TrieInit
<1>2. CASE OneCall
  BY <1>2 DEF OneCall, MapSteps, BTrieMap!Next
<1> QED BY <1>1, <1>2, EveryStepCalls

LEMMA MapInit == Init => BTrieMap!Init
<1> SUFFICES ASSUME Init PROVE BTrieMap!Init
  OBVIOUS
<1>1. Inv /\ RoutesTrue
  BY InitInv, RoutesFound DEF Init
<1>2. bt.pc = "idle" /\ bram = [a \in Addrs |-> Empty]
  BY DEF Init, BTrieInit, Idle
<1>3. \A p, h : ~Stored(p, h)
  <2>1. Empty.valid = FALSE
    BY DEF Empty
  <2> QED BY <1>2, <2>1 DEF Stored, Owned
<1>4. [p \in Kept |-> BTrieRoute(p)] = [p \in Kept |-> None]
  BY <1>1, <1>3 DEF RoutesTrue
<1>5. BtPending = [kind |-> "none"]
  BY <1>2, PendingSeen, PcFacts DEF PendingShown
<1> QED BY <1>4, <1>5 DEF BTrieMap!Init, BTrieMap!Nothing, BTrieMap!NoCall

\* The binary trie is a map whose calls take effect in one step each, are
\* refused only where there is no route, and lose everything at a reset,
\* although it is rewritten word by word and its slots are handed out again:
\* what a walk from the entry points shows between any two writes is the map
\* (tries.c:32-109, binary_trie.c:125-309).
THEOREM BTrieIsMap == Spec => BTrieImplementsMap
<1>1. Spec => []Inv
  BY TriesImplementBTrie, InitInv, StepInv, PTL DEF BTrieSpec
<1>2. Inv /\ PendingInv /\ [Next]_vars => PendingInv'
  BY PendingStep
<1>3. Inv /\ Inv' /\ VcInv /\ PendingInv /\ [Next]_vars => [BTrieMap!Next]_(BTrieMap!mapVars)
  <2> SUFFICES ASSUME Inv, Inv', VcInv, PendingInv, [Next]_vars
               PROVE  [BTrieMap!Next]_(BTrieMap!mapVars)
    OBVIOUS
  <2>1. MapSteps
    BY EveryStepMaps
  <2> QED BY <2>1 DEF MapSteps, MapNow, BTrieMap!mapVars
<1> QED BY <1>1, <1>2, <1>3, MapInit, PendingInit, VcInitInv, VcStepInv, PTL
        DEF Spec, BTrieImplementsMap, BTrieMap!Spec

-----------------------------------------------------------------------------
(* The variable-stride trie as a tree: every node in use has one path, and  *)
(* an entry stands for that path followed by its own prefix.  No entry      *)
(* holds its node's path; own(n) is the path as far as the proof knows it.  *)

Live == {n \in Nodes : n[2] \in 1 .. node_num[n[1]]}
EntryIn(n, i) == vcbram[n].bin[i]
To(own, n, b) == <<StageOf(Len(own[n]) + 1), GetChild(n, b)>>

PathsTyped(own) == \A n \in Live : own[n] \in Seq(Bit) /\ own[n] # <<>>
PathsDistinct(own) == \A n, m \in Live : own[n] = own[m] => n = m
FirstNodes(own) == /\ <<0, 1>> \in Live /\ own[<<0, 1>>] = <<0>>
                   /\ <<0, 2>> \in Live /\ own[<<0, 2>>] = <<1>>
ChildrenTrue(own) ==
  \A n \in Live, b \in Bit : GetChild(n, b) # 0 =>
    To(own, n, b) \in Live /\ own[To(own, n, b)] = Append(own[n], b)
ParentsLead(own) ==
  \A n \in Live : Len(own[n]) > 1 =>
    \E u \in Live, b \in Bit : own[n] = Append(own[u], b) /\ GetChild(u, b) # 0
\* What was never handed out is as it was loaded.
Pristine ==
  \A n \in Nodes \ Live : /\ vcbram[n].lc = 0 /\ vcbram[n].rc = 0
                          /\ \A i \in Slots(n[1]) : EntryIn(n, i) = NoEntry
Tree(own) == /\ PathsTyped(own) /\ PathsDistinct(own) /\ FirstNodes(own)
             /\ ChildrenTrue(own) /\ ParentsLead(own) /\ Pristine

LEMMA BelowType ==
  ASSUME NEW p \in Seq(Bit), NEW k \in 0 .. Len(p)
  PROVE  /\ Below(p, k) \in Seq(Bit) /\ Len(Below(p, k)) = Len(p) - k
         /\ \A i \in 1 .. Len(p) - k : Below(p, k)[i] = p[k + i]
BY DEF Below, Bit

LEMMA SplitOnce ==
  ASSUME NEW p \in Seq(Bit), NEW q \in Seq(Bit), NEW k \in 0 .. Len(p), k \in 0 .. Len(q),
         Cut(p, k) = Cut(q, k), Below(p, k) = Below(q, k)
  PROVE  p = q
<1>1. Len(p) = Len(q)
  BY BelowType
<1>2. \A i \in 1 .. k : p[i] = q[i]
  BY CutType
<1>3. \A i \in 1 .. Len(p) - k : p[k + i] = q[k + i]
  <2>1. \A i \in 1 .. Len(p) - k : Below(p, k)[i] = p[k + i]
    BY BelowType
  <2>2. \A i \in 1 .. Len(q) - k : Below(q, k)[i] = q[k + i]
    BY BelowType
  <2> QED BY <1>1, <2>1, <2>2
<1>4. \A j \in 1 .. Len(p) : p[j] = q[j]
  <2> SUFFICES ASSUME NEW j \in 1 .. Len(p) PROVE p[j] = q[j]
    OBVIOUS
  <2>1. CASE j =< k
    BY <1>2, <2>1
  <2>2. CASE j > k
    <3>1. j - k \in 1 .. Len(p) - k /\ k + (j - k) = j
      BY <2>2
    <3> QED BY <1>3, <3>1
  <2> QED BY <2>1, <2>2
<1> QED BY <1>1, <1>4

LEMMA AppendOnce ==
  ASSUME NEW s \in Seq(Bit), NEW t \in Seq(Bit), NEW b \in Bit, NEW c \in Bit,
         Append(s, b) = Append(t, c)
  PROVE  s = t /\ b = c
<1>1. Len(s) = Len(t)
  BY CutAppend
<1>2. b = c
  BY <1>1, CutAppend
<1>3. \A i \in 1 .. Len(s) : s[i] = Append(s, b)[i] /\ t[i] = Append(t, c)[i]
  BY <1>1
<1> QED BY <1>1, <1>2, <1>3

\* What the walk of a prefix adds at depth d.
VcDeeper(node, p, d) ==
  IF d = 0 THEN {Root}
  ELSE {<<StageOf(d), GetChild(up, p[d])>> : up \in {n \in node[d - 1] : GetChild(n, p[d]) # 0}}
IsPath(node, p, k) == node = [d \in 0 .. k |-> VcDeeper(node, p, d)]

LEMMA VcDeeperSame ==
  ASSUME NEW f, NEW g, NEW p, NEW d, d = 0 \/ f[d - 1] = g[d - 1]
  PROVE  VcDeeper(f, p, d) = VcDeeper(g, p, d)
BY DEF VcDeeper

LEMMA PathExists == ASSUME NEW p, NEW k \in Nat PROVE \E f : IsPath(f, p, k)
<1> DEFINE S == {n \in Nat : ~\E f : IsPath(f, p, n)}
<1> SUFFICES ASSUME S # {} PROVE FALSE
  OBVIOUS
<1>1. PICK n \in S : \A m \in S : n =< m
  <2> HIDE DEF S
  <2>1. \A x \in S : x \in Nat
    BY DEF S
  <2> QED BY <2>1, LeastNat
<1>2. n \in Nat /\ ~\E f : IsPath(f, p, n)
  OBVIOUS
<1>3. IsPath([d \in 0 .. 0 |-> {Root}], p, 0)
  <2>1. \A f, d : d \in 0 .. 0 => VcDeeper(f, p, d) = {Root}
    BY DEF VcDeeper
  <2> QED BY <2>1 DEF IsPath
<1>4. n # 0
  BY <1>2, <1>3
<1>5. n - 1 \in Nat /\ n - 1 \notin S
  BY <1>1, <1>2, <1>4
<1>6. PICK g : IsPath(g, p, n - 1)
  BY <1>5
<1> DEFINE f == [d \in 0 .. n |-> IF d = n THEN VcDeeper(g, p, n) ELSE g[d]]
<1>7. \A d \in 0 .. n : d = 0 \/ f[d - 1] = g[d - 1]
  BY <1>2, <1>5
<1>8. \A d \in 0 .. n : VcDeeper(f, p, d) = VcDeeper(g, p, d)
  <2> HIDE DEF f
  <2> QED BY <1>7, VcDeeperSame
<1>9. ASSUME NEW d \in 0 .. n PROVE f[d] = VcDeeper(g, p, d)
  <2>1. CASE d = n
    BY <2>1
  <2>2. CASE d # n
    <3>1. d \in 0 .. n - 1
      BY <1>2, <1>5, <2>2
    <3> QED BY <1>6, <2>2, <3>1 DEF IsPath
  <2> QED BY <2>1, <2>2
<1>10. f = [d \in 0 .. n |-> VcDeeper(f, p, d)]
  <2>1. f = [d \in 0 .. n |-> f[d]]
    OBVIOUS
  <2> HIDE DEF f
  <2> QED BY <1>8, <1>9, <2>1
<1> QED BY <1>2, <1>10 DEF IsPath

LEMMA PathIs ==
  ASSUME NEW p, Len(p) \in Nat PROVE IsPath(Path(p), p, Len(p))
<1> DEFINE f == CHOOSE f : IsPath(f, p, Len(p))
<1>1. IsPath(f, p, Len(p))
  BY PathExists
<1>2. Path(p) = f
  BY DEF Path, IsPath, VcDeeper
<1> QED BY <1>1, <1>2

\* The node of the first d bits of p.
NodesAt(own, p, d) == IF d = 0 THEN {Root} ELSE {n \in Live : own[n] = Cut(p, d)}

LEMMA PathFound ==
  ASSUME VcTypeOK, NEW own, Tree(own), NEW p \in Seq(Bit), NEW k \in 0 .. Len(p)
  PROVE  Path(p)[k] = NodesAt(own, p, k)
<1> DEFINE f == Path(p)
           At(d) == NodesAt(own, p, d)
<1>1. Len(p) \in Nat /\ \A d \in 0 .. Len(p) : f[d] = VcDeeper(f, p, d)
  BY PathIs DEF IsPath
<1>2. f[0] = At(0)
  <2>1. 0 \in 0 .. Len(p)
    BY <1>1
  <2> QED BY <1>1, <2>1 DEF VcDeeper, NodesAt
<1>3. ASSUME NEW d \in 1 .. Len(p), f[d - 1] = At(d - 1) PROVE f[d] = At(d)
  <2>1. /\ d \in 0 .. Len(p) /\ d - 1 \in 0 .. Len(p) /\ d - 1 \in 0 .. Len(p) - 1
        /\ d - 1 + 1 = d /\ d # 0 /\ d \in Nat /\ p[d] \in Bit
    BY <1>1
  <2>2. f[d] = {<<StageOf(d), GetChild(up, p[d])>> :
                  up \in {n \in At(d - 1) : GetChild(n, p[d]) # 0}}
    BY <1>1, <1>3, <2>1 DEF VcDeeper
  <2>3. /\ Cut(p, d - 1) \in Seq(Bit) /\ Len(Cut(p, d - 1)) = d - 1
        /\ Append(Cut(p, d - 1), p[d]) = Cut(p, d)
        /\ Cut(p, d) \in Seq(Bit) /\ Len(Cut(p, d)) = d /\ Cut(p, d) # <<>>
    <3> DEFINE j == d - 1
    <3>1. j \in 0 .. Len(p) /\ j \in 0 .. Len(p) - 1 /\ j + 1 = d
      BY <2>1
    <3>2. Cut(p, d) \in Seq(Bit) /\ Len(Cut(p, d)) = d
      BY <2>1, CutType
    <3>3. Cut(p, d) # <<>>
      BY <2>1, <3>2
    <3> HIDE DEF j
    <3>4. Cut(p, j) \in Seq(Bit) /\ Len(Cut(p, j)) = j /\ Append(Cut(p, j), p[d]) = Cut(p, d)
      BY <3>1, CutType, CutNext
    <3> QED BY <3>2, <3>3, <3>4 DEF j
  <2>4. ASSUME NEW up \in At(d - 1), GetChild(up, p[d]) # 0
        PROVE  <<StageOf(d), GetChild(up, p[d])>> \in At(d)
    <3>1. CASE d = 1
      <4>1. up = Root /\ Cut(p, d) = <<p[d]>>
        BY <2>1, <3>1 DEF NodesAt, Cut
      <4>2. StageOf(d) = 0 /\ GetChild(up, p[d]) = 1 + p[d]
        BY <3>1, <4>1, VcShapeAssumption DEF StageOf, GetChild
      <4>3. <<0, 1 + p[d]>> \in Live /\ own[<<0, 1 + p[d]>>] = <<p[d]>>
        <5>1. p[d] = 0 \/ p[d] = 1
          BY <2>1 DEF Bit
        <5> QED BY <5>1 DEF Tree, FirstNodes
      <4> QED BY <2>1, <4>1, <4>2, <4>3 DEF NodesAt
    <3>2. CASE d # 1
      <4>1. up \in Live /\ own[up] = Cut(p, d - 1) /\ Len(own[up]) + 1 = d
        BY <2>1, <2>3, <3>2 DEF NodesAt
      <4>2. /\ To(own, up, p[d]) = <<StageOf(d), GetChild(up, p[d])>>
            /\ To(own, up, p[d]) \in Live /\ own[To(own, up, p[d])] = Append(own[up], p[d])
        BY <2>1, <2>4, <4>1 DEF Tree, ChildrenTrue, To
      <4> QED BY <2>1, <2>3, <4>1, <4>2 DEF NodesAt
    <3> QED BY <3>1, <3>2
  <2>5. \A a, c \in At(d) : a = c
    BY <2>1 DEF NodesAt, Tree, PathsDistinct
  <2>6. ASSUME NEW a \in At(d)
        PROVE  \E up \in At(d - 1) : GetChild(up, p[d]) # 0
    <3>0. a \in Live /\ own[a] = Cut(p, d)
      BY <2>1 DEF NodesAt
    <3>1. CASE d = 1
      <4>1. Root \in At(d - 1) /\ GetChild(Root, p[d]) # 0
        BY <2>1, <3>1 DEF NodesAt, GetChild, Bit
      <4> QED BY <4>1
    <3>2. CASE d # 1
      <4>1. Len(own[a]) > 1
        BY <2>1, <2>3, <3>0, <3>2
      <4>2. PICK u \in Live, b \in Bit : own[a] = Append(own[u], b) /\ GetChild(u, b) # 0
        BY <3>0, <4>1 DEF Tree, ParentsLead
      <4>3. own[u] \in Seq(Bit) /\ Append(own[u], b) = Append(Cut(p, d - 1), p[d])
        BY <2>3, <3>0, <4>2 DEF Tree, PathsTyped
      <4>4. own[u] = Cut(p, d - 1) /\ b = p[d]
        <5> DEFINE s == own[u]
                   t == Cut(p, d - 1)
                   c == p[d]
        <5>1. s \in Seq(Bit) /\ t \in Seq(Bit) /\ c \in Bit /\ Append(s, b) = Append(t, c)
          BY <2>1, <2>3, <4>3
        <5> HIDE DEF s, t, c
        <5>2. s = t /\ b = c
          BY <5>1, AppendOnce
        <5> QED BY <5>2 DEF s, t, c
      <4>5. d - 1 # 0
        BY <2>1, <3>2
      <4> QED BY <4>2, <4>4, <4>5 DEF NodesAt
    <3> QED BY <3>1, <3>2
  <2> HIDE DEF At, f
  <2>7. f[d] \subseteq At(d)
    BY <2>2, <2>4
  <2>8. At(d) \subseteq f[d]
    <3> SUFFICES ASSUME NEW a \in At(d) PROVE a \in f[d]
      OBVIOUS
    <3>1. PICK up \in At(d - 1) : GetChild(up, p[d]) # 0
      BY <2>6
    <3>2. a = <<StageOf(d), GetChild(up, p[d])>>
      BY <2>4, <2>5, <3>1
    <3> QED BY <2>2, <3>1, <3>2
  <2> QED BY <2>7, <2>8
<1> HIDE DEF At, f
<1> DEFINE S == {d \in 0 .. Len(p) : f[d] # At(d)}
<1>4. S = {}
  <2> SUFFICES ASSUME S # {} PROVE FALSE
    OBVIOUS
  <2>1. PICK d \in S : \A e \in S : d =< e
    <3> HIDE DEF S
    <3>1. S \subseteq Nat
      BY <1>1 DEF S
    <3> QED BY <3>1, LeastNat
  <2>2. d \in 0 .. Len(p) /\ d # 0 /\ f[d] # At(d)
    BY <1>2
  <2>3. d \in 1 .. Len(p) /\ d - 1 \in 0 .. Len(p) /\ d - 1 < d
    BY <1>1, <2>2
  <2>4. d - 1 \notin S
    BY <2>1, <2>2, <2>3
  <2> QED BY <1>3, <2>2, <2>3, <2>4
<1> QED BY <1>4 DEF f, At

-----------------------------------------------------------------------------
(* Entries: where the entry of a prefix may be, and where it is. *)

Unused(e) == e.length = INVALID /\ e.next_hop = INVALID
InUse(e) == /\ e.length # INVALID /\ e.length = Len(e.prefix)
            /\ e.next_hop # INVALID
HalfPcs == {"prefix", "hop", "invalidate hop"}
Half(n, i) == vc.pc \in HalfPcs /\ n = vc.at /\ i = vc.slot

\* The place holds what stands for p, in use or not.
Claim(own, p, n, i) ==
  /\ n \in Live /\ i \in Slots(n[1])
  /\ Len(own[n]) =< Len(p) /\ Len(p) =< Len(own[n]) + MAX_PREFIX_LEN
  /\ own[n] = Cut(p, Len(own[n]))
  /\ EntryIn(n, i).prefix = Below(p, Len(own[n]))
Routed(own, p, n, i) == Claim(own, p, n, i) /\ InUse(EntryIn(n, i))
Unrouted(own, p) == \A n, i : ~Routed(own, p, n, i)
Before(own, n, i, m, j) == Len(own[n]) < Len(own[m]) \/ (n = m /\ i =< j)
VcStored(own, p, h) == \E n, i : Routed(own, p, n, i) /\ EntryIn(n, i).next_hop = h

EntriesWhole ==
  \A n \in Live : \A i \in Slots(n[1]) :
    Half(n, i) \/ Unused(EntryIn(n, i)) \/ InUse(EntryIn(n, i))
\* What is known of an entry that is being written.
HalfTrue ==
  \A n, i : Half(n, i) =>
    /\ vc.pc \in {"prefix", "hop"} => /\ EntryIn(n, i).next_hop = INVALID
                                     /\ EntryIn(n, i).length = Len(vc.prefix) - vc.depth
    /\ vc.pc = "hop" => EntryIn(n, i).prefix = Below(vc.prefix, vc.depth)
    /\ vc.pc = "invalidate hop" => EntryIn(n, i).length = INVALID
\* The entry of a route comes before all that could be taken for it.
FirstTrue(own) ==
  \A p \in Prefixes : \A n, i, m, j :
    Routed(own, p, n, i) /\ Claim(own, p, m, j) => Before(own, n, i, m, j)

\* A call for prefix p that stands at place (a, s), at depth d.
Inserting == {"insert", "prefix", "hop", "excessive"}
Stands(own, p, a, s, d) ==
  /\ vc.pc \in Inserting => Unrouted(own, p)
  /\ vc.pc = "insert" => \A n, i : Claim(own, p, n, i) => d =< Len(own[n])
  /\ vc.pc \in {"prefix", "hop"} =>
       /\ d =< Len(p) /\ Len(p) =< d + MAX_PREFIX_LEN
       /\ \A n, i : Claim(own, p, n, i) => Before(own, a, s, n, i)
  /\ vc.pc \in {"insert", "prefix", "hop"} /\ d =< Len(p) => a \in NodesAt(own, p, d)
  /\ vc.pc \in {"modify", "invalidate"} => Routed(own, p, a, s)
  /\ vc.pc \in InPlace => a \in Live
  /\ vc.pc \in {"invalidate", "invalidate hop"} => p \in Prefixes
CallStands(own) ==
  \A p, a, s, d : p = vc.prefix /\ a = vc.at /\ s = vc.slot /\ d = vc.depth
                    => Stands(own, p, a, s, d)
VcFits(own) == Tree(own) /\ EntriesWhole /\ HalfTrue /\ FirstTrue(own) /\ CallStands(own)

LEMMA EntryType ==
  ASSUME VcTypeOK, NEW n \in Nodes, NEW i \in Slots(n[1])
  PROVE  /\ EntryIn(n, i) \in Entry /\ EntryIn(n, i).prefix \in Seq(Bit)
         /\ EntryIn(n, i).length \in 0 .. MAX_PREFIX_LEN \cup {INVALID}
         /\ EntryIn(n, i).next_hop \in VcHops \cup {INVALID}
BY DEF VcTypeOK, EntryIn, Entry, Bit

LEMMA PrefixType ==
  ASSUME NEW p \in Prefixes PROVE p \in Seq(Bit) /\ Len(p) \in Nat \ {0}
BY DepthOfPrefix

LEMMA LiveType ==
  ASSUME NEW own, Tree(own), NEW n \in Live
  PROVE  n \in Nodes /\ n # Root /\ own[n] \in Seq(Bit) /\ Len(own[n]) \in Nat
BY DEF Live, Tree, PathsTyped, Root

\* A place stands for one prefix.
LEMMA ClaimOnce ==
  ASSUME NEW own, Tree(own), NEW p \in Prefixes, NEW q \in Prefixes, NEW n, NEW i,
         Claim(own, p, n, i), Claim(own, q, n, i)
  PROVE  p = q
<1> DEFINE k == Len(own[n])
<1>1. /\ k \in Nat /\ k =< Len(p) /\ k =< Len(q)
      /\ Cut(p, k) = Cut(q, k) /\ Below(p, k) = Below(q, k)
  BY LiveType DEF Claim
<1>2. p \in Seq(Bit) /\ q \in Seq(Bit) /\ Len(p) \in Nat /\ Len(q) \in Nat
  BY PrefixType
<1> HIDE DEF k
<1>3. k \in 0 .. Len(p) /\ k \in 0 .. Len(q)
  BY <1>1, <1>2
<1> QED BY <1>1, <1>2, <1>3, SplitOnce

\* Two claims at one depth are in one node.
LEMMA ClaimNode ==
  ASSUME NEW own, Tree(own), NEW p, NEW n, NEW i, NEW m, NEW j,
         Claim(own, p, n, i), Claim(own, p, m, j), Len(own[n]) = Len(own[m])
  PROVE  n = m
BY DEF Claim, Tree, PathsDistinct

\* A route has one entry.
LEMMA RoutedOnce ==
  ASSUME VcTypeOK, NEW own, Tree(own), FirstTrue(own), NEW p \in Prefixes,
         NEW n, NEW i, NEW m, NEW j, Routed(own, p, n, i), Routed(own, p, m, j)
  PROVE  n = m /\ i = j
<1>1. Before(own, n, i, m, j) /\ Before(own, m, j, n, i)
  BY DEF FirstTrue, Routed
<1>2. n \in Live /\ m \in Live /\ i \in Slots(n[1]) /\ j \in Slots(m[1])
  BY DEF Routed, Claim
<1>3. Len(own[n]) \in Nat /\ Len(own[m]) \in Nat
  BY <1>2, LiveType
<1>4. n = m /\ i =< j /\ j =< i
  BY <1>1, <1>3 DEF Before
<1>5. i \in Int /\ j \in Int
  BY <1>2, LiveType, VcShapeAssumption DEF Slots, Nodes
<1> QED BY <1>4, <1>5

LEMMA LengthInUse ==
  ASSUME VcTypeOK, NEW own, Tree(own), NEW p \in Prefixes, NEW n, NEW i, Routed(own, p, n, i)
  PROVE  /\ EntryIn(n, i).length = Len(p) - Len(own[n])
         /\ EntryIn(n, i).length \in 0 .. MAX_PREFIX_LEN
         /\ EntryIn(n, i).next_hop \in VcHops
<1>1. n \in Nodes /\ i \in Slots(n[1]) /\ Len(own[n]) \in Nat /\ Len(own[n]) =< Len(p)
  BY LiveType DEF Routed, Claim
<1>2. Len(Below(p, Len(own[n]))) = Len(p) - Len(own[n])
  <2> DEFINE k == Len(own[n])
  <2>1. p \in Seq(Bit) /\ k \in 0 .. Len(p)
    BY <1>1, PrefixType
  <2> HIDE DEF k
  <2>2. Len(Below(p, k)) = Len(p) - k
    BY <2>1, BelowType
  <2> QED BY <2>2 DEF k
<1> QED BY <1>1, <1>2, EntryType DEF Routed, Claim, InUse

\* lookup_entry's matches are the claims of the right length.
LEMMA MatchesAre ==
  ASSUME VcTypeOK, NEW own, Tree(own), NEW p \in Prefixes
  PROVE  /\ \A x \in Matches(p) :
              \E n, i : /\ x = <<Len(own[n]), n, i>> /\ Claim(own, p, n, i)
                        /\ EntryIn(n, i).length = Len(p) - Len(own[n])
         /\ \A n, i : Claim(own, p, n, i) /\ EntryIn(n, i).length = Len(p) - Len(own[n])
                        => <<Len(own[n]), n, i>> \in Matches(p)
<1>1. p \in Seq(Bit) /\ Len(p) \in Nat
  BY PrefixType
<1>2. \A d \in 0 .. Len(p) : Path(p)[d] = NodesAt(own, p, d)
  BY <1>1, PathFound
<1>3. ASSUME NEW x \in Matches(p)
      PROVE  \E n, i : /\ x = <<Len(own[n]), n, i>> /\ Claim(own, p, n, i)
                       /\ EntryIn(n, i).length = Len(p) - Len(own[n])
  <2>1. PICK d \in 0 .. Len(p) :
          /\ Len(p) =< d + MAX_PREFIX_LEN
          /\ \E n \in Path(p)[d] : \E i \in DOMAIN BinOf(n) :
               /\ BinOf(n)[i].prefix = Below(p, d) /\ BinOf(n)[i].length = Len(p) - d
               /\ x = <<d, n, i>>
    BY DEF Matches
  <2>2. PICK n \in Path(p)[d] : \E i \in DOMAIN BinOf(n) :
               /\ BinOf(n)[i].prefix = Below(p, d) /\ BinOf(n)[i].length = Len(p) - d
               /\ x = <<d, n, i>>
    BY <2>1
  <2>3. PICK i \in DOMAIN BinOf(n) :
               /\ BinOf(n)[i].prefix = Below(p, d) /\ BinOf(n)[i].length = Len(p) - d
               /\ x = <<d, n, i>>
    BY <2>2
  <2>4. n \in Nodes /\ n # Root /\ i \in Slots(n[1]) /\ BinOf(n) = vcbram[n].bin
    BY BinSlots
  <2>5. n \in Live /\ own[n] = Cut(p, d)
    <3>1. n \in NodesAt(own, p, d)
      BY <1>2, <2>2
    <3> QED BY <2>4, <3>1 DEF NodesAt
  <2>6. Len(own[n]) = d /\ d \in Nat
    BY <1>1, <2>5, CutType
  <2>7. Claim(own, p, n, i)
    BY <1>1, <2>1, <2>3, <2>4, <2>5, <2>6 DEF Claim, EntryIn
  <2> QED BY <2>3, <2>4, <2>6, <2>7 DEF EntryIn
<1>4. ASSUME NEW n, NEW i, Claim(own, p, n, i),
             EntryIn(n, i).length = Len(p) - Len(own[n])
      PROVE  <<Len(own[n]), n, i>> \in Matches(p)
  <2> DEFINE d == Len(own[n])
  <2>1. /\ n \in Live /\ n \in Nodes /\ n # Root /\ i \in Slots(n[1])
        /\ d \in 0 .. Len(p) /\ d # 0 /\ Len(p) =< d + MAX_PREFIX_LEN
        /\ own[n] = Cut(p, d) /\ EntryIn(n, i).prefix = Below(p, d)
    <3>1. n \in Live /\ i \in Slots(n[1]) /\ own[n] \in Seq(Bit) /\ own[n] # <<>>
      BY <1>4 DEF Claim, Tree, PathsTyped
    <3>2. d \in Nat /\ d # 0
      BY <3>1
    <3> QED BY <1>1, <1>4, <3>1, <3>2, LiveType DEF Claim
  <2>2. BinOf(n) = vcbram[n].bin /\ i \in DOMAIN BinOf(n)
    BY <2>1 DEF BinOf, NodeAt, VcTypeOK
  <2>3. n \in Path(p)[d]
    BY <1>2, <2>1 DEF NodesAt
  <2>4. BinOf(n)[i].prefix = Below(p, d) /\ BinOf(n)[i].length = Len(p) - d
    BY <1>4, <2>1, <2>2 DEF EntryIn
  <2> HIDE DEF d
  <2>5. <<d, n, i>> \in Matches(p)
    BY <2>1, <2>2, <2>3, <2>4 DEF Matches
  <2> QED BY <2>5 DEF d
<1> QED BY <1>3, <1>4

\* Whatever is half written, a lookup shows the routes that have an entry.
VcRoutesTrue ==
  \A own : VcFits(own) => \A p \in Prefixes :
    /\ \A h : VcStored(own, p, h) => Route(p) = h
    /\ Unrouted(own, p) => Route(p) = BTrieRoute(p)

LEMMA FoundInUse ==
  ASSUME VcTypeOK, NEW own, VcFits(own), NEW p \in Prefixes, InVcTrie(p)
  PROVE  \E n, i : /\ VCTrieLookup(p) = <<n, i>> /\ Claim(own, p, n, i)
                   /\ EntryAt(<<n, i>>) = EntryIn(n, i)
                   /\ Routed(own, p, n, i) \/ (isInvalid(EntryIn(n, i)) /\ Half(n, i))
                   /\ \A m, j : Routed(own, p, m, j) => m = n /\ j = i
<1>1. PICK x : FirstMatch(p, x) /\ VCTrieLookup(p) = <<x[2], x[3]>>
  BY LookupFirst
<1>2. Tree(own) /\ FirstTrue(own) /\ EntriesWhole /\ HalfTrue
  BY DEF VcFits
<1>3. PICK n, i : /\ x = <<Len(own[n]), n, i>> /\ Claim(own, p, n, i)
                  /\ EntryIn(n, i).length = Len(p) - Len(own[n])
  BY <1>1, <1>2, MatchesAre DEF FirstMatch
<1>4. /\ n \in Live /\ n \in Nodes /\ i \in Slots(n[1]) /\ Len(own[n]) \in Nat
      /\ Len(p) =< Len(own[n]) + MAX_PREFIX_LEN /\ Len(own[n]) =< Len(p)
  BY <1>2, <1>3, LiveType DEF Claim
<1>5. EntryIn(n, i).length # INVALID
  BY <1>3, <1>4, PrefixType, VcShapeAssumption DEF INVALID
<1>6. Routed(own, p, n, i) \/ (isInvalid(EntryIn(n, i)) /\ Half(n, i))
  <2>1. CASE InUse(EntryIn(n, i))
    BY <1>3, <2>1 DEF Routed
  <2>2. CASE Half(n, i)
    <3>1. EntryIn(n, i).next_hop = INVALID
      BY <1>2, <1>5, <2>2 DEF HalfTrue, Half, HalfPcs
    <3> QED BY <2>2, <3>1 DEF isInvalid, INVALID
  <2> QED BY <1>2, <1>4, <1>5, <2>1, <2>2 DEF EntriesWhole, Unused
<1>7. ASSUME NEW m, NEW j, Routed(own, p, m, j) PROVE m = n /\ j = i
  <2>1. Claim(own, p, m, j) /\ <<Len(own[m]), m, j>> \in Matches(p)
    BY <1>2, <1>7, LengthInUse, MatchesAre DEF Routed
  <2>2. /\ m \in Live /\ j \in Slots(m[1]) /\ Len(own[m]) \in Nat /\ m \in Nodes
    BY <1>2, <2>1, LiveType DEF Claim
  <2>3. Len(own[n]) < Len(own[m]) \/ (Len(own[n]) = Len(own[m]) /\ i =< j)
    BY <1>1, <1>3, <2>1 DEF FirstMatch
  <2>4. Before(own, m, j, n, i)
    BY <1>2, <1>3, <1>7 DEF FirstTrue
  <2>5. m = n /\ i =< j /\ j =< i
    BY <1>2, <1>3, <1>4, <2>1, <2>2, <2>3, <2>4, ClaimNode DEF Before
  <2>6. i \in Int /\ j \in Int
    BY <1>4, <2>2, VcShapeAssumption DEF Slots, Nodes
  <2> QED BY <2>5, <2>6
<1> QED BY <1>1, <1>3, <1>6, <1>7 DEF EntryAt, EntryIn

LEMMA HopInUse ==
  ASSUME VcTypeOK, NEW own, Tree(own), NEW p \in Prefixes, NEW n, NEW i, Routed(own, p, n, i)
  PROVE  ~isInvalid(EntryIn(n, i))
<1>1. /\ EntryIn(n, i).length \in 0 .. MAX_PREFIX_LEN /\ EntryIn(n, i).next_hop \in VcHops
  BY LengthInUse
<1>2. \A l \in 0 .. MAX_PREFIX_LEN : ~(l >= 31)
  BY VcShapeAssumption DEF INVALID
<1>3. \A h \in VcHops : ~(h >= 31)
  BY VcHopsAssumption DEF INVALID
<1> QED BY <1>1, <1>2, <1>3 DEF isInvalid

LEMMA VcRoutesFound == VcTypeOK => VcRoutesTrue
<1> SUFFICES ASSUME VcTypeOK, NEW own, VcFits(own), NEW p \in Prefixes
             PROVE  /\ \A h : VcStored(own, p, h) => Route(p) = h
                    /\ Unrouted(own, p) => Route(p) = BTrieRoute(p)
  BY DEF VcRoutesTrue
<1>0. Tree(own)
  BY DEF VcFits
<1>1. ASSUME NEW h, VcStored(own, p, h) PROVE Route(p) = h
  <2>1. PICK n, i : Routed(own, p, n, i) /\ EntryIn(n, i).next_hop = h
    BY <1>1 DEF VcStored
  <2>2. <<Len(own[n]), n, i>> \in Matches(p)
    BY <1>0, <2>1, LengthInUse, MatchesAre DEF Routed
  <2>3. InVcTrie(p)
    <3>1. Matches(p) # {}
      BY <2>2
    <3> QED BY <3>1 DEF InVcTrie, VCTrieLookup
  <2>4. VCTrieLookup(p) = <<n, i>> /\ EntryAt(<<n, i>>) = EntryIn(n, i)
    BY <2>1, <2>3, FoundInUse
  <2>5. ~isInvalid(EntryIn(n, i))
    BY <1>0, <2>1, HopInUse
  <2> QED BY <2>1, <2>3, <2>4, <2>5 DEF Route, InVcTrie
<1>2. ASSUME Unrouted(own, p) PROVE Route(p) = BTrieRoute(p)
  <2>1. CASE InVcTrie(p)
    <3>1. PICK n, i : /\ VCTrieLookup(p) = <<n, i>> /\ EntryAt(<<n, i>>) = EntryIn(n, i)
                      /\ isInvalid(EntryIn(n, i))
      BY <1>2, <2>1, FoundInUse DEF Unrouted
    <3> QED BY <3>1 DEF Route
  <2>2. CASE ~InVcTrie(p)
    BY <2>2 DEF Route, InVcTrie
  <2> QED BY <2>1, <2>2
<1> QED BY <1>1, <1>2

LEMMA VcRoutesFoundNext == VcTypeOK' => VcRoutesTrue'
BY VcRoutesFound, PTL

-----------------------------------------------------------------------------
(* What writing a word, or nothing, does to the tree and to the claims. *)

LEMMA Written ==
  ASSUME VcTypeOK, NEW own, Tree(own), NEW a \in Live, NEW s \in Slots(a[1]), NEW e,
         vcbram' = [vcbram EXCEPT ![a].bin[s] = e], node_num' = node_num
  PROVE  /\ Live' = Live /\ Tree(own)' /\ EntryIn(a, s)' = e
         /\ \A n \in Nodes : \A i \in Slots(n[1]) :
              n # a \/ i # s => EntryIn(n, i)' = EntryIn(n, i)
<1>1. Live' = Live
  BY DEF Live
<1>2. a \in Nodes
  BY LiveType
<1>3. \A n \in Nodes : vcbram[n] \in [lc : Nat, rc : Nat, bin : [Slots(n[1]) -> Entry]]
  BY DEF VcTypeOK
<1>4. \A n \in Nodes : vcbram'[n] = IF n = a THEN [vcbram[a] EXCEPT !.bin[s] = e] ELSE vcbram[n]
  BY <1>2 DEF VcTypeOK
<1>5. \A n \in Nodes : vcbram'[n].lc = vcbram[n].lc /\ vcbram'[n].rc = vcbram[n].rc
  BY <1>3, <1>4
<1>6. vcbram'[a].bin = [vcbram[a].bin EXCEPT ![s] = e]
  BY <1>2, <1>3, <1>4
<1>7. EntryIn(a, s)' = e
  BY <1>2, <1>3, <1>6 DEF EntryIn
<1>8. \A n \in Nodes : \A i \in Slots(n[1]) : n # a \/ i # s => EntryIn(n, i)' = EntryIn(n, i)
  BY <1>2, <1>3, <1>4, <1>6 DEF EntryIn
<1>9. \A n, b : GetChild(n, b)' = GetChild(n, b)
  BY <1>5 DEF GetChild, NodeAt
<1>10. /\ PathsTyped(own)' /\ PathsDistinct(own)' /\ FirstNodes(own)'
  BY <1>1 DEF Tree, PathsTyped, PathsDistinct, FirstNodes
<1>11. ChildrenTrue(own)' /\ ParentsLead(own)'
  <2>1. \A n, b : To(own, n, b)' = To(own, n, b)
    BY <1>9 DEF To
  <2> QED BY <1>1, <1>9, <2>1 DEF Tree, ChildrenTrue, ParentsLead
<1>12. Pristine'
  BY <1>1, <1>5, <1>8 DEF Tree, Pristine
<1> QED BY <1>1, <1>7, <1>8, <1>10, <1>11, <1>12 DEF Tree

LEMMA TreeStays ==
  ASSUME NEW own, Tree(own), vcbram' = vcbram, node_num' = node_num
  PROVE  /\ Live' = Live /\ Tree(own)' /\ \A n, i : EntryIn(n, i)' = EntryIn(n, i)
<1>1. Live' = Live /\ \A n, i : EntryIn(n, i)' = EntryIn(n, i)
  BY DEF Live, EntryIn
<1>2. \A n, b : GetChild(n, b)' = GetChild(n, b)
  BY DEF GetChild, NodeAt
<1>3. \A n, b : To(own, n, b)' = To(own, n, b)
  BY <1>2 DEF To
<1> QED BY <1>1, <1>2, <1>3
        DEF Tree, PathsTyped, PathsDistinct, FirstNodes, ChildrenTrue, ParentsLead, Pristine

LEMMA ClaimSame ==
  ASSUME NEW own, NEW p, NEW n, NEW i, Live' = Live, n \in Live /\ i \in Slots(n[1]) =>
         EntryIn(n, i)'.prefix = EntryIn(n, i).prefix
  PROVE  Claim(own, p, n, i)' <=> Claim(own, p, n, i)
BY DEF Claim

LEMMA RoutedSame ==
  ASSUME NEW own, NEW p, NEW n, NEW i, Live' = Live,
         n \in Live /\ i \in Slots(n[1]) => EntryIn(n, i)' = EntryIn(n, i)
  PROVE  Routed(own, p, n, i)' <=> Routed(own, p, n, i)
BY DEF Routed, Claim, InUse

\* What is in use is not free to take.
LEMMA InUseValid ==
  ASSUME VcTypeOK, NEW n \in Nodes, NEW i \in Slots(n[1]), InUse(EntryIn(n, i))
  PROVE  ~isInvalid(EntryIn(n, i))
<1>1. /\ EntryIn(n, i).length \in 0 .. MAX_PREFIX_LEN /\ EntryIn(n, i).next_hop \in VcHops
  BY EntryType DEF InUse
<1>2. \A l \in 0 .. MAX_PREFIX_LEN : ~(l >= 31)
  BY VcShapeAssumption DEF INVALID
<1>3. \A h \in VcHops : ~(h >= 31)
  BY VcHopsAssumption DEF INVALID
<1> QED BY <1>1, <1>2, <1>3 DEF isInvalid

\* The place of the call.
LEMMA PlaceNow ==
  ASSUME TriesInv, NEW own, VcFits(own), vc.pc \in InPlace
  PROVE  /\ vc.at \in Live /\ vc.at \in Nodes /\ vc.slot \in Slots(vc.at[1])
         /\ BinOf(vc.at)[vc.slot] = EntryIn(vc.at, vc.slot)
<1>1. vc.at \in Nodes /\ vc.at # Root /\ vc.slot \in Slots(vc.at[1])
  BY DEF TriesInv, Standing
<1>2. vc.at \in Live
  BY DEF VcFits, CallStands, Stands
<1> QED BY <1>1, <1>2 DEF BinOf, NodeAt, EntryIn

\* An entry that is not in use before nor after leaves the routes as they are.
LEMMA RoutesUnmoved ==
  ASSUME VcTypeOK, NEW own, Tree(own), NEW a \in Live, NEW s \in Slots(a[1]), NEW e,
         vcbram' = [vcbram EXCEPT ![a].bin[s] = e], node_num' = node_num,
         ~InUse(EntryIn(a, s)), ~InUse(e)
  PROVE  \A p, n, i : /\ Routed(own, p, n, i)' <=> Routed(own, p, n, i)
                      /\ Routed(own, p, n, i) => EntryIn(n, i)' = EntryIn(n, i)
<1>1. /\ Live' = Live /\ EntryIn(a, s)' = e
      /\ \A n \in Nodes : \A i \in Slots(n[1]) :
           n # a \/ i # s => EntryIn(n, i)' = EntryIn(n, i)
  BY Written
<1> SUFFICES ASSUME NEW p, NEW n, NEW i
             PROVE  /\ Routed(own, p, n, i)' <=> Routed(own, p, n, i)
                    /\ Routed(own, p, n, i) => EntryIn(n, i)' = EntryIn(n, i)
  OBVIOUS
<1>2. CASE n = a /\ i = s
  BY <1>1, <1>2 DEF Routed, InUse
<1>3. CASE ~(n = a /\ i = s)
  <2>1. n \in Live /\ i \in Slots(n[1]) => EntryIn(n, i)' = EntryIn(n, i)
    BY <1>1, <1>3, LiveType
  <2> QED BY <1>1, <2>1, RoutedSame DEF Routed, Claim
<1> QED BY <1>2, <1>3

\* Each of these steps stores what it stores, and keeps the rest.
SameStored(own) == \A p \in Prefixes : \A h : VcStored(own, p, h)' <=> VcStored(own, p, h)
SameRouted(own) == \A p, n, i : /\ Routed(own, p, n, i)' <=> Routed(own, p, n, i)
                                /\ Routed(own, p, n, i) => EntryIn(n, i)' = EntryIn(n, i)
LEMMA SameRoutedStored == ASSUME NEW own, SameRouted(own) PROVE SameStored(own)
BY DEF SameRouted, SameStored, VcStored

-----------------------------------------------------------------------------
(* The steps of a call keep what is known and store what they should. *)

\* Steps that write no entry and leave the tree alone.
LEMMA NoWrite ==
  ASSUME NEW own, VcFits(own), vcbram' = vcbram, node_num' = node_num,
         vc.pc \notin HalfPcs, vc'.pc \notin HalfPcs, CallStands(own)'
  PROVE  VcFits(own)' /\ SameRouted(own)
<1>1. Live' = Live /\ Tree(own)' /\ \A n, i : EntryIn(n, i)' = EntryIn(n, i)
  BY TreeStays DEF VcFits
<1>2. \A p, n, i : /\ Claim(own, p, n, i)' <=> Claim(own, p, n, i)
                   /\ Routed(own, p, n, i)' <=> Routed(own, p, n, i)
  BY <1>1, ClaimSame, RoutedSame
<1>3. FirstTrue(own)'
  BY <1>2 DEF VcFits, FirstTrue, Before
<1>4. \A n, i : ~Half(n, i) /\ ~Half(n, i)'
  BY DEF Half
<1>5. EntriesWhole'
  BY <1>1, <1>4 DEF VcFits, EntriesWhole, Unused, InUse
<1>6. HalfTrue'
  BY <1>4 DEF HalfTrue
<1> QED BY <1>1, <1>2, <1>3, <1>5, <1>6 DEF VcFits, SameRouted

LEMMA VcFields ==
  ASSUME CallFields
  PROVE  /\ \A k : vc' = [vc EXCEPT !.pc = k] =>
              /\ vc'.pc = k /\ vc'.prefix = vc.prefix /\ vc'.hop = vc.hop
              /\ vc'.depth = vc.depth /\ vc'.at = vc.at /\ vc'.slot = vc.slot
         /\ \A k, i : vc' = [vc EXCEPT !.pc = k, !.slot = i] =>
              /\ vc'.pc = k /\ vc'.prefix = vc.prefix /\ vc'.hop = vc.hop
              /\ vc'.depth = vc.depth /\ vc'.at = vc.at /\ vc'.slot = i
         /\ \A x, d : vc' = [vc EXCEPT !.at = x, !.depth = d] =>
              /\ vc'.pc = vc.pc /\ vc'.prefix = vc.prefix /\ vc'.hop = vc.hop
              /\ vc'.depth = d /\ vc'.at = x /\ vc'.slot = vc.slot
         /\ vc' = VcIdle => vc'.pc = "idle"
<1>1. \A k : vc' = [vc EXCEPT !.pc = k] =>
        /\ vc'.pc = k /\ vc'.prefix = vc.prefix /\ vc'.hop = vc.hop
        /\ vc'.depth = vc.depth /\ vc'.at = vc.at /\ vc'.slot = vc.slot
  BY DEF CallFields
<1>2. \A k, i : vc' = [vc EXCEPT !.pc = k, !.slot = i] =>
        /\ vc'.pc = k /\ vc'.prefix = vc.prefix /\ vc'.hop = vc.hop
        /\ vc'.depth = vc.depth /\ vc'.at = vc.at /\ vc'.slot = i
  BY DEF CallFields
<1>3. \A x, d : vc' = [vc EXCEPT !.at = x, !.depth = d] =>
        /\ vc'.pc = vc.pc /\ vc'.prefix = vc.prefix /\ vc'.hop = vc.hop
        /\ vc'.depth = d /\ vc'.at = x /\ vc'.slot = vc.slot
  BY DEF CallFields
<1>4. vc' = VcIdle => vc'.pc = "idle"
  BY DEF VcIdle
<1> QED BY <1>1, <1>2, <1>3, <1>4

\* The claims of the call's prefix in its own node, while it looks for room.
LEMMA InsertFacts ==
  ASSUME TriesInv, NEW own, VcFits(own), vc.pc = "insert"
  PROVE  /\ vc.prefix \in Prefixes /\ vc.prefix \in Seq(Bit) /\ Len(vc.prefix) \in Nat \ {0}
         /\ vc.depth \in Nat /\ vc.hop \in Hops
         /\ Unrouted(own, vc.prefix)
         /\ vc.depth =< Len(vc.prefix) => vc.at \in NodesAt(own, vc.prefix, vc.depth)
         /\ \A n, i : Claim(own, vc.prefix, n, i) => vc.depth =< Len(own[n])
         /\ \A n \in Live : \A i \in Slots(n[1]) :
              Unused(EntryIn(n, i)) \/ (InUse(EntryIn(n, i)) /\ ~isInvalid(EntryIn(n, i)))
<1>1. vc.prefix \in Prefixes /\ vc.hop \in Hops /\ vc.depth \in Nat
  BY DEF TriesInv, VcInv, PassedOn, VcTypeOK
<1>2. Stands(own, vc.prefix, vc.at, vc.slot, vc.depth)
  BY DEF VcFits, CallStands
<1>3. \A n, i : ~Half(n, i)
  BY DEF Half, HalfPcs
<1>4. \A n \in Live : \A i \in Slots(n[1]) :
        Unused(EntryIn(n, i)) \/ (InUse(EntryIn(n, i)) /\ ~isInvalid(EntryIn(n, i)))
  BY <1>3, InUseValid, LiveType DEF VcFits, EntriesWhole, TriesInv
<1> QED BY <1>1, <1>2, <1>4, PrefixType DEF Stands, Inserting

\* The node on the way of an insertion.
LEMMA NodeHere ==
  ASSUME TriesInv, NEW own, VcFits(own), vc.pc = "insert", vc.depth =< Len(vc.prefix),
         vc.at # Root
  PROVE  /\ vc.at \in Live /\ own[vc.at] = Cut(vc.prefix, vc.depth)
         /\ Len(own[vc.at]) = vc.depth /\ vc.depth # 0
         /\ BinOf(vc.at) = vcbram[vc.at].bin /\ DOMAIN BinOf(vc.at) = Slots(vc.at[1])
<1>1. vc.at \in Live /\ own[vc.at] = Cut(vc.prefix, vc.depth) /\ vc.depth # 0
  BY InsertFacts DEF NodesAt
<1>2. Len(own[vc.at]) = vc.depth
  <2> DEFINE p == vc.prefix
             d == vc.depth
  <2>1. p \in Seq(Bit) /\ d \in 0 .. Len(p)
    BY InsertFacts
  <2> HIDE DEF p, d
  <2>2. Len(Cut(p, d)) = d
    BY <2>1, CutType
  <2> QED BY <1>1, <2>2 DEF p, d
<1>3. BinOf(vc.at) = vcbram[vc.at].bin /\ DOMAIN BinOf(vc.at) = Slots(vc.at[1])
  BY <1>1, LiveType DEF BinOf, NodeAt, TriesInv, VcTypeOK, VcFits
<1> QED BY <1>1, <1>2, <1>3

\* The first free entry of the node comes before all that could be taken for
\* the prefix: nothing above stands for it, and what is before in the bin is in
\* use for other prefixes.
LEMMA PlaceFits ==
  ASSUME TriesInv, NEW own, VcFits(own), VcPlaceLength
  PROVE  VcFits(own)' /\ SameRouted(own)
<1>1. PICK i : i = CHOOSE k \in FreeSlots : \A j \in FreeSlots : k =< j
  OBVIOUS
<1>2. /\ vc.pc = "insert" /\ ~MustDescend /\ vc.depth =< Len(vc.prefix)
      /\ vcbram' = [vcbram EXCEPT ![vc.at].bin[i].length = Len(vc.prefix) - vc.depth]
      /\ vc' = [vc EXCEPT !.pc = "prefix", !.slot = i]
      /\ node_num' = node_num
  BY <1>1 DEF VcPlaceLength
<1>3. i \in FreeSlots /\ \A j \in FreeSlots : i =< j
  <2>1. FreeSlots # {}
    BY <1>2 DEF MustDescend
  <2>2. \A j \in FreeSlots : j \in Nat
    BY BinSlots DEF TriesInv, FreeSlots
  <2>3. \E k \in FreeSlots : \A j \in FreeSlots : k =< j
    BY <2>1, <2>2, LeastNat
  <2> QED BY <1>1, <2>3
<1>4. PICK a, p, d : a = vc.at /\ p = vc.prefix /\ d = vc.depth
  OBVIOUS
<1>5. /\ a \in Live /\ a \in Nodes /\ own[a] = Cut(p, d) /\ Len(own[a]) = d /\ d # 0
      /\ i \in Slots(a[1]) /\ i \in Nat /\ Len(p) - d \in 0 .. MAX_PREFIX_LEN
      /\ DOMAIN BinOf(a) = Slots(a[1])
      /\ \A j \in Slots(a[1]) : BinOf(a)[j] = EntryIn(a, j)
  <2>1. vc.at \in Nodes /\ vc.at # Root /\ i \in Slots(vc.at[1]) /\ i \in Nat
        /\ Len(vc.prefix) - vc.depth \in 0 .. MAX_PREFIX_LEN
    BY <1>2, <1>3, PlaceFacts
  <2> QED BY <1>2, <1>4, <2>1, NodeHere DEF EntryIn
<1>6. /\ p \in Prefixes /\ Unrouted(own, p) /\ d \in Nat /\ Len(p) \in Nat /\ p \in Seq(Bit)
      /\ \A n, j : Claim(own, p, n, j) => d =< Len(own[n])
      /\ \A n \in Live : \A j \in Slots(n[1]) :
           Unused(EntryIn(n, j)) \/ (InUse(EntryIn(n, j)) /\ ~isInvalid(EntryIn(n, j)))
  BY <1>2, <1>4, InsertFacts
<1>7. Unused(EntryIn(a, i)) /\ ~InUse(EntryIn(a, i))
  <2>1. isInvalid(EntryIn(a, i))
    BY <1>3, <1>4, <1>5 DEF FreeSlots
  <2> QED BY <1>5, <1>6, <2>1 DEF Unused, InUse
<1>8. PICK e : e = [EntryIn(a, i) EXCEPT !.length = Len(p) - d]
  OBVIOUS
<1>9. /\ e.length = Len(p) - d /\ e.next_hop = INVALID /\ e.prefix = EntryIn(a, i).prefix
      /\ ~InUse(e)
  <2>1. EntryIn(a, i) \in Entry
    BY <1>5, EntryType DEF TriesInv
  <2> QED BY <1>7, <1>8, <2>1 DEF Entry, Unused, InUse
<1>10. vcbram' = [vcbram EXCEPT ![a].bin[i] = e]
  BY <1>2, <1>4, <1>8 DEF EntryIn
<1>11. VcTypeOK /\ Tree(own) /\ EntriesWhole /\ FirstTrue(own)
  BY DEF TriesInv, VcFits
<1>12. /\ Live' = Live /\ Tree(own)' /\ EntryIn(a, i)' = e
       /\ \A n \in Nodes : \A j \in Slots(n[1]) :
            n # a \/ j # i => EntryIn(n, j)' = EntryIn(n, j)
  <2>1. node_num' = node_num
    BY <1>2
  <2>2. a \in Live /\ i \in Slots(a[1])
    BY <1>5
  <2>3. VcTypeOK /\ Tree(own)
    BY <1>11
  <2> QED BY <1>10, <2>1, <2>2, <2>3, Written
<1>13. SameRouted(own)
  BY <1>2, <1>5, <1>7, <1>9, <1>10, <1>11, RoutesUnmoved DEF SameRouted
<1>14. \A q, n, j : Claim(own, q, n, j)' <=> Claim(own, q, n, j)
  <2> SUFFICES ASSUME NEW q, NEW n, NEW j PROVE Claim(own, q, n, j)' <=> Claim(own, q, n, j)
    OBVIOUS
  <2>1. n \in Live /\ j \in Slots(n[1]) => EntryIn(n, j)'.prefix = EntryIn(n, j).prefix
    BY <1>9, <1>11, <1>12, LiveType
  <2> QED BY <1>12, <2>1, ClaimSame
<1>15. /\ vc'.pc = "prefix" /\ vc'.prefix = p /\ vc'.depth = d /\ vc'.at = a /\ vc'.slot = i
  BY <1>2, <1>4, VcFields DEF TriesInv, VcInv
<1>16. FirstTrue(own)'
  BY <1>11, <1>13, <1>14 DEF FirstTrue, SameRouted, Before
<1>17. EntriesWhole'
  <2> SUFFICES ASSUME NEW n \in Live, NEW j \in Slots(n[1]), n # a \/ j # i
               PROVE  (Unused(EntryIn(n, j)) \/ InUse(EntryIn(n, j)))'
    BY <1>12, <1>15 DEF EntriesWhole, Half, HalfPcs
  <2>1. EntryIn(n, j)' = EntryIn(n, j)
    BY <1>11, <1>12, LiveType
  <2> QED BY <1>6, <2>1 DEF Unused, InUse
<1>18. HalfTrue'
  BY <1>9, <1>12, <1>15 DEF HalfTrue, Half
<1>19. ASSUME NEW n, NEW j, Claim(own, p, n, j) PROVE Before(own, a, i, n, j)
  <2>1. n \in Live /\ j \in Slots(n[1]) /\ Len(own[n]) \in Nat /\ d =< Len(own[n])
    BY <1>6, <1>11, <1>19, LiveType DEF Claim
  <2>2. CASE d < Len(own[n])
    BY <1>5, <2>2 DEF Before
  <2>3. CASE d = Len(own[n])
    <3>1. n = a
      BY <1>5, <1>11, <1>19, <2>1, <2>3 DEF Claim, Tree, PathsDistinct
    <3>2. ~InUse(EntryIn(a, j))
      BY <1>6, <1>19, <3>1 DEF Unrouted, Routed
    <3>3. isInvalid(EntryIn(a, j))
      BY <1>5, <1>6, <2>1, <3>1, <3>2 DEF Unused, isInvalid, INVALID
    <3>4. j \in FreeSlots
      BY <1>4, <1>5, <2>1, <3>1, <3>3 DEF FreeSlots
    <3> QED BY <1>3, <3>1, <3>4 DEF Before
  <2> QED BY <1>6, <2>1, <2>2, <2>3
<1>20. CallStands(own)'
  <2>1. Len(p) =< d + MAX_PREFIX_LEN /\ d =< Len(p)
    <3>1. MAX_PREFIX_LEN \in Nat
      BY VcShapeAssumption DEF INVALID
    <3>2. Len(p) - d \in 0 .. MAX_PREFIX_LEN /\ Len(p) \in Nat /\ d \in Nat
      BY <1>5, <1>6
    <3> QED BY <3>1, <3>2
  <2>2. Unrouted(own, p)'
    BY <1>6, <1>13 DEF Unrouted, SameRouted
  <2>3. a \in NodesAt(own, p, d)'
    BY <1>5, <1>12 DEF NodesAt
  <2>4. Stands(own, p, a, i, d)'
    BY <1>5, <1>12, <1>14, <1>15, <1>19, <2>1, <2>2, <2>3 DEF Stands, Before
  <2> QED BY <1>15, <2>4 DEF CallStands
<1> QED BY <1>12, <1>13, <1>16, <1>17, <1>18, <1>20 DEF VcFits

\* The entry a call is writing: its place, before and after.
WritesEntry(own, a, s, e, p, d) ==
  /\ a = vc.at /\ s = vc.slot /\ p = vc.prefix /\ d = vc.depth
  /\ a \in Live /\ a \in Nodes /\ s \in Slots(a[1]) /\ EntryIn(a, s) \in Entry
  /\ p \in Seq(Bit) /\ d \in Nat
  /\ Stands(own, p, a, s, d)
  /\ Live' = Live /\ Tree(own)' /\ EntryIn(a, s)' = e
  /\ \A n \in Nodes : \A i \in Slots(n[1]) : n # a \/ i # s => EntryIn(n, i)' = EntryIn(n, i)

LEMMA WriteFacts ==
  ASSUME TriesInv, NEW own, VcFits(own), vc.pc \in InPlace, vc.prefix \in Prefixes,
         NEW e, SetEntry(e), node_num' = node_num
  PROVE  \E a, s, p, d : WritesEntry(own, a, s, e, p, d)
<1>1. PICK a, s, p, d : a = vc.at /\ s = vc.slot /\ p = vc.prefix /\ d = vc.depth
  OBVIOUS
<1>2. a \in Live /\ a \in Nodes /\ s \in Slots(a[1])
  BY <1>1, PlaceNow
<1>3. VcTypeOK /\ Tree(own)
  BY DEF TriesInv, VcFits
<1>4. vcbram' = [vcbram EXCEPT ![a].bin[s] = e]
  BY <1>1 DEF SetEntry
<1>5. /\ Live' = Live /\ Tree(own)' /\ EntryIn(a, s)' = e
      /\ \A n \in Nodes : \A i \in Slots(n[1]) :
           n # a \/ i # s => EntryIn(n, i)' = EntryIn(n, i)
  BY <1>2, <1>3, <1>4, Written
<1>6. EntryIn(a, s) \in Entry
  BY <1>2, <1>3, EntryType
<1>7. Stands(own, p, a, s, d)
  BY <1>1 DEF VcFits, CallStands
<1>8. p \in Seq(Bit) /\ d \in Nat
  BY <1>1, <1>3, PrefixType DEF VcTypeOK
<1> QED BY <1>1, <1>2, <1>5, <1>6, <1>7, <1>8 DEF WritesEntry

\* Away from the place nothing changes.
LEMMA Elsewhere ==
  ASSUME NEW own, Tree(own), NEW a, NEW s, NEW e, NEW p, NEW d,
         WritesEntry(own, a, s, e, p, d), NEW q, NEW n, NEW i, n # a \/ i # s
  PROVE  /\ Claim(own, q, n, i)' <=> Claim(own, q, n, i)
         /\ Routed(own, q, n, i)' <=> Routed(own, q, n, i)
         /\ n \in Live /\ i \in Slots(n[1]) => EntryIn(n, i)' = EntryIn(n, i)
<1>1. n \in Live /\ i \in Slots(n[1]) => EntryIn(n, i)' = EntryIn(n, i)
  BY LiveType DEF WritesEntry
<1>2. Live' = Live
  BY DEF WritesEntry
<1> QED BY <1>1, <1>2, ClaimSame, RoutedSame

\* The other entries stay whole, whatever the call does next.
LEMMA OthersWhole ==
  ASSUME NEW own, Tree(own), EntriesWhole, NEW a, NEW s, NEW e, NEW p, NEW d,
         WritesEntry(own, a, s, e, p, d), Half(a, s)' \/ Unused(e) \/ InUse(e)
  PROVE  EntriesWhole'
<1> SUFFICES ASSUME NEW n \in Live, NEW i \in Slots(n[1])
             PROVE  (Half(n, i) \/ Unused(EntryIn(n, i)) \/ InUse(EntryIn(n, i)))'
  BY DEF EntriesWhole, WritesEntry
<1>1. CASE n = a /\ i = s
  BY <1>1 DEF WritesEntry, Unused, InUse, Half
<1>2. CASE n # a \/ i # s
  <2>1. EntryIn(n, i)' = EntryIn(n, i)
    BY <1>2, Elsewhere
  <2>2. ~Half(n, i)
    BY <1>2 DEF Half, WritesEntry
  <2>3. Unused(EntryIn(n, i)) \/ InUse(EntryIn(n, i))
    BY <2>2 DEF EntriesWhole
  <2> QED BY <2>1, <2>3 DEF Unused, InUse
<1> QED BY <1>1, <1>2

LEMMA PrefixFits ==
  ASSUME TriesInv, NEW own, VcFits(own), VcPlacePrefix
  PROVE  VcFits(own)' /\ SameRouted(own)
<1>1. /\ vc.pc = "prefix" /\ vc.pc \in InPlace /\ vc.prefix \in Prefixes
      /\ vc' = [vc EXCEPT !.pc = "hop"] /\ node_num' = node_num
  BY DEF VcPlacePrefix, InPlace, TriesInv, VcInv, PassedOn
<1>2. PICK e : /\ e = [EntryIn(vc.at, vc.slot) EXCEPT !.prefix = Below(vc.prefix, vc.depth)]
               /\ SetEntry(e)
  BY <1>1, PlaceNow DEF VcPlacePrefix
<1>3. PICK a, s, p, d : WritesEntry(own, a, s, e, p, d)
  BY <1>1, <1>2, WriteFacts
<1>4. VcTypeOK /\ Tree(own) /\ EntriesWhole /\ FirstTrue(own) /\ HalfTrue
  BY DEF TriesInv, VcFits
<1>5. /\ a = vc.at /\ s = vc.slot /\ p = vc.prefix /\ d = vc.depth
      /\ a \in Live /\ a \in Nodes /\ s \in Slots(a[1]) /\ EntryIn(a, s) \in Entry
      /\ p \in Seq(Bit) /\ d \in Nat /\ p \in Prefixes
      /\ Live' = Live /\ Tree(own)' /\ EntryIn(a, s)' = e
  BY <1>1, <1>3 DEF WritesEntry
<1>6. /\ Unrouted(own, p) /\ d =< Len(p) /\ Len(p) =< d + MAX_PREFIX_LEN
      /\ \A n, i : Claim(own, p, n, i) => Before(own, a, s, n, i)
      /\ a \in NodesAt(own, p, d)
  BY <1>1, <1>3 DEF WritesEntry, Stands, Inserting
<1>7. EntryIn(a, s).next_hop = INVALID /\ EntryIn(a, s).length = Len(p) - d
  BY <1>1, <1>4, <1>5 DEF HalfTrue, Half, HalfPcs
<1>8. /\ e.next_hop = INVALID /\ e.length = Len(p) - d /\ e.prefix = Below(p, d)
  BY <1>2, <1>5, <1>7 DEF Entry
<1>9. SameRouted(own)
  <2>1. ~InUse(EntryIn(a, s)) /\ ~InUse(e)
    BY <1>7, <1>8 DEF InUse
  <2>2. vcbram' = [vcbram EXCEPT ![a].bin[s] = e]
    BY <1>2, <1>5 DEF SetEntry
  <2> QED BY <1>1, <1>4, <1>5, <2>1, <2>2, RoutesUnmoved DEF SameRouted
<1>10. vc'.pc = "hop" /\ vc'.prefix = p /\ vc'.depth = d /\ vc'.at = a /\ vc'.slot = s
  BY <1>1, <1>5, VcFields DEF TriesInv, VcInv
<1>11. a # Root /\ own[a] = Cut(p, d) /\ Len(own[a]) = d
  <2>1. a # Root /\ own[a] = Cut(p, d)
    BY <1>4, <1>5, <1>6, LiveType DEF NodesAt
  <2>2. d \in 0 .. Len(p)
    BY <1>5, <1>6
  <2> QED BY <1>5, <2>1, <2>2, CutType
\* The place now stands for p and nothing else.
<1>12. ASSUME NEW q \in Prefixes, NEW n, NEW i, Claim(own, q, n, i)'
       PROVE  Claim(own, q, n, i) \/ (q = p /\ n = a /\ i = s)
  <2>1. CASE n # a \/ i # s
    BY <1>3, <1>4, <1>12, <2>1, Elsewhere
  <2>2. CASE n = a /\ i = s
    <3>1. /\ d =< Len(q) /\ Cut(q, d) = Cut(p, d) /\ Below(q, d) = Below(p, d)
      BY <1>5, <1>8, <1>11, <1>12, <2>2 DEF Claim
    <3>2. q \in Seq(Bit) /\ d \in 0 .. Len(q) /\ d \in 0 .. Len(p)
      BY <1>5, <1>6, <3>1, PrefixType
    <3>3. q = p
      BY <1>5, <3>1, <3>2, SplitOnce
    <3> QED BY <2>2, <3>3
  <2> QED BY <2>1, <2>2
<1>13. FirstTrue(own)'
  <2> SUFFICES ASSUME NEW q \in Prefixes, NEW n, NEW i, NEW m, NEW j,
                      Routed(own, q, n, i)', Claim(own, q, m, j)'
               PROVE  Before(own, n, i, m, j)
    BY DEF FirstTrue, Before
  <2>1. Routed(own, q, n, i)
    BY <1>9 DEF SameRouted
  <2>2. q # p
    BY <1>6, <2>1 DEF Unrouted
  <2> QED BY <1>4, <1>12, <2>1, <2>2 DEF FirstTrue
<1>14. EntriesWhole'
  <2>1. Half(a, s)'
    BY <1>10 DEF Half, HalfPcs
  <2> QED BY <1>3, <1>4, <2>1, OthersWhole
<1>15. HalfTrue'
  BY <1>5, <1>8, <1>10 DEF HalfTrue, Half
<1>16. CallStands(own)'
  <2>1. Unrouted(own, p)'
    BY <1>6, <1>9 DEF Unrouted, SameRouted
  <2>2. \A n, i : Claim(own, p, n, i)' => Before(own, a, s, n, i)
    <3>1. Before(own, a, s, a, s)
      BY <1>4, <1>5, VcShapeAssumption DEF Before, Slots, Nodes
    <3> QED BY <1>5, <1>6, <1>12, <3>1
  <2>3. a \in NodesAt(own, p, d)'
    BY <1>5, <1>6 DEF NodesAt
  <2>4. Stands(own, p, a, s, d)'
    BY <1>5, <1>6, <1>10, <2>1, <2>2, <2>3 DEF Stands, Before
  <2> QED BY <1>10, <2>4 DEF CallStands
<1> QED BY <1>5, <1>9, <1>13, <1>14, <1>15, <1>16 DEF VcFits

\* What a call has stored when it is done, and what it has removed.
PutStored(own) ==
  \A q \in Prefixes : \A h :
    VcStored(own, q, h)' <=> IF q = vc.prefix THEN h = vc.hop ELSE VcStored(own, q, h)
DropStored(own) ==
  \A q \in Prefixes : \A h : VcStored(own, q, h)' <=> q # vc.prefix /\ VcStored(own, q, h)

LEMMA PlaceHopFits ==
  ASSUME TriesInv, NEW own, VcFits(own), VcPlaceHop
  PROVE  VcFits(own)' /\ PutStored(own)
<1>1. /\ vc.pc = "hop" /\ vc.pc \in InPlace /\ vc.prefix \in Prefixes /\ vc.hop \in Hops
      /\ vc' = VcIdle /\ node_num' = node_num
  BY DEF VcPlaceHop, InPlace, TriesInv, VcInv, PassedOn
<1>2. PICK e : /\ e = [EntryIn(vc.at, vc.slot) EXCEPT !.next_hop = vc.hop]
               /\ SetEntry(e)
  BY <1>1, PlaceNow DEF VcPlaceHop
<1>3. PICK a, s, p, d : WritesEntry(own, a, s, e, p, d)
  BY <1>1, <1>2, WriteFacts
<1>4. VcTypeOK /\ Tree(own) /\ EntriesWhole /\ FirstTrue(own) /\ HalfTrue
  BY DEF TriesInv, VcFits
<1>5. /\ a = vc.at /\ s = vc.slot /\ p = vc.prefix /\ d = vc.depth
      /\ a \in Live /\ a \in Nodes /\ s \in Slots(a[1]) /\ EntryIn(a, s) \in Entry
      /\ p \in Seq(Bit) /\ d \in Nat /\ p \in Prefixes
      /\ Live' = Live /\ Tree(own)' /\ EntryIn(a, s)' = e
  BY <1>1, <1>3 DEF WritesEntry
<1>6. /\ Unrouted(own, p) /\ d =< Len(p) /\ Len(p) =< d + MAX_PREFIX_LEN
      /\ \A n, i : Claim(own, p, n, i) => Before(own, a, s, n, i)
      /\ a \in NodesAt(own, p, d)
  BY <1>1, <1>3 DEF WritesEntry, Stands, Inserting
<1>7. /\ EntryIn(a, s).next_hop = INVALID /\ EntryIn(a, s).length = Len(p) - d
      /\ EntryIn(a, s).prefix = Below(p, d)
  BY <1>1, <1>4, <1>5 DEF HalfTrue, Half, HalfPcs
<1>8. e.next_hop = vc.hop /\ e.length = Len(p) - d /\ e.prefix = Below(p, d)
  BY <1>2, <1>5, <1>7 DEF Entry
<1>9. a # Root /\ own[a] = Cut(p, d) /\ Len(own[a]) = d /\ d \in 0 .. Len(p)
  <2>1. a # Root /\ own[a] = Cut(p, d)
    BY <1>4, <1>5, <1>6, LiveType DEF NodesAt
  <2>2. d \in 0 .. Len(p)
    BY <1>5, <1>6
  <2> QED BY <1>5, <2>1, <2>2, CutType
<1>10. InUse(e)
  <2>1. Len(e.prefix) = Len(p) - d
    BY <1>5, <1>8, <1>9, BelowType
  <2>2. Len(p) - d # INVALID
    BY <1>5, <1>6, VcShapeAssumption DEF INVALID
  <2>3. vc.hop # INVALID
    BY <1>1, SameAssumption, VcHopsAssumption DEF INVALID
  <2> QED BY <1>8, <2>1, <2>2, <2>3 DEF InUse
<1>11. Claim(own, p, a, s)
  BY <1>5, <1>6, <1>7, <1>9 DEF Claim
<1>12. \A q, n, i : Claim(own, q, n, i)' <=> Claim(own, q, n, i)
  <2> SUFFICES ASSUME NEW q, NEW n, NEW i PROVE Claim(own, q, n, i)' <=> Claim(own, q, n, i)
    OBVIOUS
  <2>1. CASE n # a \/ i # s
    BY <1>3, <1>4, <2>1, Elsewhere
  <2>2. CASE n = a /\ i = s
    BY <1>5, <1>7, <1>8, <2>2, ClaimSame
  <2> QED BY <2>1, <2>2
<1>13. ASSUME NEW q \in Prefixes, NEW n, NEW i
       PROVE  Routed(own, q, n, i)' <=> \/ Routed(own, q, n, i) /\ q # p
                                        \/ q = p /\ n = a /\ i = s
  <2>1. CASE n # a \/ i # s
    <3>1. Routed(own, q, n, i)' <=> Routed(own, q, n, i)
      BY <1>3, <1>4, <2>1, Elsewhere
    <3> QED BY <1>6, <2>1, <3>1 DEF Unrouted
  <2>2. CASE n = a /\ i = s
    <3>1. InUse(EntryIn(n, i))'
      BY <1>5, <1>10, <2>2 DEF InUse
    <3>2. ~Routed(own, q, n, i)
      BY <1>7, <2>2 DEF Routed, InUse
    <3>3. Claim(own, q, n, i) <=> q = p
      BY <1>4, <1>5, <1>11, <2>2, ClaimOnce
    <3> QED BY <1>12, <2>2, <3>1, <3>2, <3>3 DEF Routed
  <2> QED BY <2>1, <2>2
<1>14. vc'.pc = "idle"
  BY <1>1 DEF VcIdle
<1>15. FirstTrue(own)'
  <2> SUFFICES ASSUME NEW q \in Prefixes, NEW n, NEW i, NEW m, NEW j,
                      Routed(own, q, n, i)', Claim(own, q, m, j)'
               PROVE  Before(own, n, i, m, j)
    BY DEF FirstTrue, Before
  <2> QED BY <1>4, <1>6, <1>12, <1>13 DEF FirstTrue
<1>16. EntriesWhole'
  BY <1>3, <1>4, <1>10, OthersWhole
<1>17. HalfTrue' /\ CallStands(own)'
  BY <1>14 DEF HalfTrue, Half, HalfPcs, CallStands, Stands, Inserting, InPlace
<1>18. PutStored(own)
  <2> SUFFICES ASSUME NEW q \in Prefixes, NEW h
               PROVE  VcStored(own, q, h)' <=> IF q = p THEN h = vc.hop ELSE VcStored(own, q, h)
    BY <1>5 DEF PutStored
  <2>1. CASE q = p
    BY <1>5, <1>8, <1>13, <2>1 DEF VcStored
  <2>2. CASE q # p
    <3>1. ASSUME NEW n, NEW i, Routed(own, q, n, i) PROVE EntryIn(n, i)' = EntryIn(n, i)
      <4>1. n # a \/ i # s
        BY <1>7, <3>1 DEF Routed, InUse
      <4> QED BY <1>3, <1>4, <3>1, <4>1, Elsewhere DEF Routed, Claim
    <3> QED BY <1>13, <2>2, <3>1 DEF VcStored
  <2> QED BY <2>1, <2>2
<1> QED BY <1>5, <1>15, <1>16, <1>17, <1>18 DEF VcFits

LEMMA ModifyFits ==
  ASSUME TriesInv, NEW own, VcFits(own), VcModifyHop
  PROVE  VcFits(own)' /\ PutStored(own)
<1>1. /\ vc.pc = "modify" /\ vc.pc \in InPlace /\ vc.prefix \in Prefixes /\ vc.hop \in Hops
      /\ vc' = VcIdle /\ node_num' = node_num
  BY DEF VcModifyHop, InPlace, TriesInv, VcInv, PassedOn
<1>2. PICK e : /\ e = [EntryIn(vc.at, vc.slot) EXCEPT !.next_hop = vc.hop]
               /\ SetEntry(e)
  BY <1>1, PlaceNow DEF VcModifyHop
<1>3. PICK a, s, p, d : WritesEntry(own, a, s, e, p, d)
  BY <1>1, <1>2, WriteFacts
<1>4. VcTypeOK /\ Tree(own) /\ EntriesWhole /\ FirstTrue(own)
  BY DEF TriesInv, VcFits
<1>5. /\ a = vc.at /\ s = vc.slot /\ p = vc.prefix
      /\ a \in Live /\ a \in Nodes /\ s \in Slots(a[1]) /\ EntryIn(a, s) \in Entry
      /\ p \in Prefixes /\ Live' = Live /\ Tree(own)' /\ EntryIn(a, s)' = e
  BY <1>1, <1>3 DEF WritesEntry
<1>6. Routed(own, p, a, s)
  BY <1>1, <1>3 DEF WritesEntry, Stands
<1>7. e.next_hop = vc.hop /\ e.length = EntryIn(a, s).length /\ e.prefix = EntryIn(a, s).prefix
  BY <1>2, <1>5 DEF Entry
<1>8. InUse(e)
  <2>1. vc.hop # INVALID
    BY <1>1, SameAssumption, VcHopsAssumption DEF INVALID
  <2> QED BY <1>6, <1>7, <2>1 DEF Routed, InUse
<1>9. \A q, n, i : /\ Claim(own, q, n, i)' <=> Claim(own, q, n, i)
                   /\ Routed(own, q, n, i)' <=> Routed(own, q, n, i)
  <2> SUFFICES ASSUME NEW q, NEW n, NEW i
               PROVE  /\ Claim(own, q, n, i)' <=> Claim(own, q, n, i)
                      /\ Routed(own, q, n, i)' <=> Routed(own, q, n, i)
    OBVIOUS
  <2>1. CASE n # a \/ i # s
    BY <1>3, <1>4, <2>1, Elsewhere
  <2>2. CASE n = a /\ i = s
    <3>1. Claim(own, q, n, i)' <=> Claim(own, q, n, i)
      BY <1>5, <1>7, <2>2, ClaimSame
    <3>2. InUse(EntryIn(n, i)) /\ InUse(EntryIn(n, i))'
      BY <1>5, <1>6, <1>8, <2>2 DEF InUse, Routed
    <3> QED BY <3>1, <3>2 DEF Routed
  <2> QED BY <2>1, <2>2
<1>10. vc'.pc = "idle"
  BY <1>1 DEF VcIdle
<1>11. FirstTrue(own)'
  BY <1>4, <1>9 DEF FirstTrue, Before
<1>12. EntriesWhole'
  BY <1>3, <1>4, <1>8, OthersWhole
<1>13. HalfTrue' /\ CallStands(own)'
  BY <1>10 DEF HalfTrue, Half, HalfPcs, CallStands, Stands, Inserting, InPlace
<1>14. PutStored(own)
  <2> SUFFICES ASSUME NEW q \in Prefixes, NEW h
               PROVE  VcStored(own, q, h)' <=> IF q = p THEN h = vc.hop ELSE VcStored(own, q, h)
    BY <1>5 DEF PutStored
  <2>1. CASE q = p
    <3>1. \A n, i : Routed(own, p, n, i) => n = a /\ i = s
      BY <1>4, <1>5, <1>6, RoutedOnce
    <3> QED BY <1>5, <1>6, <1>7, <1>9, <2>1, <3>1 DEF VcStored
  <2>2. CASE q # p
    <3>1. ASSUME NEW n, NEW i, Routed(own, q, n, i) PROVE EntryIn(n, i)' = EntryIn(n, i)
      <4>1. n # a \/ i # s
        BY <1>4, <1>5, <1>6, <2>2, <3>1, ClaimOnce DEF Routed
      <4> QED BY <1>3, <1>4, <3>1, <4>1, Elsewhere DEF Routed, Claim
    <3> QED BY <1>9, <2>2, <3>1 DEF VcStored
  <2> QED BY <2>1, <2>2
<1> QED BY <1>5, <1>11, <1>12, <1>13, <1>14 DEF VcFits

LEMMA InvalidateLengthFits ==
  ASSUME TriesInv, NEW own, VcFits(own), VcInvalidateLength
  PROVE  VcFits(own)' /\ DropStored(own)
<1>1. /\ vc.pc = "invalidate" /\ vc.pc \in InPlace /\ vc.prefix \in Prefixes
      /\ vc' = [vc EXCEPT !.pc = "invalidate hop"] /\ node_num' = node_num
  BY DEF VcInvalidateLength, InPlace, VcFits, CallStands, Stands
<1>2. PICK e : /\ e = [EntryIn(vc.at, vc.slot) EXCEPT !.length = INVALID]
               /\ SetEntry(e)
  BY <1>1, PlaceNow DEF VcInvalidateLength
<1>3. PICK a, s, p, d : WritesEntry(own, a, s, e, p, d)
  BY <1>1, <1>2, WriteFacts
<1>4. VcTypeOK /\ Tree(own) /\ EntriesWhole /\ FirstTrue(own)
  BY DEF TriesInv, VcFits
<1>5. /\ a = vc.at /\ s = vc.slot /\ p = vc.prefix /\ d = vc.depth
      /\ a \in Live /\ a \in Nodes /\ s \in Slots(a[1]) /\ EntryIn(a, s) \in Entry
      /\ p \in Prefixes /\ Live' = Live /\ Tree(own)' /\ EntryIn(a, s)' = e
  BY <1>1, <1>3 DEF WritesEntry
<1>6. Routed(own, p, a, s)
  BY <1>1, <1>3 DEF WritesEntry, Stands
<1>7. e.length = INVALID /\ e.prefix = EntryIn(a, s).prefix
  BY <1>2, <1>5 DEF Entry
<1>8. vc'.pc = "invalidate hop" /\ vc'.prefix = p /\ vc'.depth = d /\ vc'.at = a /\ vc'.slot = s
  BY <1>1, <1>5, VcFields DEF TriesInv, VcInv
<1>9. \A q, n, i : Claim(own, q, n, i)' <=> Claim(own, q, n, i)
  <2> SUFFICES ASSUME NEW q, NEW n, NEW i PROVE Claim(own, q, n, i)' <=> Claim(own, q, n, i)
    OBVIOUS
  <2>1. CASE n # a \/ i # s
    BY <1>3, <1>4, <2>1, Elsewhere
  <2>2. CASE n = a /\ i = s
    BY <1>5, <1>7, <2>2, ClaimSame
  <2> QED BY <2>1, <2>2
<1>10. ASSUME NEW q \in Prefixes, NEW n, NEW i
       PROVE  Routed(own, q, n, i)' <=> q # p /\ Routed(own, q, n, i)
  <2>1. CASE n # a \/ i # s
    <3>1. Routed(own, q, n, i)' <=> Routed(own, q, n, i)
      BY <1>3, <1>4, <2>1, Elsewhere
    <3>2. q = p => ~Routed(own, q, n, i)
      BY <1>4, <1>5, <1>6, <2>1, RoutedOnce
    <3> QED BY <3>1, <3>2
  <2>2. CASE n = a /\ i = s
    <3>1. ~Routed(own, q, n, i)'
      BY <1>5, <1>7, <2>2 DEF Routed, InUse
    <3>2. q # p => ~Routed(own, q, n, i)
      BY <1>4, <1>5, <1>6, <2>2, ClaimOnce DEF Routed
    <3> QED BY <3>1, <3>2
  <2> QED BY <2>1, <2>2
<1>11. FirstTrue(own)'
  <2> SUFFICES ASSUME NEW q \in Prefixes, NEW n, NEW i, NEW m, NEW j,
                      Routed(own, q, n, i)', Claim(own, q, m, j)'
               PROVE  Before(own, n, i, m, j)
    BY DEF FirstTrue, Before
  <2> QED BY <1>4, <1>9, <1>10 DEF FirstTrue
<1>12. EntriesWhole'
  <2>1. Half(a, s)'
    BY <1>8 DEF Half, HalfPcs
  <2> QED BY <1>3, <1>4, <2>1, OthersWhole
<1>13. HalfTrue'
  BY <1>5, <1>7, <1>8 DEF HalfTrue, Half
<1>14. CallStands(own)'
  <2>1. Stands(own, p, a, s, d)'
    BY <1>5, <1>8 DEF Stands, Inserting
  <2> QED BY <1>8, <2>1 DEF CallStands
<1>15. DropStored(own)
  <2> SUFFICES ASSUME NEW q \in Prefixes, NEW h
               PROVE  VcStored(own, q, h)' <=> q # p /\ VcStored(own, q, h)
    BY <1>5 DEF DropStored
  <2>1. ASSUME NEW n, NEW i, q # p, Routed(own, q, n, i)
        PROVE  EntryIn(n, i)' = EntryIn(n, i)
    <3>1. n # a \/ i # s
      BY <1>4, <1>5, <1>6, <2>1, ClaimOnce DEF Routed
    <3> QED BY <1>3, <1>4, <2>1, <3>1, Elsewhere DEF Routed, Claim
  <2> QED BY <1>10, <2>1 DEF VcStored
<1> QED BY <1>5, <1>11, <1>12, <1>13, <1>14, <1>15 DEF VcFits

LEMMA InvalidateHopFits ==
  ASSUME TriesInv, NEW own, VcFits(own), VcInvalidateHop
  PROVE  VcFits(own)' /\ SameRouted(own)
<1>1. /\ vc.pc = "invalidate hop" /\ vc.pc \in InPlace /\ vc.prefix \in Prefixes
      /\ vc' = VcIdle /\ node_num' = node_num
  BY DEF VcInvalidateHop, InPlace, VcFits, CallStands, Stands
<1>2. PICK e : /\ e = [EntryIn(vc.at, vc.slot) EXCEPT !.next_hop = INVALID]
               /\ SetEntry(e)
  BY <1>1, PlaceNow DEF VcInvalidateHop
<1>3. PICK a, s, p, d : WritesEntry(own, a, s, e, p, d)
  BY <1>1, <1>2, WriteFacts
<1>4. VcTypeOK /\ Tree(own) /\ EntriesWhole /\ FirstTrue(own) /\ HalfTrue
  BY DEF TriesInv, VcFits
<1>5. /\ a = vc.at /\ s = vc.slot
      /\ a \in Live /\ a \in Nodes /\ s \in Slots(a[1]) /\ EntryIn(a, s) \in Entry
      /\ Live' = Live /\ Tree(own)' /\ EntryIn(a, s)' = e
  BY <1>3 DEF WritesEntry
<1>6. EntryIn(a, s).length = INVALID
  BY <1>1, <1>4, <1>5 DEF HalfTrue, Half, HalfPcs
<1>7. /\ e.next_hop = INVALID /\ e.length = INVALID /\ e.prefix = EntryIn(a, s).prefix
      /\ Unused(e) /\ ~InUse(e) /\ ~InUse(EntryIn(a, s))
  <2>1. e.next_hop = INVALID /\ e.length = INVALID /\ e.prefix = EntryIn(a, s).prefix
    BY <1>2, <1>5, <1>6 DEF Entry
  <2> QED BY <1>6, <2>1 DEF Unused, InUse
<1>8. \A q, n, i : Claim(own, q, n, i)' <=> Claim(own, q, n, i)
  <2> SUFFICES ASSUME NEW q, NEW n, NEW i PROVE Claim(own, q, n, i)' <=> Claim(own, q, n, i)
    OBVIOUS
  <2>1. CASE n # a \/ i # s
    BY <1>3, <1>4, <2>1, Elsewhere
  <2>2. CASE n = a /\ i = s
    BY <1>5, <1>7, <2>2, ClaimSame
  <2> QED BY <2>1, <2>2
<1>9. SameRouted(own)
  <2>1. vcbram' = [vcbram EXCEPT ![a].bin[s] = e]
    BY <1>2, <1>5 DEF SetEntry
  <2> QED BY <1>1, <1>4, <1>5, <1>7, <2>1, RoutesUnmoved DEF SameRouted
<1>10. vc'.pc = "idle"
  BY <1>1 DEF VcIdle
<1>11. FirstTrue(own)'
  BY <1>4, <1>8, <1>9 DEF FirstTrue, SameRouted, Before
<1>12. EntriesWhole'
  BY <1>3, <1>4, <1>7, OthersWhole
<1>13. HalfTrue' /\ CallStands(own)'
  BY <1>10 DEF HalfTrue, Half, HalfPcs, CallStands, Stands, Inserting, InPlace
<1> QED BY <1>5, <1>9, <1>11, <1>12, <1>13 DEF VcFits

\* An insertion that goes deeper leaves no claim of its prefix behind.
LEMMA NoneHere ==
  ASSUME TriesInv, NEW own, VcFits(own), vc.pc = "insert", MustDescend,
         NEW n, NEW i, Claim(own, vc.prefix, n, i)
  PROVE  vc.depth < Len(own[n])
<1>1. /\ vc.depth =< Len(own[n]) /\ vc.depth \in Nat /\ Len(own[n]) \in Nat /\ own[n] # <<>>
      /\ n \in Live /\ i \in Slots(n[1]) /\ vc.depth =< Len(vc.prefix)
      /\ own[n] \in Seq(Bit)
  BY InsertFacts, LiveType, DescendBound DEF Claim, VcFits, Tree, PathsTyped
<1> SUFFICES ASSUME Len(own[n]) = vc.depth PROVE FALSE
  BY <1>1
<1>2. vc.depth # 0
  BY <1>1
<1>3. vc.at \in Live /\ own[vc.at] = Cut(vc.prefix, vc.depth)
  BY <1>1, <1>2, InsertFacts DEF NodesAt
<1>4. n = vc.at
  BY <1>1, <1>3 DEF Claim, VcFits, Tree, PathsDistinct
<1>5. ~TooHigh
  <2>1. MAX_PREFIX_LEN \in Nat /\ Len(vc.prefix) \in Nat
    BY InsertFacts, VcShapeAssumption DEF INVALID
  <2> QED BY <1>1, <2>1 DEF Claim, TooHigh
<1>6. FreeSlots = {}
  BY <1>5 DEF MustDescend
<1>7. vc.at # Root
  BY <1>3, LiveType DEF VcFits
<1>8. i \in DOMAIN BinOf(vc.at) /\ BinOf(vc.at)[i] = EntryIn(n, i)
  BY <1>1, <1>4, <1>7, NodeHere DEF EntryIn
<1>9. ~isInvalid(EntryIn(n, i))
  BY <1>6, <1>8 DEF FreeSlots
<1>10. InUse(EntryIn(n, i))
  BY <1>1, <1>9, InsertFacts DEF Unused, isInvalid, INVALID
<1> QED BY <1>10, InsertFacts DEF Unrouted, Routed

\* Down to a node that is there.
LEMMA DownFits ==
  ASSUME TriesInv, NEW own, VcFits(own), vc.pc = "insert", MustDescend,
         GetChild(vc.at, NextBit) # 0, vcbram' = vcbram, node_num' = node_num,
         vc' = [vc EXCEPT !.at = <<NextStage, GetChild(vc.at, NextBit)>>, !.depth = @ + 1]
  PROVE  VcFits(own)' /\ SameRouted(own)
<1>1. PICK x, p, d, b : /\ x = <<NextStage, GetChild(vc.at, NextBit)>> /\ p = vc.prefix
                        /\ d = vc.depth /\ b = NextBit
  OBVIOUS
<1>2. /\ p \in Prefixes /\ p \in Seq(Bit) /\ Len(p) \in Nat \ {0} /\ d \in Nat /\ d =< Len(p)
      /\ Unrouted(own, p) /\ vc.at \in NodesAt(own, p, d)
  BY <1>1, InsertFacts, DescendBound
<1>3. /\ vc'.pc = "insert" /\ vc'.prefix = p /\ vc'.depth = d + 1 /\ vc'.at = x
  <2>1. vc' = [vc EXCEPT !.at = x, !.depth = d + 1]
    BY <1>1
  <2>2. CallFields
    BY DEF TriesInv, VcInv
  <2>3. vc'.pc = vc.pc /\ vc'.prefix = vc.prefix /\ vc'.depth = d + 1 /\ vc'.at = x
    <3>1. PICK e : e = d + 1
      OBVIOUS
    <3>2. vc' = [vc EXCEPT !.at = x, !.depth = e]
      BY <2>1, <3>1
    <3>3. vc'.pc = vc.pc /\ vc'.prefix = vc.prefix /\ vc'.depth = e /\ vc'.at = x
      BY <2>2, <3>2 DEF CallFields
    <3> QED BY <3>1, <3>3
  <2> QED BY <1>1, <2>3
<1>4. Tree(own) /\ VcTypeOK
  BY DEF VcFits, TriesInv
<1>5. Live' = Live /\ Tree(own)' /\ \A n, i : EntryIn(n, i)' = EntryIn(n, i)
  BY <1>4, TreeStays
<1>6. \A n, i : Claim(own, p, n, i)' <=> Claim(own, p, n, i)
  BY <1>5, ClaimSame
<1>7. Unrouted(own, p)'
  BY <1>2, <1>5, RoutedSame DEF Unrouted
<1>8. \A n, i : Claim(own, p, n, i)' => d + 1 =< Len(own[n])
  <2>1. ASSUME NEW n, NEW i, Claim(own, p, n, i) PROVE d + 1 =< Len(own[n])
    <3>1. d < Len(own[n])
      BY <1>1, <2>1, NoneHere
    <3>2. Len(own[n]) \in Nat
      BY <1>4, <2>1, LiveType DEF Claim
    <3> QED BY <1>2, <3>1, <3>2
  <2> QED BY <1>6, <2>1
<1>9. d + 1 =< Len(p) => x \in NodesAt(own, p, d + 1)
  <2> SUFFICES ASSUME d + 1 =< Len(p) PROVE x \in NodesAt(own, p, d + 1)
    OBVIOUS
  <2>1. b = p[d + 1] /\ b \in Bit
    BY <1>1, <1>2 DEF NextBit, BitOf
  <2>2. x = <<StageOf(d + 1), GetChild(vc.at, b)>> /\ d + 1 # 0
    BY <1>1, <1>2 DEF NextStage
  <2>3. Append(Cut(p, d), b) = Cut(p, d + 1) /\ Len(Cut(p, d)) = d
    BY <1>2, <2>1, CutNext, CutType
  <2>4. CASE d = 0
    <3>1. vc.at = Root /\ Cut(p, d + 1) = <<b>>
      BY <1>2, <2>1, <2>4 DEF NodesAt, Cut
    <3>2. x = <<0, 1 + b>>
      BY <2>2, <2>4, <3>1, VcShapeAssumption DEF StageOf, GetChild
    <3>3. b = 0 \/ b = 1
      BY <2>1 DEF Bit
    <3>4. x \in Live /\ own[x] = <<b>>
      BY <1>4, <3>2, <3>3 DEF Tree, FirstNodes
    <3> QED BY <2>2, <3>1, <3>4 DEF NodesAt
  <2>5. CASE d # 0
    <3>1. vc.at \in Live /\ own[vc.at] = Cut(p, d)
      BY <1>2, <2>5 DEF NodesAt
    <3>2. x = To(own, vc.at, b)
      BY <2>2, <2>3, <3>1 DEF To
    <3>3. x \in Live /\ own[x] = Append(own[vc.at], b)
      BY <1>1, <1>4, <2>1, <3>1, <3>2 DEF Tree, ChildrenTrue
    <3> QED BY <2>2, <2>3, <3>1, <3>3 DEF NodesAt
  <2> QED BY <2>4, <2>5
<1>10. CallStands(own)'
  <2>1. d + 1 =< Len(p) => x \in NodesAt(own, p, d + 1)'
    BY <1>5, <1>9 DEF NodesAt
  <2>2. \A s : Stands(own, p, x, s, d + 1)'
    BY <1>3, <1>7, <1>8, <2>1 DEF Stands, Inserting, InPlace
  <2> QED BY <1>3, <2>2 DEF CallStands
<1> QED BY <1>3, <1>10, NoWrite DEF HalfPcs

LEMMA ExcessiveFits ==
  ASSUME TriesInv, NEW own, VcFits(own), VcExcessive
  PROVE  VcFits(own)' /\ SameRouted(own)
<1>1. /\ vc.pc = "insert" /\ vc' = [vc EXCEPT !.pc = "excessive"]
      /\ vcbram' = vcbram /\ node_num' = node_num
  BY DEF VcExcessive
<1>2. PICK p : p = vc.prefix
  OBVIOUS
<1>3. Unrouted(own, p)
  BY <1>1, <1>2, InsertFacts
<1>4. vc'.pc = "excessive" /\ vc'.prefix = p
  BY <1>1, <1>2, VcFields DEF TriesInv, VcInv
<1>5. Unrouted(own, p)'
  <2>1. Live' = Live /\ \A n, i : EntryIn(n, i)' = EntryIn(n, i)
    BY <1>1, TreeStays DEF VcFits
  <2> QED BY <1>3, <2>1, RoutedSame DEF Unrouted
<1>6. CallStands(own)'
  <2>1. \A a, s, d : Stands(own, p, a, s, d)'
    BY <1>4, <1>5 DEF Stands, Inserting, InPlace
  <2> QED BY <1>4, <2>1 DEF CallStands
<1> QED BY <1>1, <1>4, <1>6, NoWrite DEF HalfPcs

\* A new node is the child of the node the insertion stands at, by a bit that
\* led nowhere; o knows its path.
Grown(own, o, a, b, new) ==
  /\ a \in Live /\ b \in Bit /\ new \in Nodes /\ new \notin Live /\ new # Root /\ new # a
  /\ GetChild(a, b) = 0
  /\ new[1] = StageOf(Len(own[a]) + 1) /\ new[2] # 0
  /\ Live' = Live \cup {new}
  /\ vcbram' = IF b = 0 THEN [vcbram EXCEPT ![a].lc = new[2]]
                        ELSE [vcbram EXCEPT ![a].rc = new[2]]
  /\ o[new] = Append(own[a], b)
  /\ \A n \in Live : o[n] = own[n]

LEMMA GrownEntries ==
  ASSUME VcTypeOK, NEW own, NEW o, NEW a, NEW b, NEW new, Tree(own), Grown(own, o, a, b, new)
  PROVE  /\ \A n \in Nodes : \A i \in Slots(n[1]) : EntryIn(n, i)' = EntryIn(n, i)
         /\ \A n \in Nodes : n # a => vcbram'[n] = vcbram[n]
         /\ \A n, c : n # a \/ (c \in Bit /\ c # b) => GetChild(n, c)' = GetChild(n, c)
         /\ GetChild(a, b)' = new[2]
<1>1. a \in Nodes /\ a # Root /\ b \in {0, 1}
  BY LiveType DEF Grown, Bit
<1>2. \A n \in Nodes : vcbram[n] \in [lc : Nat, rc : Nat, bin : [Slots(n[1]) -> Entry]]
  BY DEF VcTypeOK
<1>3. DOMAIN vcbram = Nodes
  BY DEF VcTypeOK
<1>4. \A n \in Nodes : n # a => vcbram'[n] = vcbram[n]
  BY <1>3 DEF Grown
<1>5. /\ vcbram'[a].bin = vcbram[a].bin
      /\ b = 0 => vcbram'[a].lc = new[2] /\ vcbram'[a].rc = vcbram[a].rc
      /\ b # 0 => vcbram'[a].rc = new[2] /\ vcbram'[a].lc = vcbram[a].lc
  BY <1>1, <1>2, <1>3 DEF Grown
<1>6. \A n \in Nodes : \A i \in Slots(n[1]) : EntryIn(n, i)' = EntryIn(n, i)
  BY <1>4, <1>5 DEF EntryIn
<1>7. \A n, c : n # a \/ (c \in Bit /\ c # b) => GetChild(n, c)' = GetChild(n, c)
  <2> SUFFICES ASSUME NEW n, NEW c, n # a \/ (c \in Bit /\ c # b)
               PROVE  GetChild(n, c)' = GetChild(n, c)
    OBVIOUS
  <2>1. CASE n # a
    BY <1>4, <2>1 DEF GetChild, NodeAt
  <2>2. CASE n = a /\ c \in Bit /\ c # b
    BY <1>1, <1>5, <2>2 DEF GetChild, NodeAt, Bit
  <2> QED BY <2>1, <2>2
<1>8. GetChild(a, b)' = new[2]
  BY <1>1, <1>5 DEF GetChild, NodeAt
<1> QED BY <1>4, <1>6, <1>7, <1>8

LEMMA GrownTree ==
  ASSUME VcTypeOK, NEW own, NEW o, NEW a, NEW b, NEW new, Tree(own), Grown(own, o, a, b, new)
  PROVE  Tree(o)'
<1>1. /\ a \in Live /\ b \in Bit /\ new \in Nodes /\ new \notin Live /\ new # Root /\ new # a
      /\ GetChild(a, b) = 0 /\ new[1] = StageOf(Len(own[a]) + 1) /\ new[2] # 0
      /\ Live' = Live \cup {new} /\ o[new] = Append(own[a], b)
      /\ \A n \in Live : o[n] = own[n]
  BY DEF Grown
<1>2. /\ \A n \in Nodes : \A i \in Slots(n[1]) : EntryIn(n, i)' = EntryIn(n, i)
      /\ \A n \in Nodes : n # a => vcbram'[n] = vcbram[n]
      /\ \A n, c : n # a \/ (c \in Bit /\ c # b) => GetChild(n, c)' = GetChild(n, c)
      /\ GetChild(a, b)' = new[2]
  BY GrownEntries
<1>3. /\ own[a] \in Seq(Bit) /\ own[a] # <<>> /\ Len(own[a]) \in Nat \ {0}
      /\ o[new] \in Seq(Bit) /\ o[new] # <<>> /\ Len(o[new]) = Len(own[a]) + 1
  <2>1. own[a] \in Seq(Bit) /\ own[a] # <<>>
    BY <1>1 DEF Tree, PathsTyped
  <2>2. Len(own[a]) \in Nat \ {0}
    BY <2>1
  <2> QED BY <1>1, <2>1, <2>2, CutAppend
<1>4. PathsTyped(o)'
  BY <1>1, <1>3 DEF PathsTyped, Tree
<1>5. ASSUME NEW n \in Live, own[n] = Append(own[a], b) PROVE FALSE
  <2>1. Len(own[n]) > 1
    BY <1>1, <1>3, <1>5
  <2>2. PICK u \in Live, c \in Bit : own[n] = Append(own[u], c) /\ GetChild(u, c) # 0
    BY <2>1 DEF Tree, ParentsLead
  <2>3. own[u] \in Seq(Bit)
    BY DEF Tree, PathsTyped
  <2>4. own[u] = own[a] /\ c = b
    <3> DEFINE s == own[u]
               t == own[a]
    <3>1. s \in Seq(Bit) /\ t \in Seq(Bit) /\ Append(s, c) = Append(t, b)
      BY <1>3, <1>5, <2>2, <2>3
    <3> HIDE DEF s, t
    <3>2. s = t /\ c = b
      BY <1>1, <3>1, AppendOnce
    <3> QED BY <3>2 DEF s, t
  <2>5. u = a
    BY <1>1, <2>4 DEF Tree, PathsDistinct
  <2> QED BY <1>1, <2>2, <2>4, <2>5
<1>6. PathsDistinct(o)'
  BY <1>1, <1>5 DEF PathsDistinct, Tree
<1>7. FirstNodes(o)'
  BY <1>1 DEF FirstNodes, Tree
<1>8. ChildrenTrue(o)'
  <2> SUFFICES ASSUME NEW n \in Live \cup {new}, NEW c \in Bit, GetChild(n, c)' # 0
               PROVE  To(o, n, c)' \in Live \cup {new} /\ o[To(o, n, c)'] = Append(o[n], c)
    BY <1>1 DEF ChildrenTrue
  <2>1. CASE n = new
    <3>1. GetChild(n, c)' = GetChild(n, c)
      BY <1>1, <1>2, <2>1
    <3>2. GetChild(n, c) = 0
      BY <1>1, <2>1 DEF Tree, Pristine, GetChild, NodeAt
    <3> QED BY <3>1, <3>2
  <2>2. CASE n = a /\ c = b
    <3>1. To(o, n, c)' = <<StageOf(Len(o[a]) + 1), new[2]>>
      BY <1>2, <2>2 DEF To
    <3>2. To(o, n, c)' = new
      BY <1>1, <3>1 DEF Nodes
    <3> QED BY <1>1, <2>2, <3>2
  <2>3. CASE n \in Live /\ (n # a \/ c # b)
    <3>1. GetChild(n, c)' = GetChild(n, c) /\ o[n] = own[n]
      BY <1>1, <1>2, <2>3
    <3>2. To(o, n, c)' = To(own, n, c)
      BY <3>1 DEF To
    <3>3. To(own, n, c) \in Live /\ own[To(own, n, c)] = Append(own[n], c)
      BY <2>3, <3>1 DEF Tree, ChildrenTrue
    <3> QED BY <1>1, <3>1, <3>2, <3>3
  <2> QED BY <2>1, <2>2, <2>3
<1>9. ParentsLead(o)'
  <2> SUFFICES ASSUME NEW n \in Live \cup {new}, Len(o[n]) > 1
               PROVE  \E u \in Live \cup {new}, c \in Bit :
                        o[n] = Append(o[u], c) /\ GetChild(u, c)' # 0
    BY <1>1 DEF ParentsLead
  <2>1. CASE n = new
    BY <1>1, <1>2, <2>1
  <2>2. CASE n \in Live
    <3>1. PICK u \in Live, c \in Bit : own[n] = Append(own[u], c) /\ GetChild(u, c) # 0
      BY <1>1, <2>2 DEF Tree, ParentsLead
    <3>2. GetChild(u, c)' # 0
      BY <1>1, <1>2, <3>1
    <3> QED BY <1>1, <2>2, <3>1, <3>2
  <2> QED BY <2>1, <2>2
<1>10. Pristine'
  BY <1>1, <1>2 DEF Pristine, Tree
<1> QED BY <1>4, <1>6, <1>7, <1>8, <1>9, <1>10 DEF Tree

\* The new node has no entries: it stands for its own path, unused.
LEMMA GrownClaims ==
  ASSUME VcTypeOK, NEW own, NEW o, NEW a, NEW b, NEW new, Tree(own), Grown(own, o, a, b, new)
  PROVE  /\ \A q, n, i : n # new => (Claim(o, q, n, i)' <=> Claim(own, q, n, i))
         /\ \A q, n, i : Routed(o, q, n, i)' <=> Routed(own, q, n, i)
         /\ \A q \in Prefixes : \A i : Claim(o, q, new, i)' => q = o[new]
         /\ \A i \in Slots(new[1]) : Unused(EntryIn(new, i))'
<1>1. /\ new \in Nodes /\ new \notin Live /\ Live' = Live \cup {new}
      /\ \A n \in Live : o[n] = own[n]
  BY DEF Grown
<1>2. \A n \in Nodes : \A i \in Slots(n[1]) : EntryIn(n, i)' = EntryIn(n, i)
  BY GrownEntries
<1>3. \A i \in Slots(new[1]) : EntryIn(new, i)' = NoEntry
  BY <1>1, <1>2 DEF Tree, Pristine
<1>4. \A n, i : n \in Live /\ i \in Slots(n[1]) => EntryIn(n, i)' = EntryIn(n, i)
  BY <1>2, LiveType
<1>5. \A q, n, i : n # new => (Claim(o, q, n, i)' <=> Claim(own, q, n, i))
  BY <1>1, <1>4 DEF Claim
<1>6. /\ NoEntry.length = INVALID /\ NoEntry.next_hop = INVALID /\ NoEntry.prefix = <<>>
  BY DEF NoEntry
<1>7. \A q, n, i : Routed(o, q, n, i)' <=> Routed(own, q, n, i)
  <2> SUFFICES ASSUME NEW q, NEW n, NEW i
               PROVE  Routed(o, q, n, i)' <=> Routed(own, q, n, i)
    OBVIOUS
  <2>1. CASE n # new
    BY <1>4, <1>5, <2>1 DEF Routed, InUse, Claim
  <2>2. CASE n = new
    BY <1>1, <1>3, <1>6, <2>2 DEF Routed, InUse, Claim
  <2> QED BY <2>1, <2>2
<1>8. ASSUME NEW q \in Prefixes, NEW i, Claim(o, q, new, i)' PROVE q = o[new]
  <2> DEFINE k == Len(o[new])
  <2>1. /\ k =< Len(q) /\ o[new] = Cut(q, k) /\ Below(q, k) = <<>>
    BY <1>3, <1>6, <1>8 DEF Claim
  <2>2. k \in Nat
    <3>1. own[a] \in Seq(Bit) /\ b \in Bit /\ o[new] = Append(own[a], b)
      BY DEF Grown, Tree, PathsTyped
    <3> QED BY <3>1
  <2>3. q \in Seq(Bit) /\ k \in 0 .. Len(q)
    BY <2>1, <2>2, PrefixType
  <2> HIDE DEF k
  <2>4. Len(Below(q, k)) = Len(q) - k
    BY <2>3, BelowType
  <2>5. k = Len(q)
    BY <2>1, <2>3, <2>4
  <2> QED BY <2>1, <2>3, <2>5, CutFull
<1> QED BY <1>3, <1>5, <1>6, <1>7, <1>8 DEF Unused

\* The node a descent creates was never handed out, and hangs below the node
\* of the prefix's bits so far.
LEMMA NewNode ==
  ASSUME TriesInv, NEW own, VcFits(own), vc.pc = "insert", MustDescend,
         NEW a, NEW b, NEW new, a = vc.at, b = NextBit,
         new = <<NextStage, node_num[NextStage] + 1>>,
         GetChild(a, b) = 0, ~NoRoom,
         node_num' = [node_num EXCEPT ![NextStage] = new[2]],
         vcbram' = IF a \notin Nodes THEN vcbram
                   ELSE IF b = 0 THEN [vcbram EXCEPT ![a].lc = new[2]]
                   ELSE [vcbram EXCEPT ![a].rc = new[2]]
  PROVE  /\ \E o : Grown(own, o, a, b, new)
         /\ Len(own[a]) = vc.depth /\ own[a] = Cut(vc.prefix, vc.depth)
<1>1. /\ vc.prefix \in Seq(Bit) /\ Len(vc.prefix) \in Nat \ {0} /\ vc.depth \in Nat
      /\ vc.depth =< Len(vc.prefix) /\ NextStage \in Stages
  BY InsertFacts, DescendBound
<1>2. b \in Bit
  BY <1>1 DEF NextBit, BitOf, Bit
<1>3. a # Root
  BY <1>2 DEF GetChild, Bit
<1>4. a \in Live /\ own[a] = Cut(vc.prefix, vc.depth) /\ Len(own[a]) = vc.depth
  BY <1>1, <1>3, NodeHere
<1>5. a \in Nodes /\ VcTypeOK /\ Tree(own)
  BY <1>4, LiveType DEF VcFits, TriesInv
<1>6. /\ node_num \in [Stages -> Nat] /\ BRAM_DEPTHS \in [Stages -> Nat \ {0}]
      /\ \A s \in Stages : node_num[s] < BRAM_DEPTHS[s]
  BY <1>5, VcShapeAssumption DEF VcTypeOK
<1>7. PICK s : s = NextStage /\ s \in Stages
  BY <1>1
<1>8. /\ node_num[s] \in Nat /\ BRAM_DEPTHS[s] \in Nat /\ node_num[s] + 1 < BRAM_DEPTHS[s]
      /\ new = <<s, node_num[s] + 1>> /\ new[1] = s /\ new[2] = node_num[s] + 1
  BY <1>6, <1>7 DEF NoRoom
<1>9. new \in Nodes
  BY <1>7, <1>8 DEF Nodes
<1>10. new \notin Live /\ new[2] # 0 /\ new # Root /\ new # a
  <2>1. new \notin Live /\ new[2] # 0
    BY <1>8 DEF Live
  <2> QED BY <1>4, <2>1 DEF Root
<1>11. node_num' = [node_num EXCEPT ![s] = node_num[s] + 1]
  BY <1>7, <1>8
<1>12. Live' = Live \cup {new}
  <2>1. Live' = {n \in Nodes : n[2] \in 1 .. node_num'[n[1]]}
    BY DEF Live
  <2>2. ASSUME NEW n \in Nodes
        PROVE  n[2] \in 1 .. node_num'[n[1]] <=> n[2] \in 1 .. node_num[n[1]] \/ n = new
    <3>1. n = <<n[1], n[2]>> /\ n[1] \in Stages /\ n[2] \in Nat
      BY VcShapeAssumption DEF Nodes
    <3>2. CASE n[1] = s
      <4>1. node_num'[n[1]] = node_num[s] + 1
        BY <1>6, <1>7, <1>11, <3>2
      <4>2. n = new <=> n[2] = node_num[s] + 1
        BY <1>8, <3>1, <3>2
      <4> QED BY <1>8, <3>1, <3>2, <4>1, <4>2
    <3>3. CASE n[1] # s
      BY <1>6, <1>8, <1>11, <3>1, <3>3
    <3> QED BY <3>2, <3>3
  <2> QED BY <1>9, <2>1, <2>2 DEF Live
<1>13. new[1] = StageOf(Len(own[a]) + 1)
  BY <1>4, <1>7, <1>8 DEF NextStage
<1>14. PICK o : o = [n \in Live \cup {new} |-> IF n = new THEN Append(own[a], b) ELSE own[n]]
  OBVIOUS
<1>15. o[new] = Append(own[a], b) /\ \A n \in Live : o[n] = own[n]
  BY <1>10, <1>14
<1>16. Grown(own, o, a, b, new)
  BY <1>2, <1>4, <1>5, <1>9, <1>10, <1>12, <1>13, <1>15 DEF Grown
<1> QED BY <1>4, <1>16

\* The paths are known anew, the routes are where they were.
SameRoutes(own, o) ==
  \A p, n, i : /\ Routed(o, p, n, i)' <=> Routed(own, p, n, i)
               /\ Routed(own, p, n, i) => EntryIn(n, i)' = EntryIn(n, i)

\* Down to a new node: it is empty, so what stands for a route still comes
\* first, and the insertion finds nothing of its prefix there.
LEMMA GrownFits ==
  ASSUME TriesInv, NEW own, VcFits(own), vc.pc = "insert", MustDescend,
         NEW o, NEW a, NEW b, NEW new, NEW p, NEW d, Grown(own, o, a, b, new),
         p = vc.prefix, d = vc.depth, Len(own[a]) = d, own[a] = Cut(p, d), b = NextBit,
         vc'.pc = "insert", vc'.prefix = p, vc'.depth = d + 1, vc'.at = new
  PROVE  VcFits(o)' /\ SameRoutes(own, o)
<1>1. /\ p \in Prefixes /\ p \in Seq(Bit) /\ Len(p) \in Nat \ {0} /\ d \in Nat /\ d =< Len(p)
      /\ Unrouted(own, p)
  BY InsertFacts, DescendBound
<1>2. VcTypeOK /\ Tree(own) /\ EntriesWhole /\ FirstTrue(own)
  BY DEF VcFits, TriesInv
<1>3. /\ a \in Live /\ new \in Nodes /\ new \notin Live /\ Live' = Live \cup {new}
      /\ o[new] = Append(own[a], b) /\ b \in Bit /\ \A n \in Live : o[n] = own[n]
  BY DEF Grown
<1>4. Tree(o)'
  BY <1>2, GrownTree
<1>5. \A n \in Nodes : \A i \in Slots(n[1]) : EntryIn(n, i)' = EntryIn(n, i)
  BY <1>2, GrownEntries
<1>6. /\ \A q, n, i : n # new => (Claim(o, q, n, i)' <=> Claim(own, q, n, i))
      /\ \A q, n, i : Routed(o, q, n, i)' <=> Routed(own, q, n, i)
      /\ \A q \in Prefixes : \A i : Claim(o, q, new, i)' => q = o[new]
      /\ \A i \in Slots(new[1]) : Unused(EntryIn(new, i))'
  BY <1>2, GrownClaims
<1>7. SameRoutes(own, o)
  <2>1. \A q, n, i : Routed(own, q, n, i) => EntryIn(n, i)' = EntryIn(n, i)
    BY <1>2, <1>5, LiveType DEF Routed, Claim
  <2> QED BY <1>6, <2>1 DEF SameRoutes
<1>8. own[a] \in Seq(Bit) /\ Len(o[new]) = d + 1
  <2>1. own[a] \in Seq(Bit)
    BY <1>2, <1>3 DEF Tree, PathsTyped
  <2> QED BY <1>3, <2>1
<1>9. EntriesWhole'
  <2> SUFFICES ASSUME NEW n \in Live \cup {new}, NEW i \in Slots(n[1])
               PROVE  (Unused(EntryIn(n, i)) \/ InUse(EntryIn(n, i)))'
    BY <1>3 DEF EntriesWhole
  <2>1. CASE n = new
    BY <1>6, <2>1
  <2>2. CASE n \in Live
    <3>1. EntryIn(n, i)' = EntryIn(n, i)
      BY <1>2, <1>5, <2>2, LiveType
    <3> QED BY <2>2, <3>1, InsertFacts DEF Unused, InUse
  <2> QED BY <2>1, <2>2
<1>10. HalfTrue'
  BY DEF HalfTrue, Half, HalfPcs
<1>11. FirstTrue(o)'
  <2> SUFFICES ASSUME NEW q \in Prefixes, NEW n, NEW i, NEW m, NEW j,
                      Routed(o, q, n, i)', Claim(o, q, m, j)'
               PROVE  Before(o, n, i, m, j)
    BY DEF FirstTrue, Before
  <2>1. Routed(own, q, n, i) /\ n \in Live /\ o[n] = own[n]
    <3>1. Routed(own, q, n, i)
      BY <1>6
    <3> QED BY <1>3, <3>1 DEF Routed, Claim
  <2>2. CASE m # new
    <3>1. Claim(own, q, m, j) /\ m \in Live /\ o[m] = own[m]
      <4>1. Claim(own, q, m, j)
        BY <1>6, <2>2
      <4> QED BY <1>3, <4>1 DEF Claim
    <3> QED BY <1>2, <2>1, <3>1 DEF FirstTrue, Before
  <2>3. CASE m = new
    <3>1. q = o[new]
      BY <1>6, <2>3
    <3>2. Claim(own, q, n, i) /\ own[n] \in Seq(Bit) /\ own[n] # <<>>
      BY <1>2, <2>1 DEF Routed, Tree, PathsTyped
    <3>3. Len(own[n]) \in Nat \ {0} /\ Len(own[n]) =< d + 1
      <4>1. Len(own[n]) \in Nat \ {0}
        BY <3>2
      <4> QED BY <1>8, <3>1, <3>2, <4>1 DEF Claim
    <3>4. Len(own[n]) # d + 1
      <4> SUFFICES ASSUME Len(own[n]) = d + 1 PROVE FALSE
        OBVIOUS
      <4>1. own[n] = Cut(q, Len(q)) /\ q \in Seq(Bit)
        BY <1>8, <3>1, <3>2, PrefixType DEF Claim
      <4>2. o[n] = o[new]
        BY <2>1, <3>1, <4>1, CutFull
      <4>3. n = new
        BY <1>3, <1>4, <2>1, <4>2 DEF Tree, PathsDistinct
      <4> QED BY <1>3, <2>1, <4>3
    <3> QED BY <1>1, <1>8, <2>1, <2>3, <3>3, <3>4 DEF Before
  <2> QED BY <2>2, <2>3
<1>12. \A n, i : Claim(o, p, n, i)' => d + 1 =< Len(o[n])
  <2> SUFFICES ASSUME NEW n, NEW i, Claim(o, p, n, i)' PROVE d + 1 =< Len(o[n])
    OBVIOUS
  <2>1. CASE n = new
    BY <1>1, <1>8, <2>1
  <2>2. CASE n # new
    <3>1. Claim(own, p, n, i) /\ n \in Live /\ o[n] = own[n]
      <4>1. Claim(own, p, n, i)
        BY <1>6, <2>2
      <4> QED BY <1>3, <4>1 DEF Claim
    <3>2. d < Len(own[n])
      BY <3>1, NoneHere
    <3>3. Len(own[n]) \in Nat
      BY <1>2, <3>1, LiveType
    <3> QED BY <1>1, <3>1, <3>2, <3>3
  <2> QED BY <2>1, <2>2
<1>13. d + 1 =< Len(p) => new \in NodesAt(o, p, d + 1)'
  <2> SUFFICES ASSUME d + 1 =< Len(p) PROVE new \in NodesAt(o, p, d + 1)'
    OBVIOUS
  <2>1. b = p[d + 1]
    BY <1>1 DEF NextBit, BitOf
  <2>2. o[new] = Cut(p, d + 1) /\ d + 1 # 0
    BY <1>1, <1>3, <2>1, CutNext
  <2> QED BY <1>3, <2>2 DEF NodesAt
<1>14. CallStands(o)'
  <2>1. Unrouted(o, p)'
    BY <1>1, <1>6 DEF Unrouted
  <2>2. \A s : Stands(o, p, new, s, d + 1)'
    BY <1>12, <1>13, <2>1 DEF Stands, Inserting, InPlace
  <2> QED BY <2>2 DEF CallStands
<1> QED BY <1>4, <1>7, <1>9, <1>10, <1>11, <1>14 DEF VcFits

LEMMA DescendFits ==
  ASSUME TriesInv, NEW own, VcFits(own), VcDescend
  PROVE  \E o : VcFits(o)' /\ SameRoutes(own, o)
<1>1. vc.pc = "insert" /\ MustDescend
  BY DEF VcDescend
<1>2. CASE GetChild(vc.at, NextBit) # 0
  <2>1. /\ vc' = [vc EXCEPT !.at = <<NextStage, GetChild(vc.at, NextBit)>>, !.depth = @ + 1]
        /\ vcbram' = vcbram /\ node_num' = node_num
    BY <1>2 DEF VcDescend
  <2>2. VcFits(own)' /\ SameRouted(own)
    BY <1>1, <1>2, <2>1, DownFits
  <2> QED BY <2>2 DEF SameRouted, SameRoutes
<1>3. CASE GetChild(vc.at, NextBit) = 0
  <2>1. PICK a, b, new, p, d : /\ a = vc.at /\ b = NextBit /\ p = vc.prefix /\ d = vc.depth
                               /\ new = <<NextStage, node_num[NextStage] + 1>>
    OBVIOUS
  <2>2. /\ ~NoRoom /\ GetChild(a, b) = 0
        /\ node_num' = [node_num EXCEPT ![NextStage] = new[2]]
        /\ vcbram' = IF a \notin Nodes THEN vcbram
                     ELSE IF b = 0 THEN [vcbram EXCEPT ![a].lc = new[2]]
                     ELSE [vcbram EXCEPT ![a].rc = new[2]]
        /\ vc' = [vc EXCEPT !.at = <<NextStage, new[2]>>, !.depth = @ + 1]
    BY <1>3, <2>1 DEF VcDescend
  <2>3. /\ \E o : Grown(own, o, a, b, new)
        /\ Len(own[a]) = d /\ own[a] = Cut(p, d)
    BY <1>1, <2>1, <2>2, NewNode
  <2>4. PICK o : Grown(own, o, a, b, new)
    BY <2>3
  <2>5. vc'.pc = "insert" /\ vc'.prefix = p /\ vc'.depth = d + 1 /\ vc'.at = new
    <3>1. PICK e : e = d + 1
      OBVIOUS
    <3>2. vc' = [vc EXCEPT !.at = new, !.depth = e]
      BY <2>1, <2>2, <3>1
    <3>3. CallFields
      BY DEF TriesInv, VcInv
    <3>4. vc'.pc = vc.pc /\ vc'.prefix = vc.prefix /\ vc'.depth = e /\ vc'.at = new
      BY <3>2, <3>3 DEF CallFields
    <3> QED BY <1>1, <2>1, <3>1, <3>4
  <2>6. VcFits(o)' /\ SameRoutes(own, o)
    BY <1>1, <2>1, <2>3, <2>4, <2>5, GrownFits
  <2> QED BY <2>6
<1> QED BY <1>2, <1>3

-----------------------------------------------------------------------------
(* The two tries side by side. *)

\* No route is in both; a prefix on its way into the first is in neither, and a
\* call of the second is of a prefix the first has no route of.
ApartTrue(own) ==
  /\ \A p \in Kept : ~Unrouted(own, p) => BTrieRoute(p) = None
  /\ \A p \in Kept : vc.pc \in Inserting /\ p = vc.prefix => BTrieRoute(p) = None
  /\ \A p : bt.pc \in Entering \cup Leaving /\ p = bt.prefix => Unrouted(own, p)
Sound(own) == VcFits(own) /\ ApartTrue(own)

\* The map of both, before a reset.
BothNow == [p \in Kept |-> Route(p)]
BothSteps == \/ /\ PendingCall = BTrieMap!NoCall /\ PendingCall' \in BTrieMap!Calls
                /\ BothNow' = BothNow
             \/ /\ PendingCall.kind = "put" /\ PendingCall' = BTrieMap!NoCall
                /\ BothNow' = [BothNow EXCEPT ![PendingCall.key] = PendingCall.hop]
             \/ /\ PendingCall.kind = "drop" /\ PendingCall' = BTrieMap!NoCall
                /\ BothNow' = [BothNow EXCEPT ![PendingCall.key] = None]
             \/ /\ PendingCall # BTrieMap!NoCall /\ BothNow[PendingCall.key] = None
                /\ PendingCall' = BTrieMap!NoCall /\ BothNow' = BothNow
             \/ BothNow' = BothNow /\ PendingCall' = PendingCall

LEMMA KeptPrefix == Kept \subseteq Prefixes
BY DEF Kept

\* What stands in the first trie hides the second.
LEMMA Overlay ==
  ASSUME VcTypeOK, VcTypeOK', NEW own, NEW o, VcFits(own), VcFits(o)', NEW p \in Prefixes
  PROVE  /\ \A h : VcStored(own, p, h) => Route(p) = h
         /\ \A h : VcStored(o, p, h)' => Route(p)' = h
         /\ (\A h : ~VcStored(own, p, h)) => Route(p) = BTrieRoute(p)
         /\ (\A h : ~VcStored(o, p, h)') => Route(p)' = BTrieRoute(p)'
<1>1. VcRoutesTrue /\ VcRoutesTrue'
  BY VcRoutesFound, VcRoutesFoundNext
<1>2. (\A h : ~VcStored(own, p, h)) => Unrouted(own, p)
  BY DEF VcStored, Unrouted
<1>3. (\A h : ~VcStored(o, p, h)') => Unrouted(o, p)'
  BY DEF VcStored, Unrouted
<1> QED BY <1>1, <1>2, <1>3 DEF VcRoutesTrue

\* What the first trie stores does not depend on who knows the paths.
LEMMA SameRoutesStored ==
  ASSUME NEW own, NEW o, SameRoutes(own, o)
  PROVE  /\ \A p, h : VcStored(o, p, h)' <=> VcStored(own, p, h)
         /\ \A p : Unrouted(o, p)' <=> Unrouted(own, p)
BY DEF SameRoutes, VcStored, Unrouted

\* A step of the first trie that shows the same routes.
LEMMA BothSame ==
  ASSUME VcTypeOK, VcTypeOK', NEW own, NEW o, VcFits(own), VcFits(o)', SameRoutes(own, o),
         \A p \in Kept : BTrieRoute(p)' = BTrieRoute(p)
  PROVE  BothNow' = BothNow
<1>1. \A p \in Kept : Route(p)' = Route(p)
  <2> SUFFICES ASSUME NEW p \in Kept PROVE Route(p)' = Route(p)
    OBVIOUS
  <2>1. \A h : VcStored(o, p, h)' <=> VcStored(own, p, h)
    BY SameRoutesStored
  <2> QED BY <2>1, KeptPrefix, Overlay
<1> QED BY <1>1 DEF BothNow

\* A step of the first trie that puts the call's route.
LEMMA BothPut ==
  ASSUME VcTypeOK, VcTypeOK', NEW own, VcFits(own), VcFits(own)', PutStored(own),
         \A p \in Kept : BTrieRoute(p)' = BTrieRoute(p), NEW q, NEW h, q = vc.prefix, h = vc.hop
  PROVE  /\ q \in Kept => BothNow' = [BothNow EXCEPT ![q] = h]
         /\ q \notin Kept => BothNow' = BothNow
<1>1. \A p \in Kept : Route(p)' = IF p = q THEN h ELSE Route(p)
  <2> SUFFICES ASSUME NEW p \in Kept PROVE Route(p)' = IF p = q THEN h ELSE Route(p)
    OBVIOUS
  <2>1. \A g : VcStored(own, p, g)' <=> IF p = q THEN g = h ELSE VcStored(own, p, g)
    BY KeptPrefix DEF PutStored
  <2> QED BY <2>1, KeptPrefix, Overlay
<1> QED BY <1>1 DEF BothNow

\* A step of the first trie that drops the call's route: the second has none.
LEMMA BothDrop ==
  ASSUME VcTypeOK, VcTypeOK', NEW own, VcFits(own), VcFits(own)', DropStored(own),
         \A p \in Kept : BTrieRoute(p)' = BTrieRoute(p), NEW q, q = vc.prefix,
         q \in Kept => BTrieRoute(q) = None
  PROVE  /\ q \in Kept => BothNow' = [BothNow EXCEPT ![q] = None]
         /\ q \notin Kept => BothNow' = BothNow
<1>1. \A p \in Kept : Route(p)' = IF p = q THEN None ELSE Route(p)
  <2> SUFFICES ASSUME NEW p \in Kept PROVE Route(p)' = IF p = q THEN None ELSE Route(p)
    OBVIOUS
  <2>1. \A g : VcStored(own, p, g)' <=> p # q /\ VcStored(own, p, g)
    BY KeptPrefix DEF DropStored
  <2> QED BY <2>1, KeptPrefix, Overlay
<1> QED BY <1>1 DEF BothNow

\* Which call is in progress, of either.
CallShown ==
  /\ vc.pc \in Inserting \cup {"modify"} /\ vc.prefix \in Kept =>
       PendingCall = [kind |-> "put", key |-> vc.prefix, hop |-> vc.hop]
  /\ vc.pc \in Inserting \cup {"modify"} /\ vc.prefix \notin Kept =>
       PendingCall = [kind |-> "none"]
  /\ vc.pc = "invalidate" /\ bt.pc = "idle" /\ vc.prefix \in Kept =>
       PendingCall = [kind |-> "drop", key |-> vc.prefix]
  /\ vc.pc = "invalidate" /\ bt.pc = "idle" /\ vc.prefix \notin Kept =>
       PendingCall = [kind |-> "none"]
  /\ vc.pc \in {"idle", "invalidate hop"} /\ bt.pc = "idle" => PendingCall = [kind |-> "none"]
  /\ vc.pc = "idle" => PendingCall = BtPending

LEMMA CallSeen == CallShown
BY DEF CallShown, BtPending, PendingCall, Put, Inserting

LEMMA CallSeenNext == CallShown'
BY CallSeen, PTL

\* The second trie works alone: what it does to its own map it does to both.
LEMMA BtSide ==
  ASSUME VcTypeOK, VcTypeOK', NEW own, VcFits(own), VcFits(own)', SameRoutes(own, own),
         ApartTrue(own), OneCall, vc.pc = "idle", vc'.pc = "idle"
  PROVE  /\ BothSteps
         /\ \A p \in Kept : ~Unrouted(own, p)' => BTrieRoute(p)' = None
<1>1. PendingCall = BtPending /\ PendingCall' = BtPending'
  BY CallSeen, CallSeenNext DEF CallShown
<1>2. ASSUME NEW p \in Kept
      PROVE  \/ Route(p) = BTrieRoute(p) /\ Route(p)' = BTrieRoute(p)' /\ Unrouted(own, p)'
             \/ ~Unrouted(own, p) /\ Route(p)' = Route(p) /\ BTrieRoute(p) = None
  <2>1. p \in Prefixes /\ \A h : VcStored(own, p, h)' <=> VcStored(own, p, h)
    BY KeptPrefix, SameRoutesStored
  <2>2. CASE \E h : VcStored(own, p, h)
    <3>1. ~Unrouted(own, p)
      BY <2>2 DEF VcStored, Unrouted
    <3>2. Route(p)' = Route(p)
      BY <2>1, <2>2, Overlay
    <3> QED BY <3>1, <3>2 DEF ApartTrue
  <2>3. CASE \A h : ~VcStored(own, p, h)
    <3>1. \A h : ~VcStored(own, p, h)'
      BY <2>1, <2>3
    <3>2. Route(p) = BTrieRoute(p) /\ Route(p)' = BTrieRoute(p)'
      BY <2>1, <2>3, <3>1, Overlay
    <3>3. Unrouted(own, p)'
      BY <3>1 DEF VcStored, Unrouted
    <3> QED BY <3>2, <3>3
  <2> QED BY <2>2, <2>3
<1>3. ASSUME BtPending # [kind |-> "none"]
      PROVE  BtPending.key \in Kept /\ Unrouted(own, BtPending.key)
  <2>1. bt.pc \in Entering \cup Leaving /\ bt.prefix \in Kept
    BY <1>3, PendingSeen DEF PendingShown
  <2>2. BtPending.key = bt.prefix
    <3>1. CASE bt.pc \in Entering
      <4>1. BtPending = [kind |-> "put", key |-> bt.prefix, hop |-> bt.hop]
        BY <2>1, <3>1, PendingSeen DEF PendingShown
      <4> QED BY <4>1
    <3>2. CASE bt.pc \in Leaving
      <4>1. BtPending = [kind |-> "drop", key |-> bt.prefix]
        BY <2>1, <3>2, PendingSeen DEF PendingShown
      <4> QED BY <4>1
    <3> QED BY <2>1, <3>1, <3>2
  <2> QED BY <2>1, <2>2 DEF ApartTrue
<1>4. PICK k : k = BtPending.key
  OBVIOUS
<1>5. CASE MapNow' = MapNow
  <2>1. \A p \in Kept : BTrieRoute(p)' = BTrieRoute(p)
    BY <1>5 DEF MapNow
  <2>2. BothNow' = BothNow
    BY <1>2, <2>1 DEF BothNow
  <2>3. \A p \in Kept : ~Unrouted(own, p)' => BTrieRoute(p)' = None
    BY <1>2, <2>1
  <2>4. \/ BtPending = BTrieMap!NoCall /\ BtPending' \in BTrieMap!Calls
        \/ /\ BtPending.kind = "put" /\ BtPending' = BTrieMap!NoCall
           /\ MapNow' = [MapNow EXCEPT ![k] = BtPending.hop]
        \/ /\ BtPending.kind = "drop" /\ BtPending' = BTrieMap!NoCall
           /\ MapNow' = [MapNow EXCEPT ![k] = None]
        \/ /\ BtPending # BTrieMap!NoCall /\ MapNow[k] = None /\ BtPending' = BTrieMap!NoCall
        \/ BtPending' = BtPending
    BY <1>4 DEF OneCall, BTrieMap!Call, BTrieMap!Put, BTrieMap!Drop, BTrieMap!Refuse, MapNow
  <2>5. BtPending # BTrieMap!NoCall /\ k \in Kept => BothNow[k] = MapNow[k]
    <3> SUFFICES ASSUME BtPending # BTrieMap!NoCall, k \in Kept PROVE BothNow[k] = MapNow[k]
      OBVIOUS
    <3>1. Unrouted(own, k)
      BY <1>3, <1>4 DEF BTrieMap!NoCall
    <3> QED BY <1>2, <3>1 DEF BothNow, MapNow
  <2>6. BtPending # BTrieMap!NoCall => k \in Kept
    BY <1>3, <1>4 DEF BTrieMap!NoCall
  <2>7. BtPending.kind = "put" \/ BtPending.kind = "drop" => BtPending # BTrieMap!NoCall
    BY DEF BTrieMap!NoCall
  <2>8. BothSteps
    <3>1. CASE BtPending.kind = "put" /\ BtPending' = BTrieMap!NoCall
               /\ MapNow' = [MapNow EXCEPT ![k] = BtPending.hop]
      <4>1. BothNow' = [BothNow EXCEPT ![k] = BtPending.hop]
        BY <1>5, <2>2, <2>5, <2>6, <2>7, <3>1 DEF BothNow, MapNow
      <4> QED BY <1>1, <1>4, <3>1, <4>1 DEF BothSteps
    <3>2. CASE BtPending.kind = "drop" /\ BtPending' = BTrieMap!NoCall
               /\ MapNow' = [MapNow EXCEPT ![k] = None]
      <4>1. BothNow' = [BothNow EXCEPT ![k] = None]
        BY <1>5, <2>2, <2>5, <2>6, <2>7, <3>2 DEF BothNow, MapNow
      <4> QED BY <1>1, <1>4, <3>2, <4>1 DEF BothSteps
    <3>3. CASE BtPending # BTrieMap!NoCall /\ MapNow[k] = None /\ BtPending' = BTrieMap!NoCall
      BY <1>1, <1>4, <2>2, <2>5, <2>6, <3>3 DEF BothSteps
    <3> QED BY <1>1, <2>2, <2>4, <3>1, <3>2, <3>3 DEF BothSteps
  <2> QED BY <2>3, <2>8
<1>6. ASSUME NEW x, BtPending # BTrieMap!NoCall, MapNow' = [MapNow EXCEPT ![k] = x]
      PROVE  /\ BothNow' = [BothNow EXCEPT ![k] = x]
             /\ \A p \in Kept : ~Unrouted(own, p)' => BTrieRoute(p)' = None
  <2>1. k \in Kept /\ Unrouted(own, k)
    BY <1>3, <1>4, <1>6 DEF BTrieMap!NoCall
  <2>2. \A p \in Kept : BTrieRoute(p)' = IF p = k THEN x ELSE BTrieRoute(p)
    BY <1>6 DEF MapNow
  <2>3. \A p \in Kept : Route(p)' = IF p = k THEN x ELSE Route(p)
    BY <1>2, <2>1, <2>2
  <2>4. \A p \in Kept : ~Unrouted(own, p)' => BTrieRoute(p)' = None
    BY <1>2, <2>1, <2>2
  <2> QED BY <2>3, <2>4 DEF BothNow
<1>7. CASE BTrieMap!Put
  <2>1. /\ BtPending.kind = "put" /\ BtPending' = BTrieMap!NoCall
        /\ MapNow' = [MapNow EXCEPT ![k] = BtPending.hop]
    BY <1>4, <1>7 DEF BTrieMap!Put, MapNow
  <2>2. BtPending # BTrieMap!NoCall
    BY <2>1 DEF BTrieMap!NoCall
  <2>3. PICK x : x = BtPending.hop
    OBVIOUS
  <2> QED BY <1>1, <1>4, <1>6, <2>1, <2>2, <2>3 DEF BothSteps
<1>8. CASE BTrieMap!Drop
  <2>1. /\ BtPending.kind = "drop" /\ BtPending' = BTrieMap!NoCall
        /\ MapNow' = [MapNow EXCEPT ![k] = None]
    BY <1>4, <1>8 DEF BTrieMap!Drop, MapNow
  <2>2. BtPending # BTrieMap!NoCall
    BY <2>1 DEF BTrieMap!NoCall
  <2> QED BY <1>1, <1>4, <1>6, <2>1, <2>2 DEF BothSteps
<1>9. CASE MapNow' # MapNow
  BY <1>7, <1>8, <1>9 DEF OneCall, BTrieMap!Call, BTrieMap!Refuse, MapNow
<1> QED BY <1>5, <1>9

\* The call of the second trie that is in progress is the one that began.
LEMMA BtGoesOn ==
  ASSUME Inv, BTrieStep, bt'.pc \in Entering \cup Leaving
  PROVE  bt.pc \in Entering \cup Leaving /\ bt'.prefix = bt.prefix
<1>0. bt \in BtCall
  BY DEF Inv, BTrieTypeOK
<1>1. CASE BTrieWalk
  <2>1. /\ bt.pc \in {"insert_find", "delete_find", "parent_find"}
        /\ \/ bt' = [bt EXCEPT !.len = bt.len + 1, !.at = <<LevelOf(bt.len + 1), NextNode>>]
           \/ bt' = [bt EXCEPT !.pc = Found(bt.pc)]
    BY <1>1 DEF BTrieWalk
  <2>2. bt'.prefix = bt.prefix /\ (bt'.pc = bt.pc \/ bt'.pc = Found(bt.pc))
    BY <1>0, <2>1 DEF BtCall
  <2> QED BY <2>1, <2>2 DEF Found, Entering, Leaving
<1>2. CASE BTrieNew
  <2>1. bt.pc = "insert" /\ (Return("no room") \/ \E c : bt' = [bt EXCEPT !.pc = "link", !.child = c])
    BY <1>2 DEF BTrieNew
  <2>2. ~Return("no room")
    BY PcFacts DEF Return, Idle
  <2>3. bt'.prefix = bt.prefix
    BY <1>0, <2>1, <2>2 DEF BtCall
  <2> QED BY <2>1, <2>3 DEF Entering
<1>3. CASE BTrieLink
  <2>1. bt.pc = "link" /\ \E n, a : bt' = [bt EXCEPT !.pc = "insert", !.len = n, !.at = a,
                                                    !.child = 0]
    BY <1>3 DEF BTrieLink
  <2>2. bt'.prefix = bt.prefix
    BY <1>0, <2>1 DEF BtCall
  <2> QED BY <2>1, <2>2 DEF Entering
<1>4. CASE bt'.pc \in {"idle", "parent_find"}
  BY <1>4, PcFacts
<1>5. CASE BTrieStore \/ BTrieNotFound \/ BTrieClear \/ BTrieUnlink
  <2>1. \/ \E r : Return(r)
        \/ \E p, g, c : bt' = Find("parent_find", p, 0, g, c)
    BY <1>5 DEF BTrieStore, BTrieNotFound, BTrieClear, BTrieUnlink
  <2>2. CASE \E r : Return(r)
    BY <1>4, <2>2 DEF Return, Idle
  <2>3. CASE \E p, g, c : bt' = Find("parent_find", p, 0, g, c)
    BY <1>4, <2>3 DEF Find
  <2> QED BY <2>1, <2>2, <2>3
<1> QED BY <1>1, <1>2, <1>3, <1>5 DEF BTrieStep

-----------------------------------------------------------------------------
(* Each step of the two is a step of their map, or none. *)

LEMMA VcStays ==
  ASSUME NEW own, VcFits(own), vcbram' = vcbram, node_num' = node_num, vc' = vc
  PROVE  VcFits(own)' /\ SameRoutes(own, own)
<1>1. Live' = Live /\ Tree(own)' /\ \A n, i : EntryIn(n, i)' = EntryIn(n, i)
  BY TreeStays DEF VcFits
<1>2. \A p, n, i : /\ Claim(own, p, n, i)' <=> Claim(own, p, n, i)
                   /\ Routed(own, p, n, i)' <=> Routed(own, p, n, i)
  BY <1>1, ClaimSame, RoutedSame
<1>3. \A n, i : Half(n, i)' <=> Half(n, i)
  BY DEF Half
<1>4. EntriesWhole'
  BY <1>1, <1>3 DEF VcFits, EntriesWhole, Unused, InUse
<1>5. HalfTrue'
  BY <1>1, <1>3 DEF VcFits, HalfTrue
<1>6. FirstTrue(own)'
  BY <1>2 DEF VcFits, FirstTrue, Before
<1>7. CallStands(own)'
  <2>1. \A p, d : NodesAt(own, p, d)' = NodesAt(own, p, d)
    BY <1>1 DEF NodesAt
  <2>2. ASSUME NEW p, NEW a, NEW s, NEW d, Stands(own, p, a, s, d) PROVE Stands(own, p, a, s, d)'
    <3>1. Unrouted(own, p) => Unrouted(own, p)'
      BY <1>2 DEF Unrouted
    <3> QED BY <1>1, <1>2, <2>1, <2>2, <3>1 DEF Stands, Before
  <2> QED BY <2>2 DEF VcFits, CallStands
<1> QED BY <1>1, <1>2, <1>4, <1>5, <1>6, <1>7 DEF VcFits, SameRoutes

\* The second trie at work, or a call of it, or nothing at all.
LEMMA BtMoves ==
  ASSUME VcTypeOK, VcTypeOK', NEW own, Sound(own), OneCall,
         vcbram' = vcbram, node_num' = node_num, vc' = vc, vc.pc = "idle",
         \A p : bt'.pc \in Entering \cup Leaving /\ p = bt'.prefix => Unrouted(own, p)
  PROVE  BothSteps /\ Sound(own)'
<1>1. VcFits(own)' /\ SameRoutes(own, own)
  BY VcStays DEF Sound
<1>2. BothSteps /\ \A p \in Kept : ~Unrouted(own, p)' => BTrieRoute(p)' = None
  BY <1>1, BtSide DEF Sound
<1>3. vc'.pc \notin Inserting
  BY DEF Inserting
<1>4. \A p : bt'.pc \in Entering \cup Leaving /\ p = bt'.prefix => Unrouted(own, p)'
  BY <1>1, SameRoutesStored
<1> QED BY <1>1, <1>2, <1>3, <1>4 DEF Sound, ApartTrue

\* What the first trie's calls and steps leave of the second.
LEMMA BtRests ==
  ASSUME Inv, Inv', bram' = bram, owner' = owner
  PROVE  \A p \in Kept : BTrieRoute(p)' = BTrieRoute(p)
BY StoredSame, MapKept

\* A call of the first trie begins.
LEMMA VcCalls ==
  ASSUME Inv, Inv', VcTypeOK, VcTypeOK', NEW own, Sound(own), NEW p \in Prefixes,
         bram' = bram, owner' = owner, bt' = bt, bt.pc = "idle", vc.pc = "idle",
         vcbram' = vcbram, node_num' = node_num,
         vc'.prefix = p, vc'.pc \in {"insert", "modify", "invalidate"},
         vc'.pc # "invalidate" => vc'.hop \in Hops,
         vc'.pc = "insert" => BTrieRoute(p) = None \/ p \notin Kept,
         CallStands(own)'
  PROVE  BothSteps /\ Sound(own)'
<1>1. VcFits(own)' /\ SameRouted(own)
  BY NoWrite DEF Sound, HalfPcs
<1>2. SameRoutes(own, own)
  BY <1>1 DEF SameRouted, SameRoutes
<1>3. \A q \in Kept : BTrieRoute(q)' = BTrieRoute(q)
  BY BtRests
<1>4. BothNow' = BothNow
  BY <1>1, <1>2, <1>3, BothSame DEF Sound
<1>5. PendingCall = [kind |-> "none"]
  BY CallSeen DEF CallShown
<1>6. PendingCall' = [kind |-> "none"] \/ PendingCall' \in BTrieMap!Calls
  <2>1. CASE p \notin Kept
    BY <2>1, CallSeenNext DEF CallShown, Inserting
  <2>2. CASE p \in Kept /\ vc'.pc = "invalidate"
    <3>1. PendingCall' = [kind |-> "drop", key |-> p]
      BY <2>2, CallSeenNext DEF CallShown
    <3> QED BY <2>2, <3>1 DEF BTrieMap!Calls
  <2>3. CASE p \in Kept /\ vc'.pc # "invalidate"
    <3>1. PICK h \in Hops : h = vc'.hop
      BY <2>3
    <3>2. PendingCall' = [kind |-> "put", key |-> p, hop |-> h]
      BY <2>3, <3>1, CallSeenNext DEF CallShown, Inserting
    <3> QED BY <2>3, <3>2 DEF BTrieMap!Calls
  <2> QED BY <2>1, <2>2, <2>3
<1>7. BothSteps
  BY <1>4, <1>5, <1>6 DEF BothSteps, BTrieMap!NoCall
<1>8. ApartTrue(own)'
  <2>1. \A q \in Kept : ~Unrouted(own, q)' => BTrieRoute(q)' = None
    BY <1>2, <1>3, SameRoutesStored DEF Sound, ApartTrue
  <2>2. \A q \in Kept : vc'.pc \in Inserting /\ q = vc'.prefix => BTrieRoute(q)' = None
    BY <1>3 DEF Inserting
  <2>3. bt'.pc \notin Entering \cup Leaving
    BY PcFacts
  <2> QED BY <2>1, <2>2, <2>3 DEF ApartTrue
<1> QED BY <1>1, <1>7, <1>8 DEF Sound

\* A step within an insertion, that shows the same.
LEMMA VcGoesOn ==
  ASSUME Inv, Inv', VcTypeOK, VcTypeOK', NEW own, Sound(own), NEW o, VcFits(o)',
         SameRoutes(own, o), bram' = bram, owner' = owner, bt' = bt, bt.pc = "idle",
         \/ /\ vc.pc \in Inserting /\ vc'.pc \in Inserting
            /\ vc'.prefix = vc.prefix /\ vc'.hop = vc.hop
         \/ vc.pc = "invalidate hop" /\ vc'.pc = "idle"
  PROVE  BothSteps /\ Sound(o)'
<1>1. \A q \in Kept : BTrieRoute(q)' = BTrieRoute(q)
  BY BtRests
<1>2. BothNow' = BothNow
  BY <1>1, BothSame DEF Sound
<1>3. PendingCall' = PendingCall
  <2>1. CASE vc.pc = "invalidate hop" /\ vc'.pc = "idle"
    BY <2>1, CallSeen, CallSeenNext DEF CallShown
  <2>2. CASE /\ vc.pc \in Inserting /\ vc'.pc \in Inserting
             /\ vc'.prefix = vc.prefix /\ vc'.hop = vc.hop
    <3>1. CASE vc.prefix \in Kept
      <4>1. PendingCall = [kind |-> "put", key |-> vc.prefix, hop |-> vc.hop]
        BY <2>2, <3>1, CallSeen DEF CallShown
      <4>2. PendingCall' = [kind |-> "put", key |-> vc.prefix, hop |-> vc.hop]
        BY <2>2, <3>1, CallSeenNext DEF CallShown
      <4> QED BY <4>1, <4>2
    <3>2. CASE vc.prefix \notin Kept
      <4>1. PendingCall = [kind |-> "none"]
        BY <2>2, <3>2, CallSeen DEF CallShown
      <4>2. PendingCall' = [kind |-> "none"]
        BY <2>2, <3>2, CallSeenNext DEF CallShown
      <4> QED BY <4>1, <4>2
    <3> QED BY <3>1, <3>2
  <2> QED BY <2>1, <2>2
<1>4. ApartTrue(o)'
  <2>1. \A q \in Kept : ~Unrouted(o, q)' => BTrieRoute(q)' = None
    BY <1>1, SameRoutesStored DEF Sound, ApartTrue
  <2>2. \A q \in Kept : vc'.pc \in Inserting /\ q = vc'.prefix => BTrieRoute(q)' = None
    BY <1>1 DEF Inserting, Sound, ApartTrue
  <2>3. bt'.pc \notin Entering \cup Leaving
    BY PcFacts
  <2> QED BY <2>1, <2>2, <2>3 DEF ApartTrue
<1> QED BY <1>2, <1>3, <1>4 DEF BothSteps, Sound

\* The step in which an insertion or a change takes effect.
LEMMA VcPuts ==
  ASSUME Inv, Inv', TriesInv, VcTypeOK', NEW own, Sound(own), VcFits(own)', PutStored(own),
         bram' = bram, owner' = owner, bt' = bt, bt.pc = "idle",
         vc.pc \in {"hop", "modify"}, vc'.pc = "idle"
  PROVE  BothSteps /\ Sound(own)'
<1>0. PICK q, h : q = vc.prefix /\ h = vc.hop
  OBVIOUS
<1>1. \A p \in Kept : BTrieRoute(p)' = BTrieRoute(p)
  BY BtRests
<1>2. /\ q \in Kept => BothNow' = [BothNow EXCEPT ![q] = h]
      /\ q \notin Kept => BothNow' = BothNow
  BY <1>0, <1>1, BothPut DEF Sound, TriesInv
<1>3. PendingCall' = [kind |-> "none"]
  BY CallSeenNext DEF CallShown
<1>4. BothSteps
  <2>1. CASE q \in Kept
    <3>1. PendingCall = [kind |-> "put", key |-> q, hop |-> h]
      BY <1>0, <2>1, CallSeen DEF CallShown, Inserting
    <3>2. PendingCall.kind = "put" /\ PendingCall.key = q /\ PendingCall.hop = h
      BY <3>1
    <3> QED BY <1>2, <1>3, <2>1, <3>2 DEF BothSteps, BTrieMap!NoCall
  <2>2. CASE q \notin Kept
    <3>1. PendingCall = [kind |-> "none"]
      BY <1>0, <2>2, CallSeen DEF CallShown, Inserting
    <3> QED BY <1>2, <1>3, <2>2, <3>1 DEF BothSteps
  <2> QED BY <2>1, <2>2
<1>5. q \in Kept => BTrieRoute(q) = None
  <2>1. CASE vc.pc = "hop"
    BY <1>0, <2>1 DEF Sound, ApartTrue, Inserting
  <2>2. CASE vc.pc = "modify"
    <3>1. ~Unrouted(own, q)
      BY <1>0, <2>2 DEF Sound, VcFits, CallStands, Stands, Unrouted
    <3> QED BY <3>1 DEF Sound, ApartTrue
  <2> QED BY <2>1, <2>2
<1>6. ApartTrue(own)'
  <2>1. ASSUME NEW p \in Kept, ~Unrouted(own, p)' PROVE BTrieRoute(p) = None
    <3>1. PICK g : VcStored(own, p, g)'
      BY <2>1 DEF VcStored, Unrouted
    <3>2. p = q \/ VcStored(own, p, g)
      BY <1>0, <3>1, KeptPrefix DEF PutStored
    <3>3. VcStored(own, p, g) => ~Unrouted(own, p)
      BY DEF VcStored, Unrouted
    <3> QED BY <1>5, <3>2, <3>3 DEF Sound, ApartTrue
  <2>2. vc'.pc \notin Inserting /\ bt'.pc \notin Entering \cup Leaving
    BY PcFacts DEF Inserting
  <2> QED BY <1>1, <2>1, <2>2 DEF ApartTrue
<1> QED BY <1>4, <1>6 DEF Sound

\* The step in which a deletion takes effect.
LEMMA VcDrops ==
  ASSUME Inv, Inv', TriesInv, VcTypeOK', NEW own, Sound(own), VcFits(own)', DropStored(own),
         bram' = bram, owner' = owner, bt' = bt, bt.pc = "idle",
         vc.pc = "invalidate", vc'.pc = "invalidate hop"
  PROVE  BothSteps /\ Sound(own)'
<1>0. PICK q : q = vc.prefix
  OBVIOUS
<1>1. \A p \in Kept : BTrieRoute(p)' = BTrieRoute(p)
  BY BtRests
<1>2. q \in Kept => BTrieRoute(q) = None
  <2>1. ~Unrouted(own, q)
    BY <1>0 DEF Sound, VcFits, CallStands, Stands, Unrouted
  <2> QED BY <2>1 DEF Sound, ApartTrue
<1>3. /\ q \in Kept => BothNow' = [BothNow EXCEPT ![q] = None]
      /\ q \notin Kept => BothNow' = BothNow
  BY <1>0, <1>1, <1>2, BothDrop DEF Sound, TriesInv
<1>4. PendingCall' = [kind |-> "none"]
  BY CallSeenNext DEF CallShown
<1>5. BothSteps
  <2>1. CASE q \in Kept
    <3>1. PendingCall = [kind |-> "drop", key |-> q]
      BY <1>0, <2>1, CallSeen DEF CallShown
    <3>2. PendingCall.kind = "drop" /\ PendingCall.key = q
      BY <3>1
    <3> QED BY <1>3, <1>4, <2>1, <3>2 DEF BothSteps, BTrieMap!NoCall
  <2>2. CASE q \notin Kept
    <3>1. PendingCall = [kind |-> "none"]
      BY <1>0, <2>2, CallSeen DEF CallShown
    <3> QED BY <1>3, <1>4, <2>2, <3>1 DEF BothSteps
  <2> QED BY <2>1, <2>2
<1>6. ApartTrue(own)'
  <2>1. ASSUME NEW p \in Kept, ~Unrouted(own, p)' PROVE BTrieRoute(p) = None
    <3>1. PICK g : VcStored(own, p, g)'
      BY <2>1 DEF VcStored, Unrouted
    <3>2. VcStored(own, p, g)
      BY <3>1, KeptPrefix DEF DropStored
    <3>3. ~Unrouted(own, p)
      BY <3>2 DEF VcStored, Unrouted
    <3> QED BY <3>3 DEF Sound, ApartTrue
  <2>2. vc'.pc \notin Inserting /\ bt'.pc \notin Entering \cup Leaving
    BY PcFacts DEF Inserting
  <2> QED BY <1>1, <2>1, <2>2 DEF ApartTrue
<1> QED BY <1>5, <1>6 DEF Sound

LEMMA NotFoundUnrouted ==
  ASSUME VcTypeOK, NEW own, VcFits(own), NEW p \in Prefixes, ~InVcTrie(p)
  PROVE  Unrouted(own, p)
<1>1. Matches(p) = {}
  <2> SUFFICES ASSUME Matches(p) # {} PROVE FALSE
    OBVIOUS
  <2>1. \E m : VCTrieLookup(p) = <<m[2], m[3]>>
    BY DEF VCTrieLookup
  <2>2. VCTrieLookup(p) # <<>>
    BY <2>1
  <2> QED BY <2>2 DEF InVcTrie
<1>2. ASSUME NEW n, NEW i, Routed(own, p, n, i) PROVE FALSE
  <2>1. <<Len(own[n]), n, i>> \in Matches(p)
    BY <1>2, LengthInUse, MatchesAre DEF Routed, VcFits
  <2> QED BY <1>1, <2>1
<1> QED BY <1>2 DEF Unrouted

LEMMA NotFoundNone ==
  ASSUME NEW p, ~BTrieLookup(p) PROVE BTrieRoute(p) = None
BY DEF BTrieLookup, BTrieRoute

\* While nothing is in progress, what a lookup finds is a route.
LEMMA FoundRouted ==
  ASSUME VcTypeOK, NEW own, VcFits(own), NEW p \in Prefixes, InVcTrie(p), vc.pc = "idle"
  PROVE  \E n, i : VCTrieLookup(p) = <<n, i>> /\ Routed(own, p, n, i)
<1>1. PICK n, i : /\ VCTrieLookup(p) = <<n, i>>
                  /\ Routed(own, p, n, i) \/ (isInvalid(EntryIn(n, i)) /\ Half(n, i))
  BY FoundInUse
<1>2. ~Half(n, i)
  BY DEF Half, HalfPcs
<1> QED BY <1>1, <1>2

LEMMA InsertBoth ==
  ASSUME Inv, Inv', TriesInv, VcTypeOK', NEW own, Sound(own),
         NEW p \in Prefixes, NEW h \in Hops, TrieInsert(p, h)
  PROVE  BothSteps /\ Sound(own)'
<1>1. /\ bt.pc = "idle" /\ vc.pc = "idle" /\ ~InVcTrie(p) /\ ~BTrieLookup(p)
      /\ bram' = bram /\ owner' = owner /\ bt' = bt /\ vcbram' = vcbram /\ node_num' = node_num
      /\ vc' = [VcIdle EXCEPT !.pc = "insert", !.prefix = p, !.hop = h]
  BY DEF TrieInsert, Ready, TrieLookup, VCTrieInsert, btVars
<1>2. /\ vc'.pc = "insert" /\ vc'.prefix = p /\ vc'.hop = h /\ vc'.at = Root /\ vc'.depth = 0
  BY <1>1 DEF VcIdle
<1>3. VcTypeOK /\ VcFits(own) /\ Tree(own)
  BY DEF TriesInv, Sound, VcFits
<1>4. Unrouted(own, p) /\ BTrieRoute(p) = None
  BY <1>1, <1>3, NotFoundUnrouted, NotFoundNone
<1>5. Live' = Live /\ Tree(own)' /\ \A n, i : EntryIn(n, i)' = EntryIn(n, i)
  BY <1>1, <1>3, TreeStays
<1>6. CallStands(own)'
  <2>1. Unrouted(own, p)'
    BY <1>4, <1>5, RoutedSame DEF Unrouted
  <2>2. ASSUME NEW n, NEW i, Claim(own, p, n, i)' PROVE 0 =< Len(own[n])
    <3>1. Claim(own, p, n, i)
      BY <1>5, <2>2, ClaimSame
    <3>2. Len(own[n]) \in Nat
      BY <1>3, <3>1, LiveType DEF Claim
    <3> QED BY <3>2
  <2>3. Root \in NodesAt(own, p, 0)'
    BY DEF NodesAt
  <2>4. \A s : Stands(own, p, Root, s, 0)'
    BY <1>2, <2>1, <2>2, <2>3 DEF Stands, InPlace
  <2> QED BY <1>2, <2>4 DEF CallStands
<1> QED BY <1>1, <1>2, <1>3, <1>4, <1>6, VcCalls

\* A call for a route that is there.
LEMMA CallAtRoute ==
  ASSUME VcTypeOK, NEW own, VcFits(own), NEW p \in Prefixes, NEW n, NEW i,
         Routed(own, p, n, i), vcbram' = vcbram, node_num' = node_num,
         vc'.prefix = p, vc'.at = n, vc'.slot = i, vc'.pc \in {"modify", "invalidate"}
  PROVE  CallStands(own)'
<1>1. Live' = Live /\ \A m, j : EntryIn(m, j)' = EntryIn(m, j)
  BY TreeStays DEF VcFits
<1>2. Routed(own, p, n, i)' /\ n \in Live'
  <2>1. Routed(own, p, n, i)'
    BY <1>1, RoutedSame
  <2> QED BY <1>1, <2>1 DEF Routed, Claim
<1>3. \A d : Stands(own, p, n, i, d)'
  BY <1>2 DEF Stands, InPlace, Inserting
<1> QED BY <1>3 DEF CallStands

LEMMA ModifyBoth ==
  ASSUME Inv, Inv', TriesInv, VcTypeOK', NEW own, Sound(own), OneCall,
         NEW p \in Prefixes, NEW h \in Hops, TrieModify(p, h)
  PROVE  BothSteps /\ Sound(own)'
<1>1. bt.pc = "idle" /\ vc.pc = "idle" /\ VcTypeOK /\ VcFits(own)
  BY DEF TrieModify, Ready, TriesInv, Sound
<1>2. CASE InVcTrie(p) /\ VCEntryModify(p, h, VCTrieLookup(p)) /\ UNCHANGED btVars
  <2>1. PICK n, i : VCTrieLookup(p) = <<n, i>> /\ Routed(own, p, n, i)
    BY <1>1, <1>2, FoundRouted
  <2>2. /\ vc' = [VcIdle EXCEPT !.pc = "modify", !.prefix = p, !.hop = h, !.at = n, !.slot = i]
        /\ bram' = bram /\ owner' = owner /\ bt' = bt
        /\ vcbram' = vcbram /\ node_num' = node_num
    BY <1>2, <2>1 DEF VCEntryModify, btVars
  <2>3. /\ vc'.pc = "modify" /\ vc'.prefix = p /\ vc'.hop = h /\ vc'.at = n /\ vc'.slot = i
    BY <2>2 DEF VcIdle
  <2>4. CallStands(own)'
    BY <1>1, <2>1, <2>2, <2>3, CallAtRoute
  <2> QED BY <1>1, <2>2, <2>3, <2>4, VcCalls
<1>3. CASE ~InVcTrie(p) /\ BTrieInsert(p, h) /\ UNCHANGED vcVars
  <2>1. Unrouted(own, p)
    BY <1>1, <1>3, NotFoundUnrouted
  <2>2. bt'.prefix = p /\ vcbram' = vcbram /\ node_num' = node_num /\ vc' = vc
    BY <1>3 DEF BTrieInsert, Find, vcVars
  <2> QED BY <1>1, <2>1, <2>2, BtMoves
<1> QED BY <1>2, <1>3 DEF TrieModify

LEMMA DeleteBoth ==
  ASSUME Inv, Inv', TriesInv, VcTypeOK', NEW own, Sound(own), OneCall,
         NEW p \in Prefixes, TrieDelete(p)
  PROVE  BothSteps /\ Sound(own)'
<1>1. bt.pc = "idle" /\ vc.pc = "idle" /\ VcTypeOK /\ VcFits(own)
  BY DEF TrieDelete, Ready, TriesInv, Sound
<1>2. CASE InVcTrie(p) /\ VCEntryInvalidate(p, VCTrieLookup(p)) /\ UNCHANGED btVars
  <2>1. PICK n, i : VCTrieLookup(p) = <<n, i>> /\ Routed(own, p, n, i)
    BY <1>1, <1>2, FoundRouted
  <2>2. /\ vc' = [VcIdle EXCEPT !.pc = "invalidate", !.prefix = p, !.at = n, !.slot = i]
        /\ bram' = bram /\ owner' = owner /\ bt' = bt
        /\ vcbram' = vcbram /\ node_num' = node_num
    BY <1>2, <2>1 DEF VCEntryInvalidate, btVars
  <2>3. /\ vc'.pc = "invalidate" /\ vc'.prefix = p /\ vc'.at = n /\ vc'.slot = i
    BY <2>2 DEF VcIdle
  <2>4. CallStands(own)'
    BY <1>1, <2>1, <2>2, <2>3, CallAtRoute
  <2> QED BY <1>1, <2>2, <2>3, <2>4, VcCalls
<1>3. CASE ~InVcTrie(p) /\ BTrieDelete(p) /\ UNCHANGED vcVars
  <2>1. Unrouted(own, p)
    BY <1>1, <1>3, NotFoundUnrouted
  <2>2. bt'.prefix = p /\ vcbram' = vcbram /\ node_num' = node_num /\ vc' = vc
    BY <1>3 DEF BTrieDelete, Find, vcVars
  <2> QED BY <1>1, <2>1, <2>2, BtMoves
<1> QED BY <1>2, <1>3 DEF TrieDelete

\* The caller takes an insertion that found no room to the second trie.
LEMMA ExcessiveBoth ==
  ASSUME Inv, Inv', TriesInv, VcTypeOK', NEW own, Sound(own), TrieInsertExcessive
  PROVE  BothSteps /\ Sound(own)'
<1>0. PICK p, h : p = vc.prefix /\ h = vc.hop
  OBVIOUS
<1>1. /\ vc.pc = "excessive" /\ vc' = VcIdle /\ vcbram' = vcbram /\ node_num' = node_num
      /\ bt' = Find("insert_find", p, h, Len(p), 0) /\ bram' = bram /\ owner' = owner
  BY <1>0 DEF TrieInsertExcessive, BTrieInsert
<1>2. bt'.pc = "insert_find" /\ bt'.prefix = p /\ bt'.hop = h /\ vc'.pc = "idle"
  BY <1>1 DEF Find, VcIdle
<1>3. CallStands(own)'
  BY <1>2 DEF CallStands, Stands, Inserting, InPlace
<1>4. VcFits(own)' /\ SameRouted(own)
  BY <1>1, <1>2, <1>3, NoWrite DEF Sound, HalfPcs
<1>5. SameRoutes(own, own)
  BY <1>4 DEF SameRouted, SameRoutes
<1>6. \A q \in Kept : BTrieRoute(q)' = BTrieRoute(q)
  BY <1>1, BtRests
<1>7. BothNow' = BothNow
  BY <1>4, <1>5, <1>6, BothSame DEF Sound, TriesInv
<1>8. PendingCall' = PendingCall
  <2>1. PendingCall' = BtPending'
    BY <1>2, CallSeenNext DEF CallShown
  <2>2. CASE p \in Kept
    <3>1. PendingCall = [kind |-> "put", key |-> p, hop |-> h]
      BY <1>0, <1>1, <2>2, CallSeen DEF CallShown, Inserting
    <3>2. BtPending' = [kind |-> "put", key |-> p, hop |-> h]
      BY <1>2, <2>2, PendingSeenNext DEF PendingShown, Entering
    <3> QED BY <2>1, <3>1, <3>2
  <2>3. CASE p \notin Kept
    <3>1. PendingCall = [kind |-> "none"]
      BY <1>0, <1>1, <2>3, CallSeen DEF CallShown, Inserting
    <3>2. BtPending' = [kind |-> "none"]
      BY <1>2, <2>3, PendingSeenNext DEF PendingShown
    <3> QED BY <2>1, <3>1, <3>2
  <2> QED BY <2>2, <2>3
<1>9. Unrouted(own, p)
  BY <1>0, <1>1 DEF Sound, VcFits, CallStands, Stands, Inserting
<1>10. ApartTrue(own)'
  <2>1. \A q \in Kept : ~Unrouted(own, q)' => BTrieRoute(q)' = None
    BY <1>5, <1>6, SameRoutesStored DEF Sound, ApartTrue
  <2>2. vc'.pc \notin Inserting
    BY <1>2 DEF Inserting
  <2>3. \A q : q = bt'.prefix => Unrouted(own, q)'
    BY <1>2, <1>5, <1>9, SameRoutesStored
  <2> QED BY <2>1, <2>2, <2>3 DEF ApartTrue
<1> QED BY <1>4, <1>7, <1>8, <1>10 DEF BothSteps, Sound

LEMMA VcStepBoth ==
  ASSUME Inv, Inv', TriesInv, VcTypeOK', PendingInv, NEW own, Sound(own),
         VcStep, UNCHANGED btVars
  PROVE  BothSteps /\ \E o : Sound(o)'
<1>1. bram' = bram /\ owner' = owner /\ bt' = bt
  BY DEF btVars
<1>2. VcTypeOK /\ VcFits(own) /\ CallFields
  BY DEF TriesInv, VcInv, Sound
<1>3. bt.pc = "idle"
  <2>1. vc.pc # "idle"
    BY DEF VcStep, VcDescend, VcExcessive, VcPlaceLength, VcPlacePrefix, VcPlaceHop,
           VcModifyHop, VcInvalidateLength, VcInvalidateHop
  <2> QED BY <2>1 DEF PendingInv
<1>4. ASSUME SameRouted(own) PROVE SameRoutes(own, own)
  BY <1>4 DEF SameRouted, SameRoutes
<1>5. CASE VcDescend
  <2>1. PICK o : VcFits(o)' /\ SameRoutes(own, o)
    BY <1>2, <1>5, DescendFits
  <2>2. vc.pc = "insert" /\ \E x, e : vc' = [vc EXCEPT !.at = x, !.depth = e]
    BY <1>5 DEF VcDescend
  <2>3. vc'.pc = "insert" /\ vc'.prefix = vc.prefix /\ vc'.hop = vc.hop
    BY <1>2, <2>2 DEF CallFields
  <2> QED BY <1>1, <1>2, <1>3, <2>1, <2>2, <2>3, VcGoesOn DEF Inserting
<1>6. CASE VcExcessive
  <2>1. VcFits(own)' /\ SameRouted(own)
    BY <1>2, <1>6, ExcessiveFits
  <2>2. vc.pc = "insert" /\ vc' = [vc EXCEPT !.pc = "excessive"]
    BY <1>6 DEF VcExcessive
  <2>3. vc'.pc = "excessive" /\ vc'.prefix = vc.prefix /\ vc'.hop = vc.hop
    BY <1>2, <2>2 DEF CallFields
  <2> QED BY <1>1, <1>2, <1>3, <1>4, <2>1, <2>2, <2>3, VcGoesOn DEF Inserting
<1>7. CASE VcPlaceLength
  <2>1. VcFits(own)' /\ SameRouted(own)
    BY <1>2, <1>7, PlaceFits
  <2>2. vc.pc = "insert" /\ \E i : vc' = [vc EXCEPT !.pc = "prefix", !.slot = i]
    BY <1>7 DEF VcPlaceLength
  <2>3. vc'.pc = "prefix" /\ vc'.prefix = vc.prefix /\ vc'.hop = vc.hop
    BY <1>2, <2>2 DEF CallFields
  <2> QED BY <1>1, <1>2, <1>3, <1>4, <2>1, <2>2, <2>3, VcGoesOn DEF Inserting
<1>8. CASE VcPlacePrefix
  <2>1. VcFits(own)' /\ SameRouted(own)
    BY <1>2, <1>8, PrefixFits
  <2>2. vc.pc = "prefix" /\ vc' = [vc EXCEPT !.pc = "hop"]
    BY <1>8 DEF VcPlacePrefix
  <2>3. vc'.pc = "hop" /\ vc'.prefix = vc.prefix /\ vc'.hop = vc.hop
    BY <1>2, <2>2 DEF CallFields
  <2> QED BY <1>1, <1>2, <1>3, <1>4, <2>1, <2>2, <2>3, VcGoesOn DEF Inserting
<1>9. CASE VcPlaceHop
  <2>1. VcFits(own)' /\ PutStored(own)
    BY <1>2, <1>9, PlaceHopFits
  <2>2. vc.pc = "hop" /\ vc'.pc = "idle"
    BY <1>9 DEF VcPlaceHop, VcIdle
  <2> QED BY <1>1, <1>3, <2>1, <2>2, VcPuts
<1>10. CASE VcModifyHop
  <2>1. VcFits(own)' /\ PutStored(own)
    BY <1>2, <1>10, ModifyFits
  <2>2. vc.pc = "modify" /\ vc'.pc = "idle"
    BY <1>10 DEF VcModifyHop, VcIdle
  <2> QED BY <1>1, <1>3, <2>1, <2>2, VcPuts
<1>11. CASE VcInvalidateLength
  <2>1. VcFits(own)' /\ DropStored(own)
    BY <1>2, <1>11, InvalidateLengthFits
  <2>2. vc.pc = "invalidate" /\ vc' = [vc EXCEPT !.pc = "invalidate hop"]
    BY <1>11 DEF VcInvalidateLength
  <2>3. vc'.pc = "invalidate hop"
    BY <1>2, <2>2 DEF CallFields
  <2> QED BY <1>1, <1>3, <2>1, <2>2, <2>3, VcDrops
<1>12. CASE VcInvalidateHop
  <2>1. VcFits(own)' /\ SameRouted(own)
    BY <1>2, <1>12, InvalidateHopFits
  <2>2. vc.pc = "invalidate hop" /\ vc'.pc = "idle"
    BY <1>12 DEF VcInvalidateHop, VcIdle
  <2> QED BY <1>1, <1>2, <1>3, <1>4, <2>1, <2>2, VcGoesOn
<1> QED BY <1>5, <1>6, <1>7, <1>8, <1>9, <1>10, <1>11, <1>12 DEF VcStep

LEMMA StepsSound ==
  ASSUME Inv, Inv', TriesInv, PendingInv, NEW own, Sound(own), [Next]_vars, ~TrieInit
  PROVE  BothSteps /\ \E o : Sound(o)'
<1>0. VcTypeOK /\ VcTypeOK' /\ VcInv
  BY VcTypesStep DEF TriesInv
<1>1. OneCall
  BY <1>0, EveryStepCalls
<1>2. CASE BTrieStep /\ UNCHANGED vcVars
  <2>1. bt.pc # "idle"
    BY <1>2 DEF BTrieStep, BTrieWalk, BTrieNew, BTrieLink, BTrieStore, BTrieNotFound,
                BTrieClear, BTrieUnlink
  <2>2. vc.pc = "idle" /\ vcbram' = vcbram /\ node_num' = node_num /\ vc' = vc
    BY <1>2, <2>1 DEF PendingInv, vcVars
  <2>3. \A p : bt'.pc \in Entering \cup Leaving /\ p = bt'.prefix => Unrouted(own, p)
    BY <1>2, BtGoesOn DEF Sound, ApartTrue
  <2> QED BY <1>0, <1>1, <2>2, <2>3, BtMoves
<1>3. CASE TrieAsk \/ UNCHANGED vars
  <2>1. /\ bram' = bram /\ owner' = owner /\ bt' = bt /\ vcbram' = vcbram
        /\ node_num' = node_num /\ vc' = vc
    BY <1>3 DEF TrieAsk, vars, btVars, vcVars
  <2>2. VcFits(own)' /\ SameRoutes(own, own)
    BY <2>1, VcStays DEF Sound
  <2>3. \A p \in Kept : BTrieRoute(p)' = BTrieRoute(p)
    BY <2>1, BtRests
  <2>4. BothNow' = BothNow
    BY <1>0, <2>2, <2>3, BothSame DEF Sound
  <2>5. PendingCall' = PendingCall
    BY <2>1 DEF PendingCall, Put
  <2>6. ApartTrue(own)'
    <3>1. \A p : Unrouted(own, p)' <=> Unrouted(own, p)
      BY <2>2, SameRoutesStored
    <3> QED BY <2>1, <2>3, <3>1 DEF Sound, ApartTrue
  <2> QED BY <2>2, <2>4, <2>5, <2>6 DEF BothSteps, Sound
<1>4. CASE \E p \in Prefixes : TrieDelete(p)
  BY <1>0, <1>1, <1>4, DeleteBoth
<1>5. CASE \E p \in Prefixes : \E h \in Hops : TrieInsert(p, h)
  BY <1>0, <1>5, InsertBoth
<1>6. CASE \E p \in Prefixes : \E h \in Hops : TrieModify(p, h)
  BY <1>0, <1>1, <1>6, ModifyBoth
<1>7. CASE TrieInsertExcessive
  BY <1>0, <1>7, ExcessiveBoth
<1>8. CASE VcStep /\ UNCHANGED btVars
  BY <1>0, <1>8, VcStepBoth
<1> QED BY <1>2, <1>3, <1>4, <1>5, <1>6, <1>7, <1>8 DEF Next

-----------------------------------------------------------------------------
(* From power on, until a reset. *)

BothInv == ~warm => \E own : Sound(own)

LEMMA SoundAtFirst == Init => \E own : Sound(own)
<1> SUFFICES ASSUME Init PROVE \E own : Sound(own)
  OBVIOUS
<1>1. /\ vcbram = [n \in Nodes |-> [lc |-> 0, rc |-> 0, bin |-> [i \in Slots(n[1]) |-> NoEntry]]]
      /\ node_num = [s \in Stages |-> IF s = 0 THEN 2 ELSE 0]
      /\ vc.pc = "idle" /\ bt.pc = "idle"
  BY DEF Init, VCTrieInit, BTrieInit, VcIdle, Idle
<1>2. PICK own : own = [n \in {<<0, 1>>, <<0, 2>>} |-> IF n = <<0, 1>> THEN <<0>> ELSE <<1>>]
  OBVIOUS
<1>3. own[<<0, 1>>] = <<0>> /\ own[<<0, 2>>] = <<1>>
  BY <1>2
<1>4. 0 \in Stages /\ BRAM_DEPTHS[0] \in Nat /\ BRAM_DEPTHS[0] > 3
  BY VcShapeAssumption DEF Stages
<1>5. Live = {<<0, 1>>, <<0, 2>>}
  <2>1. ASSUME NEW n \in Live PROVE n \in {<<0, 1>>, <<0, 2>>}
    <3>1. n = <<n[1], n[2]>> /\ n[1] \in Stages /\ n[2] \in 1 .. node_num[n[1]]
      BY DEF Live, Nodes
    <3>2. n[1] = 0
      <4> SUFFICES ASSUME n[1] # 0 PROVE FALSE
        OBVIOUS
      <4>1. node_num[n[1]] = 0
        BY <1>1, <3>1
      <4> QED BY <3>1, <4>1
    <3>3. node_num[n[1]] = 2
      BY <1>1, <1>4, <3>2
    <3>4. n[2] = 1 \/ n[2] = 2
      BY <3>1, <3>3
    <3> QED BY <3>1, <3>2, <3>4
  <2>2. <<0, 1>> \in Nodes /\ <<0, 2>> \in Nodes
    BY <1>4 DEF Nodes
  <2>3. node_num[0] = 2
    BY <1>1, <1>4
  <2>4. <<0, 1>> \in Live /\ <<0, 2>> \in Live
    BY <2>2, <2>3 DEF Live
  <2> QED BY <2>1, <2>4
<1>6. \A n \in Nodes : /\ vcbram[n].lc = 0 /\ vcbram[n].rc = 0
                       /\ \A i \in Slots(n[1]) : EntryIn(n, i) = NoEntry
  BY <1>1 DEF EntryIn
<1>7. Live \subseteq Nodes /\ Root \notin Live
  BY DEF Live, Root
<1>8. \A n \in Live, b \in Bit : GetChild(n, b) = 0
  BY <1>6, <1>7 DEF GetChild, NodeAt
<1>9. Tree(own)
  <2>1. PathsTyped(own)
    BY <1>3, <1>5 DEF PathsTyped, Bit
  <2>2. PathsDistinct(own)
    <3>1. own[<<0, 1>>][1] = 0 /\ own[<<0, 2>>][1] = 1
      BY <1>3
    <3> QED BY <1>5, <3>1 DEF PathsDistinct
  <2>3. FirstNodes(own)
    BY <1>3, <1>5 DEF FirstNodes
  <2>4. ChildrenTrue(own)
    BY <1>8 DEF ChildrenTrue
  <2>5. ParentsLead(own)
    BY <1>3, <1>5 DEF ParentsLead
  <2>6. Pristine
    BY <1>6 DEF Pristine
  <2> QED BY <2>1, <2>2, <2>3, <2>4, <2>5, <2>6 DEF Tree
<1>10. \A n \in Live : \A i \in Slots(n[1]) : Unused(EntryIn(n, i)) /\ ~InUse(EntryIn(n, i))
  BY <1>6, <1>7 DEF Unused, InUse, NoEntry
<1>11. \A p, n, i : ~Routed(own, p, n, i)
  BY <1>10 DEF Routed, Claim
<1>12. EntriesWhole /\ FirstTrue(own)
  BY <1>10, <1>11 DEF EntriesWhole, FirstTrue
<1>13. HalfTrue /\ CallStands(own)
  BY <1>1 DEF HalfTrue, Half, HalfPcs, CallStands, Stands, Inserting, InPlace
<1>14. ApartTrue(own)
  BY <1>1, <1>11 DEF ApartTrue, Unrouted, Inserting
<1> QED BY <1>9, <1>12, <1>13, <1>14 DEF Sound, VcFits

LEMMA BothInit == Init => BothInv /\ Map!Init
<1> SUFFICES ASSUME Init PROVE BothInv /\ Map!Init
  OBVIOUS
<1>1. PICK own : Sound(own)
  BY SoundAtFirst
<1>2. ~warm /\ VcTypeOK /\ bt.pc = "idle" /\ vc.pc = "idle"
  BY TriesInitInv DEF TriesInv, Init, BTrieInit, VCTrieInit, Idle, VcIdle
<1>3. \A p \in Kept : BTrieRoute(p) = None
  <2>1. [p \in Kept |-> BTrieRoute(p)] = [p \in Kept |-> None]
    BY MapInit DEF BTrieMap!Init, BTrieMap!Nothing
  <2> QED BY <2>1
<1>4. \A p \in Kept : Route(p) = None
  <2> SUFFICES ASSUME NEW p \in Kept PROVE Route(p) = None
    OBVIOUS
  <2>1. Unrouted(own, p)
    <3>1. \A n \in Nodes : \A i \in Slots(n[1]) : EntryIn(n, i) = NoEntry
      BY DEF Init, VCTrieInit, EntryIn
    <3> QED BY <3>1 DEF Unrouted, Routed, Claim, Live, InUse, NoEntry
  <2> QED BY <1>1, <1>2, <1>3, <2>1, KeptPrefix, VcRoutesFound DEF VcRoutesTrue, Sound
<1>5. PendingCall = [kind |-> "none"]
  BY <1>2, CallSeen DEF CallShown
<1>6. BothInv
  BY <1>1 DEF BothInv
<1> QED BY <1>2, <1>4, <1>5, <1>6 DEF Map!Init, Map!Nothing, Map!NoCall

LEMMA BothStep ==
  ASSUME Inv, Inv', TriesInv, TriesInv', PendingInv, BothInv, [Next]_vars
  PROVE  BothInv' /\ [Map!Next]_(Map!mapVars)
<1>1. CASE warm'
  BY <1>1 DEF BothInv, Map!Next
<1>2. CASE ~warm'
  <2>1. ~warm /\ ~TrieInit
    <3>1. ~TrieInit
      BY <1>2 DEF TrieInit
    <3>2. warm' = warm
      BY <3>1 DEF Next, TrieAsk, TrieInsertExcessive, TrieDelete, TrieInsert, TrieModify, vars
    <3> QED BY <1>2, <3>1, <3>2
  <2>2. PICK own : Sound(own)
    BY <2>1 DEF BothInv
  <2>3. BothSteps /\ \E o : Sound(o)'
    BY <2>1, <2>2, StepsSound
  <2>4. BothInv'
    BY <2>3 DEF BothInv
  <2>5. /\ [p \in Kept |-> IF warm THEN None ELSE Route(p)] = BothNow
        /\ [p \in Kept |-> IF warm THEN None ELSE Route(p)]' = BothNow'
    BY <1>2, <2>1 DEF BothNow
  <2>6. PendingCall # Map!NoCall => PendingCall.key \in Kept
    BY DEF PendingCall, Map!NoCall
  <2>7. \/ Map!Call \/ Map!Put \/ Map!Drop \/ Map!Refuse
        \/ UNCHANGED <<[p \in Kept |-> IF warm THEN None ELSE Route(p)], PendingCall>>
    BY <2>3, <2>5 DEF BothSteps, Map!Call, Map!Put, Map!Drop, Map!Refuse, Map!NoCall,
                      Map!Calls, BTrieMap!NoCall, BTrieMap!Calls
  <2> QED BY <1>2, <2>1, <2>4, <2>7 DEF Map!Next, Map!mapVars
<1> QED BY <1>1, <1>2

\* Until a reset the two tries together are one map, whose calls take effect in
\* one step each: routes move from neither trie to the other, a route being
\* written, moved deeper or taken out is there or not, never half, and what one
\* trie does never shows in a route of the other (tries.c:29-109).
THEOREM TriesAreMap == Spec => TriesImplementMap
<1>1. Spec => []Inv
  BY TriesImplementBTrie, InitInv, StepInv, PTL DEF BTrieSpec
<1>2. TriesInv /\ Inv /\ [Next]_vars => TriesInv'
  <2> SUFFICES ASSUME TriesInv, Inv, [Next]_vars PROVE TriesInv'
    OBVIOUS
  <2> QED BY VcCallInv, VcTypesStep, FiledStep DEF TriesInv
<1>3. Inv /\ PendingInv /\ [Next]_vars => PendingInv'
  BY PendingStep
<1>4. Inv /\ Inv' /\ TriesInv /\ TriesInv' /\ PendingInv /\ BothInv /\ [Next]_vars
        => BothInv' /\ [Map!Next]_(Map!mapVars)
  BY BothStep
<1> QED BY <1>1, <1>2, <1>3, <1>4, BothInit, TriesInitInv, PendingInit, PTL
        DEF Spec, TriesImplementMap, Map!Spec

-----------------------------------------------------------------------------
(* The indexes of entries and nodes.                                       *)

\* Row m of width B, place r in it.
LEMMA Spread ==
  ASSUME NEW B \in Nat, NEW m \in Nat, NEW r \in 0 .. B - 1
  PROVE  /\ m * B + r \in Nat /\ (m * B + r) \div B = m /\ (m * B + r) % B = r
         /\ \A D \in Nat : m < D => m * B + r < D * B
<1>1. B \in Nat \ {0} /\ m * B \in Nat
  OBVIOUS
<1>2. (m * B + r) \div B = m
  BY <1>1
<1>3. (m * B + r) % B = r
  BY <1>1
<1>4. ASSUME NEW D \in Nat, m < D PROVE m * B + r < D * B
  <2>1. PICK k \in Nat : D = m + 1 + k
    <3>1. D - m - 1 \in Nat /\ D = m + 1 + (D - m - 1)
      BY <1>4
    <3> QED BY <3>1
  <2>2. D * B = m * B + B + k * B /\ k * B \in Nat
    BY <2>1
  <2> QED BY <1>1, <2>2
<1> QED BY <1>1, <1>2, <1>3, <1>4

SumNext(f, s) == IF s = 0 THEN 0 ELSE f[s - 1] + BRAM_DEPTHS[s - 1] * BIN_SIZES[s - 1]
IsSums(f, k) == f = [s \in 0 .. k |-> SumNext(f, s)]

LEMMA SumNextSame ==
  ASSUME NEW f, NEW g, NEW s, s = 0 \/ f[s - 1] = g[s - 1]
  PROVE  SumNext(f, s) = SumNext(g, s)
BY DEF SumNext

LEMMA SumsExist == ASSUME NEW k \in Nat PROVE \E f : IsSums(f, k)
<1> DEFINE S == {n \in Nat : ~\E f : IsSums(f, n)}
<1> SUFFICES ASSUME S # {} PROVE FALSE
  OBVIOUS
<1>1. PICK n \in S : \A m \in S : n =< m
  <2> HIDE DEF S
  <2>1. \A x \in S : x \in Nat
    BY DEF S
  <2> QED BY <2>1, LeastNat
<1>2. n \in Nat /\ ~\E f : IsSums(f, n)
  OBVIOUS
<1>3. IsSums([s \in 0 .. 0 |-> 0], 0)
  <2>1. \A f, s : s \in 0 .. 0 => SumNext(f, s) = 0
    BY DEF SumNext
  <2> QED BY <2>1 DEF IsSums
<1>4. n # 0
  BY <1>2, <1>3
<1>5. n - 1 \in Nat /\ n - 1 \notin S
  BY <1>1, <1>2, <1>4
<1>6. PICK g : IsSums(g, n - 1)
  BY <1>5
<1> DEFINE f == [s \in 0 .. n |-> IF s = n THEN SumNext(g, n) ELSE g[s]]
<1>7. \A s \in 0 .. n : s = 0 \/ f[s - 1] = g[s - 1]
  BY <1>2, <1>5
<1>8. \A s \in 0 .. n : SumNext(f, s) = SumNext(g, s)
  <2> HIDE DEF f
  <2> QED BY <1>7, SumNextSame
<1>9. ASSUME NEW s \in 0 .. n PROVE f[s] = SumNext(g, s)
  <2>1. CASE s = n
    BY <2>1
  <2>2. CASE s # n
    <3>1. s \in 0 .. n - 1
      BY <1>2, <1>5, <2>2
    <3> QED BY <1>6, <2>2, <3>1 DEF IsSums
  <2> QED BY <2>1, <2>2
<1>10. f = [s \in 0 .. n |-> SumNext(f, s)]
  <2>1. f = [s \in 0 .. n |-> f[s]]
    OBVIOUS
  <2> HIDE DEF f
  <2> QED BY <1>8, <1>9, <2>1
<1> QED BY <1>2, <1>10 DEF IsSums

\* NODE_SIZE_PREFIX_SUMS add up.
LEMMA SumsAre ==
  /\ NodeSizePrefixSums[0] = 0
  /\ \A s \in Stages : NodeSizePrefixSums[s + 1] =
       NodeSizePrefixSums[s] + BRAM_DEPTHS[s] * BIN_SIZES[s]
<1> DEFINE f == CHOOSE f : IsSums(f, VC_LEVELS)
<1>0. VC_LEVELS \in Nat
  BY VcShapeAssumption
<1>1. IsSums(f, VC_LEVELS)
  BY <1>0, SumsExist
<1>2. NodeSizePrefixSums = f
  BY DEF NodeSizePrefixSums, IsSums, SumNext
<1> HIDE DEF f
<1>3. \A s \in 0 .. VC_LEVELS : f[s] = SumNext(f, s)
  BY <1>1 DEF IsSums
<1>4. f[0] = 0
  BY <1>0, <1>3 DEF SumNext
<1>5. ASSUME NEW s \in Stages PROVE f[s + 1] = f[s] + BRAM_DEPTHS[s] * BIN_SIZES[s]
  <2>1. s + 1 \in 0 .. VC_LEVELS /\ s + 1 # 0 /\ (s + 1) - 1 = s
    BY <1>0 DEF Stages
  <2> QED BY <1>3, <2>1 DEF SumNext
<1> QED BY <1>2, <1>4, <1>5

LEMMA SumsGrow ==
  ASSUME NEW s \in 0 .. VC_LEVELS
  PROVE  /\ NodeSizePrefixSums[s] \in Nat
         /\ \A t \in 0 .. s : NodeSizePrefixSums[t] =< NodeSizePrefixSums[s]
<1> DEFINE f == NodeSizePrefixSums
           Grows(k) == f[k] \in Nat /\ \A t \in 0 .. k : f[t] \in Nat /\ f[t] =< f[k]
           S == {k \in 0 .. VC_LEVELS : ~Grows(k)}
<1>0. VC_LEVELS \in Nat
  BY VcShapeAssumption
<1>1. f[0] = 0
  BY SumsAre
<1>2. ASSUME NEW k \in Stages, Grows(k) PROVE Grows(k + 1)
  <2>1. BRAM_DEPTHS[k] \in Nat /\ BIN_SIZES[k] \in Nat
    BY VcShapeAssumption
  <2>2. f[k + 1] = f[k] + BRAM_DEPTHS[k] * BIN_SIZES[k]
    BY SumsAre
  <2>3. PICK z : z = BRAM_DEPTHS[k] * BIN_SIZES[k] /\ z \in Nat
    BY <2>1
  <2> HIDE DEF f
  <2>4. /\ f[k + 1] \in Nat /\ f[k] =< f[k + 1] /\ f[k] \in Nat
        /\ \A t \in 0 .. k : f[t] \in Nat /\ f[t] =< f[k]
    BY <1>2, <2>2, <2>3
  <2>5. ASSUME NEW t \in 0 .. k + 1 PROVE f[t] \in Nat /\ f[t] =< f[k + 1]
    <3>1. CASE t = k + 1
      BY <2>4, <3>1
    <3>2. CASE t # k + 1
      <4>1. t \in 0 .. k
        BY <3>2 DEF Stages
      <4>2. f[t] \in Nat /\ f[t] =< f[k]
        BY <2>4, <4>1
      <4> QED BY <2>4, <4>2
    <3> QED BY <3>1, <3>2
  <2> QED BY <2>4, <2>5
<1> HIDE DEF f
<1>3. S = {}
  <2> SUFFICES ASSUME S # {} PROVE FALSE
    OBVIOUS
  <2>1. PICK k \in S : \A e \in S : k =< e
    <3> HIDE DEF S
    <3>1. S \subseteq Nat
      BY <1>0 DEF S
    <3> QED BY <3>1, LeastNat
  <2>2. k \in 0 .. VC_LEVELS /\ ~Grows(k)
    OBVIOUS
  <2>3. k # 0
    BY <1>1, <2>2
  <2>4. k - 1 \in Stages /\ k - 1 \in 0 .. VC_LEVELS /\ (k - 1) + 1 = k /\ ~(k =< k - 1)
    BY <1>0, <2>2, <2>3 DEF Stages
  <2>5. Grows(k - 1)
    BY <2>1, <2>4
  <2> QED BY <1>2, <2>2, <2>4, <2>5
<1>4. Grows(s)
  BY <1>3
<1> QED BY <1>4 DEF f

\* An entry is found again from its index, which lies between the sums of its
\* stage.
LEMMA PlaceIndex ==
  ASSUME NEW n \in Nodes, NEW i \in Slots(n[1])
  PROVE  /\ VCTrieAddressToIndex(<<n, i>>) \in Nat
         /\ VCTrieAddressToIndex(<<n, i>>) < NodeSizePrefixSums[VC_LEVELS]
         /\ VCTrieIndexToAddress(VCTrieAddressToIndex(<<n, i>>)) = <<n, i>>
<1> DEFINE sum == NodeSizePrefixSums
           index == VCTrieAddressToIndex(<<n, i>>)
<1>0. VC_LEVELS \in Nat
  BY VcShapeAssumption
<1>1. PICK s \in Stages : n \in {s} \X (0 .. BRAM_DEPTHS[s] - 1)
  BY DEF Nodes
<1>2. PICK m \in 0 .. BRAM_DEPTHS[s] - 1 : n = <<s, m>>
  BY <1>1
<1>3. PICK B : B = BIN_SIZES[s] /\ B \in Nat
  BY VcShapeAssumption
<1>4. PICK D : D = BRAM_DEPTHS[s] /\ D \in Nat
  BY VcShapeAssumption
<1>5. PICK r : r = i - 1 /\ r \in 0 .. B - 1 /\ i = r + 1
  BY <1>2, <1>3 DEF Slots
<1>6. m \in Nat /\ m < D
  BY <1>2, <1>4
<1>7. /\ m * B + r \in Nat /\ (m * B + r) \div B = m /\ (m * B + r) % B = r
      /\ m * B + r < D * B
  <2>1. /\ m * B + r \in Nat /\ (m * B + r) \div B = m /\ (m * B + r) % B = r
        /\ \A E \in Nat : m < E => m * B + r < E * B
    BY <1>3, <1>5, <1>6, Spread
  <2> QED BY <1>4, <1>6, <2>1
<1>8. PICK o : o = m * B + r /\ o \in Nat /\ o \div B = m /\ o % B = r /\ o < D * B
  BY <1>7
<1>9. PICK a : a = sum[s] /\ a \in Nat
  BY <1>0, SumsGrow DEF Stages
<1>10. PICK c : c = sum[s + 1] /\ c = a + D * B
  BY <1>3, <1>4, <1>9, SumsAre
<1>11. index = a + o
  <2>1. index = sum[s] + m * BIN_SIZES[s] + i - 1
    BY <1>2 DEF VCTrieAddressToIndex
  <2>2. PICK z : z = m * B /\ z \in Nat
    BY <1>3, <1>6
  <2> HIDE DEF index, sum
  <2>3. index = a + z + i - 1 /\ o = z + r
    BY <1>3, <1>8, <1>9, <2>1, <2>2
  <2>4. i = r + 1 /\ r \in Nat
    BY <1>3, <1>5
  <2> QED BY <1>9, <2>2, <2>3, <2>4
<1> HIDE DEF index, sum
<1>12. index \in Nat /\ a =< index /\ index < c /\ c \in Nat /\ index - a = o
  <2>1. D * B \in Nat
    BY <1>3, <1>4
  <2> QED BY <1>8, <1>9, <1>10, <1>11, <2>1
<1>13. index < sum[VC_LEVELS]
  <2>1. VC_LEVELS \in 0 .. VC_LEVELS /\ s + 1 \in 0 .. VC_LEVELS
    BY <1>0 DEF Stages
  <2>2. c =< sum[VC_LEVELS] /\ sum[VC_LEVELS] \in Nat
    BY <1>10, <2>1, SumsGrow DEF sum
  <2> QED BY <1>12, <2>2
<1>14. ASSUME NEW t \in Stages, sum[t] =< index, index < sum[t + 1] PROVE t = s
  <2>1. t \in Nat /\ s \in Nat /\ t \in 0 .. VC_LEVELS /\ t + 1 \in 0 .. VC_LEVELS
        /\ s \in 0 .. VC_LEVELS /\ s + 1 \in 0 .. VC_LEVELS
    BY <1>0 DEF Stages
  <2>2. sum[t] \in Nat /\ sum[t + 1] \in Nat
    BY <2>1, SumsGrow DEF sum
  <2>3. CASE t < s
    <3>1. t + 1 \in 0 .. s
      BY <2>1, <2>3
    <3>2. sum[t + 1] =< sum[s]
      BY <2>1, <3>1, SumsGrow DEF sum
    <3> QED BY <1>9, <1>12, <1>14, <2>2, <3>2
  <2>4. CASE s < t
    <3>1. s + 1 \in 0 .. t
      BY <2>1, <2>4
    <3>2. sum[s + 1] =< sum[t]
      BY <2>1, <3>1, SumsGrow DEF sum
    <3> QED BY <1>10, <1>12, <1>14, <2>2, <3>2
  <2> QED BY <2>1, <2>3, <2>4
<1> DEFINE found == CHOOSE t \in Stages : sum[t] =< index /\ index < sum[t + 1]
<1>15. found = s
  BY <1>9, <1>10, <1>12, <1>14
<1>16. VCTrieIndexToAddress(index) = <<<<s, o \div B>>, (o % B) + 1>>
  <2>1. VCTrieIndexToAddress(index) =
          <<<<found, (index - sum[found]) \div BIN_SIZES[found]>>,
            ((index - sum[found]) % BIN_SIZES[found]) + 1>>
    BY DEF VCTrieIndexToAddress, sum
  <2> HIDE DEF found
  <2> QED BY <1>3, <1>9, <1>12, <1>15, <2>1
<1>17. VCTrieIndexToAddress(index) = <<n, i>>
  BY <1>2, <1>5, <1>8, <1>16
<1> QED BY <1>12, <1>13, <1>17 DEF index, sum

\* Two entries have two indexes.
LEMMA PlaceIndexOnce ==
  ASSUME NEW n \in Nodes, NEW i \in Slots(n[1]), NEW m \in Nodes, NEW j \in Slots(m[1]),
         VCTrieAddressToIndex(<<n, i>>) = VCTrieAddressToIndex(<<m, j>>)
  PROVE  n = m /\ i = j
<1>1. <<n, i>> = <<m, j>>
  BY PlaceIndex
<1> QED BY <1>1

\* Two words of the binary trie have two indexes, above those of all entries.
LEMMA NodeIndex ==
  ASSUME NEW k \in Nat, NEW a \in 0 .. CAP - 1
  PROVE  /\ BTrieAddressToIndex(<<k, a>>) \in Nat
         /\ NodeSizePrefixSums[VC_LEVELS] =< BTrieAddressToIndex(<<k, a>>)
         /\ \A h \in Nat : \A c \in 0 .. CAP - 1 :
              BTrieAddressToIndex(<<k, a>>) = BTrieAddressToIndex(<<h, c>>) => k = h /\ a = c
<1>1. PICK S : S = NodeSizePrefixSums[VC_LEVELS] /\ S \in Nat
  BY VcShapeAssumption, SumsGrow
<1>2. CAP \in Nat
  BY ShapeAssumption
<1>3. \A h \in Nat : \A c \in 0 .. CAP - 1 :
        /\ BTrieAddressToIndex(<<h, c>>) = h * CAP + c + S
        /\ h * CAP + c \in Nat /\ (h * CAP + c) \div CAP = h /\ (h * CAP + c) % CAP = c
  BY <1>1, <1>2, Spread DEF BTrieAddressToIndex
<1>4. ASSUME NEW h \in Nat, NEW c \in 0 .. CAP - 1,
             BTrieAddressToIndex(<<k, a>>) = BTrieAddressToIndex(<<h, c>>)
      PROVE  k = h /\ a = c
  <2>1. PICK x : x = k * CAP + a /\ x \in Nat /\ x \div CAP = k /\ x % CAP = a
                 /\ BTrieAddressToIndex(<<k, a>>) = x + S
    BY <1>3
  <2>2. PICK y : y = h * CAP + c /\ y \in Nat /\ y \div CAP = h /\ y % CAP = c
                 /\ BTrieAddressToIndex(<<h, c>>) = y + S
    BY <1>3
  <2>3. x \in Nat /\ y \in Nat /\ x + S = y + S
    BY <1>4, <2>1, <2>2
  <2>4. x = y
    BY <1>1, <2>3
  <2> QED BY <2>1, <2>2, <2>4
<1>5. PICK x : x = k * CAP + a /\ x \in Nat /\ BTrieAddressToIndex(<<k, a>>) = x + S
  BY <1>3
<1>6. BTrieAddressToIndex(<<k, a>>) \in Nat /\ S =< BTrieAddressToIndex(<<k, a>>)
  BY <1>1, <1>5
<1> QED BY <1>1, <1>4, <1>6

LEMMA RowBelow ==
  ASSUME NEW B \in Nat \ {0}, NEW e \in Nat, NEW D \in Nat, e \div B < D PROVE e < D * B
OBVIOUS

\* A prefix whose nodes are in a RAM the hardware has is one the map keeps.
LEMMA LevelKept ==
  ASSUME NEW p \in Prefixes
  PROVE  LevelOf(Len(p)) \in Nat /\ (LevelOf(Len(p)) < BT_LEVELS => p \in Kept)
<1>1. PICK d : d = Len(p) /\ d \in Nat \ {0}
  BY DepthOfPrefix
<1>2. PICK l : l = LevelOf(d) /\ l \in Nat
  BY <1>1, LevelNat
<1>3. ASSUME l < BT_LEVELS PROVE d =< BT_LEVELS * STRIDE
  <2>1. d - 1 \in Nat /\ l = (d - 1) \div STRIDE
    BY <1>1, <1>2 DEF LevelOf
  <2>2. d - 1 < BT_LEVELS * STRIDE
    BY <1>3, <2>1, RowBelow, ShapeAssumption
  <2>3. PICK z : z = BT_LEVELS * STRIDE /\ z \in Nat
    BY ShapeAssumption
  <2> QED BY <1>1, <2>2, <2>3
<1> QED BY <1>1, <1>2, <1>3 DEF Kept

\* Whatever a walk finds is a word of the RAM of its depth.
LEMMA NodesAny ==
  ASSUME BTrieTypeOK, NEW p \in Seq(Bit), p # <<>>, NEW a \in NodeOf(p)
  PROVE  \E c \in 0 .. CAP - 1 : a = <<LevelOf(Len(p)), c>>
<1>1. Len(p) \in Nat \ {0} /\ p[1] \in Bit /\ p[Len(p)] \in Bit
  OBVIOUS
<1>2. PICK f : IsWalk(f, p, Len(p)) /\ NodeOf(p) = f[Len(p)]
  BY <1>1, NodeOfIs
<1>3. a \in Deeper(f, p, Len(p))
  BY <1>1, <1>2 DEF IsWalk
<1>4. CASE Len(p) = 1
  <2>1. a = <<0, EntryPoint(p[1])>> /\ LevelOf(Len(p)) = 0
    BY <1>3, <1>4, LevelFirst DEF Deeper
  <2>2. EntryPoint(p[1]) \in 0 .. CAP - 1
    BY <1>1, ShapeAssumption DEF EntryPoint, Bit
  <2> QED BY <2>1, <2>2
<1>5. CASE Len(p) # 1
  <2>1. PICK up : a = <<LevelOf(Len(p)), Child(WordAt(up), p[Len(p)])>>
    BY <1>3, <1>5 DEF Deeper
  <2>2. Child(WordAt(up), p[Len(p)]) \in 0 .. CAP - 1
    BY <1>1, WordAtType, ChildType
  <2> QED BY <2>1, <2>2
<1> QED BY <1>4, <1>5

\* A route of the binary trie is in a node of its own.
LEMMA RouteNode ==
  ASSUME Inv, NEW p \in Prefixes, BTrieRoute(p) # None
  PROVE  p \in Kept /\ NodeOf(p) # {}
<1>1. PICK a : a \in NodeOf(p) /\ WordAt(a).valid
  BY DEF BTrieRoute
<1>2. PICK c \in 0 .. CAP - 1 : a = <<LevelOf(Len(p)), c>>
  BY <1>1, PrefixType, NodesAny DEF Inv
<1>3. a \in Addrs
  BY <1>1 DEF WordAt, Empty
<1>4. LevelOf(Len(p)) < BT_LEVELS
  BY <1>2, <1>3, LevelKept, ShapeAssumption DEF Addrs
<1> QED BY <1>1, <1>4, LevelKept

\* The index of what is found, in either trie.
LEMMA IndexHere ==
  ASSUME VcTypeOK, NEW own, VcFits(own), vc.pc = "idle", NEW p \in Prefixes, InVcTrie(p)
  PROVE  \E n, i : /\ Routed(own, p, n, i) /\ n \in Nodes /\ i \in Slots(n[1])
                   /\ VCTrieLookup(p) = <<n, i>>
                   /\ TrieIndex(p) = VCTrieAddressToIndex(<<n, i>>)
<1>1. PICK n, i : VCTrieLookup(p) = <<n, i>> /\ Routed(own, p, n, i)
  BY FoundRouted
<1>2. n \in Nodes /\ i \in Slots(n[1])
  BY <1>1, LiveType DEF VcFits, Routed, Claim
<1> QED BY <1>1, <1>2 DEF TrieIndex

LEMMA IndexThere ==
  ASSUME BTrieTypeOK, NEW p \in Prefixes, ~InVcTrie(p), NodeOf(p) # {}
  PROVE  \E a \in NodeOf(p) : \E c \in 0 .. CAP - 1 :
           /\ a = <<LevelOf(Len(p)), c>> /\ LevelOf(Len(p)) \in Nat
           /\ TrieIndex(p) = BTrieAddressToIndex(a)
<1>1. PICK a : a = (CHOOSE n \in NodeOf(p) : TRUE) /\ a \in NodeOf(p)
  OBVIOUS
<1>2. TrieIndex(p) = BTrieAddressToIndex(a)
  BY <1>1 DEF TrieIndex
<1>3. p \in Seq(Bit) /\ p # <<>>
  BY PrefixType
<1> QED BY <1>1, <1>2, <1>3, NodesAny, LevelKept

\* No route shares its index.
LEMMA IndexOnce ==
  ASSUME Inv, VcTypeOK, NEW own, VcFits(own), vc.pc = "idle",
         NEW p \in Prefixes, NEW q \in Prefixes, Route(p) # None, TrieLookup(q),
         TrieIndex(p) = TrieIndex(q)
  PROVE  p = q
<1>1. CASE InVcTrie(p) /\ InVcTrie(q)
  <2>1. PICK n, i : /\ Routed(own, p, n, i) /\ n \in Nodes /\ i \in Slots(n[1])
                    /\ VCTrieLookup(p) = <<n, i>>
                    /\ TrieIndex(p) = VCTrieAddressToIndex(<<n, i>>)
    BY <1>1, IndexHere
  <2>2. PICK m, j : /\ Routed(own, q, m, j) /\ m \in Nodes /\ j \in Slots(m[1])
                    /\ VCTrieLookup(q) = <<m, j>>
                    /\ TrieIndex(q) = VCTrieAddressToIndex(<<m, j>>)
    BY <1>1, IndexHere
  <2>3. n = m /\ i = j
    BY <2>1, <2>2, PlaceIndexOnce
  <2> QED BY <2>1, <2>2, <2>3, ClaimOnce DEF VcFits, Routed
<1>2. ASSUME NEW r \in Prefixes, InVcTrie(r)
      PROVE  TrieIndex(r) \in Nat /\ TrieIndex(r) < NodeSizePrefixSums[VC_LEVELS]
  BY <1>2, IndexHere, PlaceIndex
<1>3. ASSUME NEW r \in Prefixes, ~InVcTrie(r), NodeOf(r) # {}
      PROVE  TrieIndex(r) \in Nat /\ NodeSizePrefixSums[VC_LEVELS] =< TrieIndex(r)
  <2>1. PICK a \in NodeOf(r), c \in 0 .. CAP - 1 :
          /\ a = <<LevelOf(Len(r)), c>> /\ LevelOf(Len(r)) \in Nat
          /\ TrieIndex(r) = BTrieAddressToIndex(a)
    BY <1>3, IndexThere DEF Inv
  <2> QED BY <2>1, NodeIndex
<1>4. NodeSizePrefixSums[VC_LEVELS] \in Nat
  BY VcShapeAssumption, SumsGrow
<1>5. ~InVcTrie(p) => BTrieRoute(p) # None /\ p \in Kept /\ NodeOf(p) # {}
  BY RouteNode DEF Route, InVcTrie
<1>6. ~InVcTrie(q) => NodeOf(q) # {}
  BY DEF TrieLookup, BTrieLookup
<1>7. CASE InVcTrie(p) /\ ~InVcTrie(q)
  BY <1>2, <1>3, <1>4, <1>6, <1>7
<1>8. CASE ~InVcTrie(p) /\ InVcTrie(q)
  BY <1>2, <1>3, <1>4, <1>5, <1>8
<1>9. CASE ~InVcTrie(p) /\ ~InVcTrie(q)
  <2>1. PICK a \in NodeOf(p), c \in 0 .. CAP - 1 :
          /\ a = <<LevelOf(Len(p)), c>> /\ LevelOf(Len(p)) \in Nat
          /\ TrieIndex(p) = BTrieAddressToIndex(a)
    BY <1>5, <1>9, IndexThere DEF Inv
  <2>2. PICK b \in NodeOf(q), e \in 0 .. CAP - 1 :
          /\ b = <<LevelOf(Len(q)), e>> /\ LevelOf(Len(q)) \in Nat
          /\ TrieIndex(q) = BTrieAddressToIndex(b)
    BY <1>6, <1>9, IndexThere DEF Inv
  <2>3. LevelOf(Len(p)) = LevelOf(Len(q)) /\ c = e
    BY <2>1, <2>2, NodeIndex
  <2>4. a = b
    BY <2>1, <2>2, <2>3
  <2>5. a \in Owned /\ owner[a] = p
    BY <1>5, <1>9, <2>1, NodesFound
  <2>6. LevelOf(Len(q)) < BT_LEVELS
    BY <2>2, <2>4, <2>5, ShapeAssumption DEF Owned, Addrs
  <2>7. owner[b] = q
    BY <2>2, <2>6, LevelKept, NodesFound
  <2> QED BY <2>4, <2>5, <2>7
<1> QED BY <1>1, <1>7, <1>8, <1>9

LEMMA IndexesNow ==
  ASSUME Inv, TriesInv, BothInv
  PROVE  IndexesDistinct
<1> SUFFICES ASSUME Ready, ~warm
             PROVE  /\ \A p, q \in Prefixes :
                         p # q /\ Route(p) # None /\ TrieLookup(q)
                           => TrieIndex(p) # TrieIndex(q)
                    /\ \A p \in Prefixes : InVcTrie(p) =>
                         VCTrieIndexToAddress(TrieIndex(p)) = VCTrieLookup(p)
  BY DEF IndexesDistinct
<1>1. PICK own : Sound(own)
  BY DEF BothInv
<1>2. VcTypeOK /\ VcFits(own) /\ vc.pc = "idle"
  BY <1>1 DEF TriesInv, Sound, Ready
<1>3. \A p, q \in Prefixes :
        p # q /\ Route(p) # None /\ TrieLookup(q) => TrieIndex(p) # TrieIndex(q)
  BY <1>2, IndexOnce
<1>4. ASSUME NEW p \in Prefixes, InVcTrie(p)
      PROVE  VCTrieIndexToAddress(TrieIndex(p)) = VCTrieLookup(p)
  BY <1>2, <1>4, IndexHere, PlaceIndex
<1> QED BY <1>3, <1>4

\* Until a reset no two routes are filed under one index in rte_map, in
\* whichever trie each of them is, none under that of a node or entry some other
\* prefix finds, and the firmware gets an entry of the variable-stride trie back
\* from its index (tries.c:29-46, vc_trie.cpp:35-71, binary_trie.c:43).
THEOREM TriesIndexed == Spec => []IndexesDistinct
<1>1. Spec => []Inv
  BY TriesImplementBTrie, InitInv, StepInv, PTL DEF BTrieSpec
<1>2. TriesInv /\ Inv /\ [Next]_vars => TriesInv'
  <2> SUFFICES ASSUME TriesInv, Inv, [Next]_vars PROVE TriesInv'
    OBVIOUS
  <2> QED BY VcCallInv, VcTypesStep, FiledStep DEF TriesInv
<1>3. Inv /\ PendingInv /\ [Next]_vars => PendingInv'
  BY PendingStep
<1>4. Inv /\ Inv' /\ TriesInv /\ TriesInv' /\ PendingInv /\ BothInv /\ [Next]_vars => BothInv'
  BY BothStep
<1>5. Inv /\ TriesInv /\ BothInv => IndexesDistinct
  BY IndexesNow
<1> QED BY <1>1, <1>2, <1>3, <1>4, <1>5, BothInit, TriesInitInv, PendingInit, PTL DEF Spec

-----------------------------------------------------------------------------
(* The datapath's lookup: what it matches are routes. *)

\* The binary trie holds routes of prefixes that were inserted only.
StoredKnown == \A p, h : Stored(p, h) => p \in Prefixes

LEMMA KnownFirst == Init => StoredKnown
BY DEF Init, BTrieInit, StoredKnown, Stored, Owned, Empty

LEMMA KnownAfterReset == BTrieInitBram => StoredKnown'
<1> SUFFICES ASSUME BTrieInitBram, NEW a \in Addrs, owner'[a] # <<>>, bram'[a].valid
             PROVE  FALSE
  BY DEF StoredKnown, Stored, Owned
<1>1. ClearedOnReset(a)
  BY DEF BTrieInitBram, OnlyEntryPoints, ClearedOnReset, IsEntryPoint
<1> QED BY <1>1 DEF BTrieInitBram, Empty

LEMMA KnownStep ==
  ASSUME Inv, PendingInv, VcInv, StoredKnown, [Next]_vars
  PROVE  StoredKnown'
<1>1. ASSUME \A p, h : Stored(p, h)' => Stored(p, h) PROVE StoredKnown'
  BY <1>1 DEF StoredKnown
<1>2. ASSUME bram' = bram, owner' = owner PROVE StoredKnown'
  BY <1>1, <1>2, StoredSame
<1>3. CASE BTrieStep
  <2>1. CASE BTrieNew \/ BTrieLink \/ BTrieUnlink
    BY <1>1, <2>1, StoredNew, StoredLink, StoredUnlink
  <2>2. CASE BTrieWalk \/ BTrieNotFound
    BY <1>2, <2>2 DEF BTrieWalk, BTrieNotFound
  <2>3. ASSUME bt.pc \in {"insert", "delete"}, bt.len = bt.goal, owner' = owner,
               NEW w, Write(bt.at, w), w.valid => bt.pc = "insert"
        PROVE  StoredKnown'
    <3> SUFFICES ASSUME NEW a \in Addrs, owner'[a] # <<>>, bram'[a].valid
                 PROVE  owner'[a] \in Prefixes
      BY DEF StoredKnown, Stored, Owned
    <3>1. a # bt.at => bram'[a] = bram[a]
      BY <2>3 DEF Write, Inv, BTrieTypeOK
    <3>2. CASE a # bt.at
      BY <2>3, <3>1, <3>2 DEF StoredKnown, Stored, Owned
    <3>3. CASE a = bt.at
      <4>1. owner[a] = bt.prefix
        BY <2>3, <3>3, AtNode
      <4>2. bt.prefix \in Prefixes
        BY <2>3, CallFacts
      <4> QED BY <2>3, <4>1, <4>2
    <3> QED BY <3>2, <3>3
  <2>4. CASE BTrieStore
    <3>1. PICK w : Write(bt.at, w)
      BY <2>4 DEF BTrieStore
    <3>2. bt.pc = "insert" /\ bt.len = bt.goal /\ owner' = owner
      BY <2>4, CallFacts DEF BTrieStore
    <3> QED BY <2>3, <3>1, <3>2
  <2>5. CASE BTrieClear
    <3>1. PICK w : w = [WordAt(bt.at) EXCEPT !.valid = FALSE, !.next_hop = 0] /\ Write(bt.at, w)
      BY <2>5 DEF BTrieClear
    <3>2. w.valid = FALSE
      BY <3>1, WordAtType DEF Inv, Word
    <3>3. bt.pc = "delete" /\ bt.len = bt.goal /\ owner' = owner
      BY <2>5 DEF BTrieClear
    <3> QED BY <2>3, <3>1, <3>2, <3>3
  <2> QED BY <1>3, <2>1, <2>2, <2>4, <2>5 DEF BTrieStep
<1>4. CASE TrieInit
  BY <1>4, KnownAfterReset DEF TrieInit
<1>5. CASE \E p \in Prefixes : TrieDelete(p) \/ \E h \in Hops : TrieInsert(p, h) \/ TrieModify(p, h)
  BY <1>2, <1>5 DEF TrieDelete, TrieInsert, TrieModify, BTrieDelete, BTrieInsert, btVars
<1>6. CASE TrieAsk \/ TrieInsertExcessive \/ UNCHANGED vars \/ UNCHANGED btVars
  BY <1>2, <1>6 DEF TrieAsk, TrieInsertExcessive, BTrieInsert, vars, btVars
<1> QED BY <1>3, <1>4, <1>5, <1>6 DEF Next

\* A route a walk finds is in the node of its path.
LEMMA RouteStored ==
  ASSUME Inv, NEW p \in Seq(Bit), p # <<>>, BTrieRoute(p) # None
  PROVE  Stored(p, BTrieRoute(p))
<1> DEFINE hops == {WordAt(n).next_hop : n \in {n \in NodeOf(p) : WordAt(n).valid}}
<1>1. BTrieRoute(p) \in hops
  <2>1. BTrieRoute(p) = IF hops = {} THEN None ELSE CHOOSE h \in hops : TRUE
    BY DEF BTrieRoute
  <2> HIDE DEF hops
  <2> QED BY <2>1
<1>2. PICK n \in NodeOf(p) : WordAt(n).valid /\ BTrieRoute(p) = WordAt(n).next_hop
  BY <1>1
<1>3. n \in Addrs /\ WordAt(n) = bram[n]
  BY <1>2 DEF WordAt, Empty
<1>4. Len(p) \in Nat \ {0}
  OBVIOUS
<1>5. n[1] = LevelOf(Len(p))
  BY NodesAny DEF Inv
<1>6. LevelOf(Len(p)) \in 0 .. BT_LEVELS - 1
  BY <1>3, <1>5 DEF Addrs
<1>7. ASSUME NEW d \in 1 .. Len(p) PROVE LevelOf(d) \in 0 .. BT_LEVELS - 1
  <2>1. d \in Nat \ {0} /\ d =< Len(p)
    BY <1>4
  <2>2. LevelOf(d) =< LevelOf(Len(p)) /\ LevelOf(d) \in Nat
    BY <1>4, <2>1, LevelNext, LevelNat
  <2> QED BY <1>6, <2>2, ShapeAssumption
<1>8. n \in Owned /\ owner[n] = p
  BY <1>2, <1>4, <1>7, NodesOwn
<1> QED BY <1>2, <1>3, <1>8 DEF Stored

LEMMA MatchKnown ==
  ASSUME Inv, StoredKnown, NEW p \in Seq(Bit), p # <<>>, BTrieRoute(p) # None
  PROVE  p \in Kept
BY RouteStored, RouteNode DEF StoredKnown

\* Every entry in use stands for a prefix that was inserted.
NamedBy(own) ==
  \A n \in Live : \A i \in Slots(n[1]) :
    InUse(EntryIn(n, i)) /\ ~Half(n, i) => \E p \in Prefixes : Claim(own, p, n, i)
NamedInv == ~warm => \E own : Tree(own) /\ NamedBy(own)

\* A tree knows one path of a node.
LEMMA OwnOnce ==
  ASSUME VcTypeOK, NEW own, Tree(own), NEW o, Tree(o), NEW n \in Live
  PROVE  own[n] = o[n]
<1> DEFINE p == own[n]
           k == Len(p)
<1>1. p \in Seq(Bit) /\ k \in Nat \ {0} /\ k \in 0 .. k
  BY DEF Tree, PathsTyped
<1>2. Path(p)[k] = NodesAt(own, p, k) /\ Path(p)[k] = NodesAt(o, p, k)
  BY <1>1, PathFound
<1>3. Cut(p, k) = p
  BY <1>1, CutFull
<1>4. n \in NodesAt(own, p, k)
  BY <1>1, <1>3 DEF NodesAt
<1> HIDE DEF p, k
<1>5. n \in NodesAt(o, p, k)
  BY <1>2, <1>4
<1>6. o[n] = p
  BY <1>1, <1>3, <1>5 DEF NodesAt
<1> QED BY <1>6 DEF p

LEMMA NamedOther ==
  ASSUME VcTypeOK, NEW own, Tree(own), NEW o, Tree(o), NamedBy(o) PROVE NamedBy(own)
<1> SUFFICES ASSUME NEW n \in Live, NEW i \in Slots(n[1]), InUse(EntryIn(n, i)), ~Half(n, i)
             PROVE  \E p \in Prefixes : Claim(own, p, n, i)
  BY DEF NamedBy
<1>1. PICK p \in Prefixes : Claim(o, p, n, i)
  BY DEF NamedBy
<1>2. own[n] = o[n]
  BY OwnOnce
<1>3. Claim(own, p, n, i)
  BY <1>1, <1>2 DEF Claim
<1> QED BY <1>3

\* Steps that write no entry.
LEMMA NamedStays ==
  ASSUME NEW own, Tree(own), NamedBy(own), vcbram' = vcbram, node_num' = node_num,
         vc' = vc \/ vc.pc \notin HalfPcs
  PROVE  Tree(own)' /\ NamedBy(own)'
<1>1. Live' = Live /\ Tree(own)' /\ \A n, i : EntryIn(n, i)' = EntryIn(n, i)
  BY TreeStays
<1>2. ASSUME NEW n \in Live, NEW i \in Slots(n[1]), InUse(EntryIn(n, i))', ~Half(n, i)'
      PROVE  \E p \in Prefixes : Claim(own, p, n, i)'
  <2>1. InUse(EntryIn(n, i))
    BY <1>1, <1>2 DEF InUse
  <2>2. ~Half(n, i)
    BY <1>2 DEF Half
  <2>3. PICK p \in Prefixes : Claim(own, p, n, i)
    BY <2>1, <2>2 DEF NamedBy
  <2>4. Claim(own, p, n, i)'
    BY <1>1, <2>3, ClaimSame
  <2> QED BY <2>4
<1>3. NamedBy(own)'
  BY <1>1, <1>2 DEF NamedBy
<1> QED BY <1>1, <1>3

\* Steps that write one: if it is in use afterwards it stands for a prefix.
LEMMA NamedWrite ==
  ASSUME NEW own, Tree(own), NamedBy(own), NEW a, NEW s,
         Live' = Live, Tree(own)',
         \A n \in Nodes : \A i \in Slots(n[1]) :
           n # a \/ i # s => EntryIn(n, i)' = EntryIn(n, i) /\ ~Half(n, i),
         ~InUse(EntryIn(a, s))' \/ Half(a, s)' \/ \E p \in Prefixes : Claim(own, p, a, s)'
  PROVE  NamedBy(own)'
<1> SUFFICES ASSUME NEW n \in Live, NEW i \in Slots(n[1]), InUse(EntryIn(n, i))', ~Half(n, i)'
             PROVE  \E p \in Prefixes : Claim(own, p, n, i)'
  BY DEF NamedBy
<1>1. CASE n = a /\ i = s
  BY <1>1
<1>2. CASE n # a \/ i # s
  <2>1. EntryIn(n, i)' = EntryIn(n, i) /\ ~Half(n, i)
    BY <1>2, LiveType
  <2>2. InUse(EntryIn(n, i))
    BY <2>1 DEF InUse
  <2>3. PICK p \in Prefixes : Claim(own, p, n, i)
    BY <2>1, <2>2 DEF NamedBy
  <2>4. Claim(own, p, n, i)'
    BY <2>1, <2>3, ClaimSame
  <2> QED BY <2>4
<1> QED BY <1>1, <1>2

\* The steps in an entry that the call has chosen before.
LEMMA NamedInPlace ==
  ASSUME TriesInv, NEW own, VcFits(own), NamedBy(own), vc.pc \in InPlace,
         NEW e, SetEntry(e), node_num' = node_num,
         \A a, s, p, d : WritesEntry(own, a, s, e, p, d) =>
           ~InUse(e) \/ Half(a, s)' \/ \E q \in Prefixes : Claim(own, q, a, s)'
  PROVE  Tree(own)' /\ NamedBy(own)'
<1>1. vc.prefix \in Prefixes
  BY DEF TriesInv, VcInv, PassedOn, VcFits, CallStands, Stands, InPlace
<1>2. PICK a, s, p, d : WritesEntry(own, a, s, e, p, d)
  BY <1>1, WriteFacts
<1>3. /\ a = vc.at /\ s = vc.slot /\ Live' = Live /\ Tree(own)' /\ EntryIn(a, s)' = e
      /\ \A n \in Nodes : \A i \in Slots(n[1]) : n # a \/ i # s => EntryIn(n, i)' = EntryIn(n, i)
  BY <1>2 DEF WritesEntry
<1>4. \A n, i : n # a \/ i # s => ~Half(n, i)
  BY <1>3 DEF Half
<1>5. ~InUse(EntryIn(a, s))' \/ Half(a, s)' \/ \E q \in Prefixes : Claim(own, q, a, s)'
  BY <1>2, <1>3 DEF InUse
<1> QED BY <1>3, <1>4, <1>5, NamedWrite DEF VcFits

LEMMA NamedPlaceLength ==
  ASSUME TriesInv, NEW own, VcFits(own), NamedBy(own), VcPlaceLength
  PROVE  Tree(own)' /\ NamedBy(own)'
<1>1. PICK i : i = CHOOSE k \in FreeSlots : \A j \in FreeSlots : k =< j
  OBVIOUS
<1>2. /\ vc.pc = "insert" /\ ~MustDescend /\ vc.depth =< Len(vc.prefix)
      /\ vcbram' = [vcbram EXCEPT ![vc.at].bin[i].length = Len(vc.prefix) - vc.depth]
      /\ vc' = [vc EXCEPT !.pc = "prefix", !.slot = i] /\ node_num' = node_num
  BY <1>1 DEF VcPlaceLength
<1>3. i \in FreeSlots
  <2>1. FreeSlots # {}
    BY <1>2 DEF MustDescend
  <2>2. \A j \in FreeSlots : j \in Nat
    BY BinSlots DEF TriesInv, FreeSlots
  <2>3. PICK k \in FreeSlots : \A j \in FreeSlots : k =< j
    <3> HIDE DEF FreeSlots
    <3>1. FreeSlots \subseteq Nat
      BY <2>2
    <3> QED BY <2>1, <3>1, LeastNat
  <2> HIDE DEF FreeSlots
  <2> QED BY <1>1, <2>3
<1>4. PICK a : a = vc.at
  OBVIOUS
<1>5. a \in Live /\ a \in Nodes /\ i \in Slots(a[1])
  <2>1. a \in Nodes /\ a # Root /\ i \in Slots(a[1])
    BY <1>3, <1>4, BinSlots DEF FreeSlots, TriesInv
  <2> QED BY <1>2, <1>4, <2>1, NodeHere
<1>6. VcTypeOK /\ Tree(own) /\ CallFields
  BY DEF TriesInv, VcFits, VcInv
<1>7. PICK e : vcbram' = [vcbram EXCEPT ![a].bin[i] = e]
  <2>1. \A l : [vcbram EXCEPT ![a].bin[i].length = l]
                = [vcbram EXCEPT ![a].bin[i] = [vcbram[a].bin[i] EXCEPT !.length = l]]
    BY <1>5, <1>6 DEF VcTypeOK
  <2> QED BY <1>2, <1>4, <2>1
<1>8. /\ Live' = Live /\ Tree(own)'
      /\ \A n \in Nodes : \A j \in Slots(n[1]) :
           n # a \/ j # i => EntryIn(n, j)' = EntryIn(n, j)
  <2>1. node_num' = node_num
    BY <1>2
  <2>2. /\ Live' = Live /\ Tree(own)' /\ EntryIn(a, i)' = e
        /\ \A n \in Nodes : \A j \in Slots(n[1]) :
             n # a \/ j # i => EntryIn(n, j)' = EntryIn(n, j)
    BY <1>5, <1>6, <1>7, <2>1, Written
  <2> QED BY <2>2
<1>9. \A n, j : ~Half(n, j)
  BY <1>2 DEF Half, HalfPcs
<1>10. Half(a, i)'
  <2>1. vc'.pc = "prefix" /\ vc'.at = a /\ vc'.slot = i
    BY <1>2, <1>4, <1>6, VcFields
  <2> QED BY <2>1 DEF Half, HalfPcs
<1> QED BY <1>6, <1>8, <1>9, <1>10, NamedWrite

LEMMA NamedPlacePrefix ==
  ASSUME TriesInv, NEW own, VcFits(own), NamedBy(own), VcPlacePrefix
  PROVE  Tree(own)' /\ NamedBy(own)'
<1>1. /\ vc.pc = "prefix" /\ vc.pc \in InPlace /\ node_num' = node_num
      /\ vc' = [vc EXCEPT !.pc = "hop"]
  BY DEF VcPlacePrefix, InPlace
<1>2. PICK e : SetEntry(e)
  BY DEF VcPlacePrefix
<1>3. vc'.pc = "hop" /\ vc'.at = vc.at /\ vc'.slot = vc.slot
  BY <1>1, VcFields DEF TriesInv, VcInv
<1>4. Half(vc.at, vc.slot)'
  BY <1>3 DEF Half, HalfPcs
<1>5. \A a, s, p, d : WritesEntry(own, a, s, e, p, d) => Half(a, s)'
  BY <1>3 DEF WritesEntry, Half, HalfPcs
<1> QED BY <1>1, <1>2, <1>5, NamedInPlace

LEMMA NamedPlaceHop ==
  ASSUME TriesInv, NEW own, VcFits(own), NamedBy(own), VcPlaceHop
  PROVE  Tree(own)' /\ NamedBy(own)'
<1>1. /\ vc.pc = "hop" /\ vc.pc \in InPlace /\ vc.prefix \in Prefixes /\ node_num' = node_num
  BY DEF VcPlaceHop, InPlace, TriesInv, VcInv, PassedOn
<1>2. PICK e : /\ e = [EntryIn(vc.at, vc.slot) EXCEPT !.next_hop = vc.hop]
               /\ SetEntry(e)
  BY <1>1, PlaceNow DEF VcPlaceHop
<1>3. ASSUME NEW a, NEW s, NEW p, NEW d, WritesEntry(own, a, s, e, p, d)
      PROVE  Claim(own, p, a, s)' /\ p \in Prefixes
  <2>1. /\ a = vc.at /\ s = vc.slot /\ p = vc.prefix /\ d = vc.depth
        /\ a \in Live /\ s \in Slots(a[1]) /\ EntryIn(a, s) \in Entry
        /\ p \in Seq(Bit) /\ d \in Nat /\ Live' = Live /\ EntryIn(a, s)' = e
    BY <1>3 DEF WritesEntry
  <2>2. /\ d =< Len(p) /\ Len(p) =< d + MAX_PREFIX_LEN /\ a \in NodesAt(own, p, d)
    BY <1>1, <1>3 DEF WritesEntry, Stands
  <2>3. EntryIn(a, s).prefix = Below(p, d)
    BY <1>1, <2>1 DEF VcFits, HalfTrue, Half, HalfPcs
  <2>4. own[a] = Cut(p, d)
    BY <2>1, <2>2, LiveType DEF NodesAt, VcFits
  <2>5. Len(own[a]) = d
    BY <2>1, <2>2, <2>4, CutType
  <2>6. Claim(own, p, a, s)
    BY <2>1, <2>2, <2>3, <2>4, <2>5 DEF Claim
  <2>7. e.prefix = EntryIn(a, s).prefix
    BY <1>2, <2>1 DEF Entry
  <2> QED BY <1>1, <2>1, <2>6, <2>7, ClaimSame
<1> QED BY <1>1, <1>2, <1>3, NamedInPlace

LEMMA NamedModify ==
  ASSUME TriesInv, NEW own, VcFits(own), NamedBy(own), VcModifyHop
  PROVE  Tree(own)' /\ NamedBy(own)'
<1>1. /\ vc.pc = "modify" /\ vc.pc \in InPlace /\ vc.prefix \in Prefixes /\ node_num' = node_num
  BY DEF VcModifyHop, InPlace, TriesInv, VcInv, PassedOn
<1>2. PICK e : /\ e = [EntryIn(vc.at, vc.slot) EXCEPT !.next_hop = vc.hop]
               /\ SetEntry(e)
  BY <1>1, PlaceNow DEF VcModifyHop
<1>3. ASSUME NEW a, NEW s, NEW p, NEW d, WritesEntry(own, a, s, e, p, d)
      PROVE  Claim(own, p, a, s)' /\ p \in Prefixes
  <2>1. /\ a = vc.at /\ s = vc.slot /\ p = vc.prefix
        /\ EntryIn(a, s) \in Entry /\ Live' = Live /\ EntryIn(a, s)' = e
    BY <1>3 DEF WritesEntry
  <2>2. Claim(own, p, a, s)
    BY <1>1, <1>3 DEF WritesEntry, Stands, Routed
  <2>3. e.prefix = EntryIn(a, s).prefix
    BY <1>2, <2>1 DEF Entry
  <2> QED BY <1>1, <2>1, <2>2, <2>3, ClaimSame
<1> QED BY <1>1, <1>2, <1>3, NamedInPlace

LEMMA NamedInvalidate ==
  ASSUME TriesInv, NEW own, VcFits(own), NamedBy(own), VcInvalidateLength \/ VcInvalidateHop
  PROVE  Tree(own)' /\ NamedBy(own)'
<1>1. vc.pc \in InPlace /\ node_num' = node_num
  BY DEF VcInvalidateLength, VcInvalidateHop, InPlace
<1>2. PICK e : /\ \/ e = [EntryIn(vc.at, vc.slot) EXCEPT !.length = INVALID]
                  \/ /\ e = [EntryIn(vc.at, vc.slot) EXCEPT !.next_hop = INVALID]
                     /\ vc.pc = "invalidate hop"
               /\ SetEntry(e)
  BY <1>1, PlaceNow DEF VcInvalidateLength, VcInvalidateHop
<1>3. ASSUME NEW a, NEW s, NEW p, NEW d, WritesEntry(own, a, s, e, p, d) PROVE ~InUse(e)
  <2>1. a = vc.at /\ s = vc.slot /\ EntryIn(a, s) \in Entry
    BY <1>3 DEF WritesEntry
  <2>2. CASE e = [EntryIn(a, s) EXCEPT !.length = INVALID]
    BY <2>1, <2>2 DEF InUse, Entry
  <2>3. CASE e = [EntryIn(a, s) EXCEPT !.next_hop = INVALID]
    BY <2>1, <2>3 DEF InUse, Entry
  <2> QED BY <1>2, <2>1, <2>2, <2>3
<1> QED BY <1>1, <1>2, <1>3, NamedInPlace

LEMMA NamedDescend ==
  ASSUME TriesInv, NEW own, VcFits(own), NamedBy(own), VcDescend
  PROVE  \E o : Tree(o)' /\ NamedBy(o)'
<1>1. vc.pc = "insert" /\ MustDescend /\ Tree(own) /\ VcTypeOK
  BY DEF VcDescend, VcFits, TriesInv
<1>2. CASE vcbram' = vcbram /\ node_num' = node_num
  BY <1>1, <1>2, NamedStays DEF HalfPcs
<1>3. CASE ~(vcbram' = vcbram /\ node_num' = node_num)
  <2>1. PICK a, b, new : /\ a = vc.at /\ b = NextBit
                         /\ new = <<NextStage, node_num[NextStage] + 1>>
    OBVIOUS
  <2>2. /\ ~NoRoom /\ GetChild(a, b) = 0
        /\ node_num' = [node_num EXCEPT ![NextStage] = new[2]]
        /\ vcbram' = IF a \notin Nodes THEN vcbram
                     ELSE IF b = 0 THEN [vcbram EXCEPT ![a].lc = new[2]]
                     ELSE [vcbram EXCEPT ![a].rc = new[2]]
        /\ \E x, c : vc' = [vc EXCEPT !.at = x, !.depth = c]
    BY <1>3, <2>1 DEF VcDescend
  <2>3. PICK o : Grown(own, o, a, b, new)
    BY <1>1, <2>1, <2>2, NewNode
  <2>4. Tree(o)'
    BY <1>1, <2>3, GrownTree
  <2>5. \A n, i : ~Half(n, i)
    BY <1>1 DEF Half, HalfPcs
  <2>6. /\ Live' = Live \cup {new}
        /\ \A n \in Nodes : \A i \in Slots(n[1]) : EntryIn(n, i)' = EntryIn(n, i)
        /\ \A q, n, i : n # new => (Claim(o, q, n, i)' <=> Claim(own, q, n, i))
        /\ \A i \in Slots(new[1]) : Unused(EntryIn(new, i))'
    <3>1. Live' = Live \cup {new}
      BY <2>3 DEF Grown
    <3>2. \A n \in Nodes : \A i \in Slots(n[1]) : EntryIn(n, i)' = EntryIn(n, i)
      BY <1>1, <2>3, GrownEntries
    <3>3. /\ \A q, n, i : n # new => (Claim(o, q, n, i)' <=> Claim(own, q, n, i))
          /\ \A i \in Slots(new[1]) : Unused(EntryIn(new, i))'
      BY <1>1, <2>3, GrownClaims
    <3> QED BY <3>1, <3>2, <3>3
  <2>7. ASSUME NEW n \in Live', NEW i \in Slots(n[1]), InUse(EntryIn(n, i))'
        PROVE  \E p \in Prefixes : Claim(o, p, n, i)'
    <3>1. n # new
      BY <2>6, <2>7 DEF Unused, InUse
    <3>2. n \in Live /\ n \in Nodes
      BY <1>1, <2>6, <3>1, LiveType
    <3>3. InUse(EntryIn(n, i))
      BY <2>6, <2>7, <3>2 DEF InUse
    <3>4. PICK p \in Prefixes : Claim(own, p, n, i)
      BY <2>5, <3>2, <3>3 DEF NamedBy
    <3> QED BY <2>6, <3>1, <3>4
  <2>8. NamedBy(o)'
    BY <2>7 DEF NamedBy
  <2> QED BY <2>4, <2>8
<1> QED BY <1>2, <1>3

LEMMA NamedStep ==
  ASSUME Inv, TriesInv, PendingInv, BothInv, NamedInv, [Next]_vars PROVE NamedInv'
<1> SUFFICES ASSUME ~warm' PROVE \E o : Tree(o)' /\ NamedBy(o)'
  BY DEF NamedInv
<1>1. ~TrieInit /\ ~warm
  <2>1. ~TrieInit
    BY DEF TrieInit
  <2>2. warm' = warm
    BY <2>1 DEF Next, TrieAsk, TrieInsertExcessive, TrieDelete, TrieInsert, TrieModify, vars
  <2> QED BY <2>1, <2>2
<1>2. PICK own : Sound(own)
  BY <1>1 DEF BothInv
<1>3. VcFits(own) /\ Tree(own) /\ VcTypeOK
  BY <1>2 DEF Sound, VcFits, TriesInv
<1>4. NamedBy(own)
  BY <1>1, <1>3, NamedOther DEF NamedInv
<1>5. CASE UNCHANGED vcVars \/ TrieAsk \/ UNCHANGED vars
  BY <1>3, <1>4, <1>5, NamedStays DEF vcVars, TrieAsk, vars
<1>6. CASE \E p \in Prefixes : TrieDelete(p) \/ \E h \in Hops : TrieInsert(p, h) \/ TrieModify(p, h)
  <2>1. vcbram' = vcbram /\ node_num' = node_num /\ vc.pc = "idle"
    BY <1>6 DEF TrieDelete, TrieInsert, TrieModify, Ready, VCTrieInsert, VCEntryModify,
                VCEntryInvalidate, vcVars
  <2> QED BY <1>3, <1>4, <2>1, NamedStays DEF HalfPcs
<1>7. CASE TrieInsertExcessive \/ VcExcessive
  <2>1. vcbram' = vcbram /\ node_num' = node_num /\ vc.pc \in {"excessive", "insert"}
    BY <1>7 DEF TrieInsertExcessive, VcExcessive
  <2> QED BY <1>3, <1>4, <2>1, NamedStays DEF HalfPcs
<1>8. CASE VcStep
  BY <1>3, <1>4, <1>7, <1>8, NamedDescend, NamedPlaceLength, NamedPlacePrefix, NamedPlaceHop,
     NamedModify, NamedInvalidate DEF VcStep
<1> QED BY <1>1, <1>5, <1>6, <1>7, <1>8 DEF Next

LEMMA NamedFirst == Init => NamedInv
<1> SUFFICES ASSUME Init PROVE \E own : Tree(own) /\ NamedBy(own)
  BY DEF NamedInv
<1>1. PICK own : Sound(own)
  BY SoundAtFirst
<1>2. NamedBy(own)
  <2>1. \A n \in Nodes : \A i \in Slots(n[1]) : EntryIn(n, i) = NoEntry
    BY DEF Init, VCTrieInit, EntryIn
  <2> QED BY <2>1 DEF NamedBy, Live, InUse, NoEntry
<1> QED BY <1>1, <1>2 DEF Sound, VcFits

\* The greatest of some numbers.
LEMMA Greatest ==
  ASSUME NEW S, S \subseteq Nat, S # {}, NEW K \in Nat, \A s \in S : s =< K
  PROVE  \E x \in S : \A y \in S : y =< x
<1> DEFINE T == {K - s : s \in S}
<1>1. T \subseteq Nat /\ T # {}
  <2>1. \A s \in S : s \in Nat /\ s =< K
    OBVIOUS
  <2>2. \A s \in S : K - s \in Nat
    BY <2>1
  <2> QED BY <2>2
<1>2. PICK t \in T : \A u \in T : t =< u
  <2> HIDE DEF T
  <2> QED BY <1>1, LeastNat
<1>3. PICK x \in S : t = K - x
  OBVIOUS
<1>4. ASSUME NEW y \in S PROVE y =< x
  <2>1. K - y \in T
    OBVIOUS
  <2>2. t =< K - y /\ x \in Nat /\ y \in Nat
    BY <1>2, <2>1
  <2> QED BY <1>3, <2>2
<1> QED BY <1>4

\* There is a best match, and BestOf is one.
LEMMA BestIs ==
  ASSUME NEW M, \A m \in M : m.len \in Nat /\ m.depth \in Nat \ {0} /\ m.slot \in Nat,
         NEW K \in Nat, \A m \in M : m.len =< K,
         \A m \in M : \E L \in Nat : \A o \in M : o.depth = m.depth => o.slot =< L
  PROVE  /\ BestOf(M) \in M \cup {NoMatch}
         /\ \A o \in M \cup {NoMatch} : Beats(BestOf(M), o)
<1> DEFINE all == M \cup {NoMatch}
<1>1. NoMatch.len = 0 /\ NoMatch.depth = 0 /\ NoMatch.slot = 0 /\ NoMatch \in all
  BY DEF NoMatch
<1>2. \A m \in all : m.len \in Nat /\ m.depth \in Nat /\ m.slot \in Nat /\ m.len =< K
  BY <1>1
<1>3. ASSUME NEW m \in all PROVE \E L \in Nat : \A o \in all : o.depth = m.depth => o.slot =< L
  <2>1. CASE m = NoMatch
    <3>1. \A o \in all : o.depth = m.depth => o.slot =< 0
      BY <1>1, <2>1
    <3> QED BY <3>1
  <2>2. CASE m \in M
    <3>1. PICK L \in Nat : \A o \in M : o.depth = m.depth => o.slot =< L
      BY <2>2
    <3>2. m.depth # NoMatch.depth
      BY <1>1, <2>2
    <3>3. \A o \in all : o.depth = m.depth => o.slot =< L
      BY <3>1, <3>2
    <3> QED BY <3>3
  <2> QED BY <2>1, <2>2
<1> HIDE DEF all
<1>4. PICK x \in all : \A o \in all : o.len =< x.len
  <2> DEFINE S == {m.len : m \in all}
  <2>1. S \subseteq Nat /\ S # {} /\ \A s \in S : s =< K
    BY <1>1, <1>2
  <2>2. PICK s \in S : \A t \in S : t =< s
    <3> HIDE DEF S
    <3> QED BY <2>1, Greatest
  <2> QED BY <2>2
<1>5. PICK y \in all : y.len = x.len /\ \A o \in all : o.len = x.len => y.depth =< o.depth
  <2> DEFINE S == {m.depth : m \in {o \in all : o.len = x.len}}
  <2>1. S \subseteq Nat /\ S # {}
    BY <1>2, <1>4
  <2>2. PICK s \in S : \A t \in S : s =< t
    <3> HIDE DEF S
    <3> QED BY <2>1, LeastNat
  <2> QED BY <2>2
<1>6. PICK z \in all : /\ z.len = x.len /\ z.depth = y.depth
                       /\ \A o \in all : o.len = x.len /\ o.depth = y.depth => o.slot =< z.slot
  <2> DEFINE S == {m.slot : m \in {o \in all : o.len = x.len /\ o.depth = y.depth}}
  <2>1. PICK L \in Nat : \A o \in all : o.depth = y.depth => o.slot =< L
    BY <1>3
  <2>2. S \subseteq Nat /\ S # {} /\ \A s \in S : s =< L
    BY <1>2, <1>5, <2>1
  <2>3. PICK s \in S : \A t \in S : t =< s
    <3> HIDE DEF S
    <3> QED BY <2>2, Greatest
  <2> QED BY <2>3
<1>7. ASSUME NEW o \in all PROVE Beats(z, o)
  <2>1. /\ o.len =< z.len /\ o.len \in Nat /\ z.len \in Nat
        /\ o.depth \in Nat /\ z.depth \in Nat /\ o.slot \in Nat /\ z.slot \in Nat
    BY <1>2, <1>4, <1>6
  <2>2. o.len = z.len => z.depth =< o.depth
    BY <1>5, <1>6
  <2>3. o.len = z.len /\ o.depth = z.depth => z.slot >= o.slot
    BY <1>6, <2>1
  <2> QED BY <2>1, <2>2, <2>3 DEF Beats
<1>8. BestOf(M) = CHOOSE m \in all : \A o \in all : Beats(m, o)
  BY DEF BestOf, all
<1>9. BestOf(M) \in all /\ \A o \in all : Beats(BestOf(M), o)
  BY <1>7, <1>8
<1> QED BY <1>9 DEF all

\* Dividing by the width of a row.
LEMMA RowFloor ==
  ASSUME NEW B \in Nat \ {0}, NEW e \in Nat, NEW q, q = e \div B PROVE q * B =< e
OBVIOUS
LEMMA RowCeil ==
  ASSUME NEW B \in Nat \ {0}, NEW e \in Nat, NEW q, q = e \div B PROVE e < q * B + B
OBVIOUS
LEMMA RowRest ==
  ASSUME NEW B \in Nat \ {0}, NEW e \in Nat, NEW q, q = e \div B,
         NEW r, r = e - q * B, r \in 0 .. B - 1
  PROVE  e % B = r
OBVIOUS
LEMMA RowTypes ==
  ASSUME NEW B \in Nat \ {0}, NEW e \in Nat PROVE e % B \in 0 .. B - 1 /\ e \div B \in Nat
OBVIOUS

LEMMA RowSplit ==
  ASSUME NEW B \in Nat \ {0}, NEW e \in Nat, NEW q, q = e \div B, NEW r, r = e % B
  PROVE  e = q * B + r /\ r \in 0 .. B - 1 /\ q \in Nat
<1>1. q \in Nat /\ r \in 0 .. B - 1
  BY RowTypes
<1>2. PICK z : z = q * B /\ z \in Int
  BY <1>1
<1>3. z =< e /\ e < z + B
  BY <1>2, RowFloor, RowCeil
<1>4. PICK s : s = e - z /\ s \in 0 .. B - 1
  BY <1>2, <1>3
<1>5. r = s
  BY <1>2, <1>4, RowRest
<1> QED BY <1>1, <1>2, <1>4, <1>5

\* The datapath reports a node's depth, except in the last node of a stage.
LEMMA ReportedIs ==
  ASSUME NEW d \in Depths
  PROVE  /\ d \in Nat \ {0} /\ Reported(d) \in Nat /\ Reported(d) =< d
         /\ ~StageEnd(d) => Reported(d) = d
<1>1. d \in Nat \ {0}
  BY DEF Depths
<1>2. PICK B : B = STRIDE /\ B \in Nat \ {0}
  BY ShapeAssumption
<1>3. PICK e : e = d - 1 /\ e \in Nat
  BY <1>1
<1>4. PICK q, r : q = e \div B /\ r = e % B
  OBVIOUS
<1>5. e = q * B + r /\ r \in 0 .. B - 1 /\ q \in Nat
  BY <1>2, <1>3, <1>4, RowSplit
<1>6. StateLevel(d) = r + 1
  BY <1>2, <1>3, <1>4 DEF StateLevel
<1>7. LevelOf(d) = q
  BY <1>2, <1>3, <1>4 DEF LevelOf
<1>8. PICK z : z = q * B /\ z = B * q /\ z \in Nat
  BY <1>2, <1>5
<1>9. Reported(d) = z + (IF StageEnd(d) THEN 0 ELSE r + 1)
  BY <1>2, <1>6, <1>7, <1>8 DEF Reported
<1>10. d = z + r + 1 /\ r \in Nat
  <2>1. e = z + r /\ r \in Nat
    BY <1>2, <1>5, <1>8
  <2> QED BY <1>1, <1>3, <1>8, <2>1
<1> QED BY <1>1, <1>8, <1>9, <1>10

\* An address is longer than any prefix of the variable-stride trie.
LEMMA AddressFacts ==
  ASSUME NEW a \in Destinations
  PROVE  /\ a \in Seq(Bit) /\ Len(a) \in Nat /\ Depths = 1 .. Len(a)
         /\ \A p \in Prefixes : Len(p) \in 1 .. Len(a) - 1
<1>1. a \in Seq(Bit) /\ Len(a) = STRIDE * LEVELS
  BY DestinationsAssumption
<1>2. STRIDE * LEVELS = VC_LEVELS * VC_STRIDE
  BY SameAssumption, ShapeAssumption
<1>3. \A p \in Prefixes : Len(p) \in 1 .. Len(a) - 1
  BY <1>1, <1>2, SameAssumption, VcPrefixesAssumption
<1> QED BY <1>1, <1>3 DEF Depths

\* What a comparator of the datapath sees of an entry of p's, in a node on the
\* path of the address, is whether p covers the address.
LEMMA CoversOnly ==
  ASSUME NEW a \in Destinations, NEW p \in Prefixes, NEW d \in 1 .. Len(p),
         NEW e, e.length = Len(p) - d, e.prefix = Below(p, d), e.length # INVALID,
         Cut(p, d) = Cut(a, d)
  PROVE  HwValid(e, a, d) <=> Cut(a, Len(p)) = p
<1>1. /\ a \in Seq(Bit) /\ Len(a) \in Nat /\ p \in Seq(Bit) /\ Len(p) \in Nat
      /\ Len(p) < Len(a) /\ d \in Nat /\ d =< Len(p)
  BY AddressFacts, PrefixType
<1>2. /\ Len(Below(p, d)) = Len(p) - d
      /\ \A j \in 1 .. Len(p) - d : Below(p, d)[j] = p[d + j]
  <2>1. d \in 0 .. Len(p)
    BY <1>1
  <2> QED BY <1>1, <2>1, BelowType
<1>3. \A j \in 1 .. Len(p) - d : BitOf(e.prefix, j) = p[d + j] /\ BitOf(a, d + j) = a[d + j]
  <2> SUFFICES ASSUME NEW j \in 1 .. Len(p) - d
               PROVE  BitOf(e.prefix, j) = p[d + j] /\ BitOf(a, d + j) = a[d + j]
    OBVIOUS
  <2>1. j =< Len(Below(p, d)) /\ d + j =< Len(a)
    BY <1>1, <1>2
  <2> QED BY <1>2, <2>1 DEF BitOf
<1>4. \A j \in 1 .. d : p[j] = a[j]
  <2>1. d \in 0 .. Len(p) /\ d \in 0 .. Len(a)
    BY <1>1
  <2> QED BY <1>1, <2>1, CutType
<1>5. /\ Cut(a, Len(p)) \in Seq(Bit) /\ Len(Cut(a, Len(p))) = Len(p)
      /\ \A j \in 1 .. Len(p) : Cut(a, Len(p))[j] = a[j]
  <2>1. Len(p) \in 0 .. Len(a)
    BY <1>1
  <2> QED BY <1>1, <2>1, CutType
<1>6. HwValid(e, a, d) <=> \A j \in 1 .. Len(p) - d : p[d + j] = a[d + j]
  BY <1>3 DEF HwValid
<1>7. (\A j \in 1 .. Len(p) - d : p[d + j] = a[d + j]) <=> \A j \in 1 .. Len(p) : p[j] = a[j]
  <2>1. ASSUME \A j \in 1 .. Len(p) - d : p[d + j] = a[d + j], NEW j \in 1 .. Len(p)
        PROVE  p[j] = a[j]
    <3>1. CASE j =< d
      BY <1>1, <1>4, <3>1
    <3>2. CASE j > d
      <4>1. j - d \in 1 .. Len(p) - d /\ d + (j - d) = j
        BY <1>1, <3>2
      <4> QED BY <2>1, <4>1
    <3> QED BY <1>1, <3>1, <3>2
  <2>2. \A j \in 1 .. Len(p) - d : d + j \in 1 .. Len(p)
    BY <1>1
  <2> QED BY <2>1, <2>2
<1>8. (\A j \in 1 .. Len(p) : p[j] = a[j]) <=> Cut(a, Len(p)) = p
  BY <1>1, <1>5
<1> QED BY <1>6, <1>7, <1>8

\* A route that has an entry is what a lookup of the firmware finds.
LEMMA RoutedFound ==
  ASSUME VcTypeOK, NEW own, VcFits(own), NEW p \in Prefixes, NEW n, NEW i, Routed(own, p, n, i)
  PROVE  /\ InVcTrie(p) /\ VCTrieLookup(p) = <<n, i>>
         /\ Route(p) = EntryIn(n, i).next_hop /\ Route(p) # None
<1>0. Tree(own)
  BY DEF VcFits
<1>1. <<Len(own[n]), n, i>> \in Matches(p)
  BY <1>0, LengthInUse, MatchesAre DEF Routed
<1>2. InVcTrie(p)
  <2>1. Matches(p) # {}
    BY <1>1
  <2> QED BY <2>1 DEF InVcTrie, VCTrieLookup
<1>3. VCTrieLookup(p) = <<n, i>>
  BY <1>2, FoundInUse
<1>4. Route(p) = EntryIn(n, i).next_hop
  <2>1. VcStored(own, p, EntryIn(n, i).next_hop)
    BY DEF VcStored
  <2> QED BY <2>1, VcRoutesFound DEF VcRoutesTrue
<1>5. EntryIn(n, i).next_hop \in Hops
  BY <1>0, LengthInUse, SameAssumption
<1> QED BY <1>2, <1>3, <1>4, <1>5, NoneAssumption

\* Only what is being written is found and yet no route.
LEMMA NotFoundWhole ==
  ASSUME VcTypeOK, NEW own, VcFits(own), NEW p \in Prefixes, Unrouted(own, p), ~HalfWritten
  PROVE  ~InVcTrie(p)
<1> SUFFICES ASSUME InVcTrie(p) PROVE FALSE
  OBVIOUS
<1>0. Tree(own)
  BY DEF VcFits
<1>1. PICK n, i : VCTrieLookup(p) = <<n, i>> /\ Claim(own, p, n, i) /\ Half(n, i)
  BY FoundInUse DEF Unrouted
<1>2. EntryIn(n, i).length = INVALID
  BY <1>1 DEF VcFits, HalfTrue, Half, HalfPcs, HalfWritten
<1>3. PICK x \in Matches(p) : VCTrieLookup(p) = <<x[2], x[3]>>
  BY LookupFirst DEF FirstMatch
<1>4. x[2] = n /\ x[3] = i
  BY <1>1, <1>3
<1>5. EntryIn(n, i).length = Len(p) - Len(own[n])
  <2>1. PICK m, j : x = <<Len(own[m]), m, j>> /\ EntryIn(m, j).length = Len(p) - Len(own[m])
    BY <1>0, <1>3, MatchesAre
  <2>2. m = n /\ j = i
    BY <1>4, <2>1
  <2> QED BY <2>1, <2>2
<1>6. /\ Len(own[n]) \in Nat /\ Len(p) \in Nat
      /\ Len(own[n]) =< Len(p) /\ Len(p) =< Len(own[n]) + MAX_PREFIX_LEN
  BY <1>0, <1>1, LiveType, PrefixType DEF Claim
<1> QED BY <1>2, <1>5, <1>6, VcShapeAssumption DEF INVALID

\* What the stages of the first trie compute from an entry.
VcMatch(d, n, i) == [len |-> Reported(d) + EntryIn(n, i).length, depth |-> d, slot |-> i,
                     hop |-> EntryIn(n, i).next_hop]
VcMatched(own, a, d, n, i) ==
  /\ d \in Depths /\ n \in Live /\ i \in Slots(n[1])
  /\ own[n] = Cut(a, d) /\ HwValid(EntryIn(n, i), a, d)

LEMMA VcMatchesAre ==
  ASSUME VcTypeOK, NEW own, Tree(own), NEW a \in Destinations
  PROVE  /\ \A m \in VcMatches(a) : \E d, n, i :
              VcMatched(own, a, d, n, i) /\ m = VcMatch(d, n, i)
         /\ \A d, n, i : VcMatched(own, a, d, n, i) => VcMatch(d, n, i) \in VcMatches(a)
<1>1. a \in Seq(Bit) /\ Len(a) \in Nat /\ Depths = 1 .. Len(a)
  BY AddressFacts
<1>2. \A d \in Depths : Path(a)[d] = {n \in Live : own[n] = Cut(a, d)}
  <2> SUFFICES ASSUME NEW d \in Depths PROVE Path(a)[d] = {n \in Live : own[n] = Cut(a, d)}
    OBVIOUS
  <2>1. d \in 0 .. Len(a) /\ d # 0
    BY <1>1
  <2>2. Path(a)[d] = NodesAt(own, a, d)
    BY <1>1, <2>1, PathFound
  <2> QED BY <2>1, <2>2 DEF NodesAt
<1>3. ASSUME NEW m \in VcMatches(a)
      PROVE  \E d, n, i : VcMatched(own, a, d, n, i) /\ m = VcMatch(d, n, i)
  <2>1. PICK d \in Depths : \E n \in Path(a)[d] : \E i \in DOMAIN BinOf(n) :
          /\ HwValid(BinOf(n)[i], a, d)
          /\ m = [len |-> Reported(d) + BinOf(n)[i].length, depth |-> d, slot |-> i,
                  hop |-> BinOf(n)[i].next_hop]
    BY DEF VcMatches
  <2>2. PICK n \in Path(a)[d] : \E i \in DOMAIN BinOf(n) :
          /\ HwValid(BinOf(n)[i], a, d)
          /\ m = [len |-> Reported(d) + BinOf(n)[i].length, depth |-> d, slot |-> i,
                  hop |-> BinOf(n)[i].next_hop]
    BY <2>1
  <2>3. PICK i \in DOMAIN BinOf(n) :
          /\ HwValid(BinOf(n)[i], a, d)
          /\ m = [len |-> Reported(d) + BinOf(n)[i].length, depth |-> d, slot |-> i,
                  hop |-> BinOf(n)[i].next_hop]
    BY <2>2
  <2>4. n \in Live /\ own[n] = Cut(a, d)
    BY <1>2, <2>2
  <2>5. i \in Slots(n[1]) /\ BinOf(n)[i] = EntryIn(n, i)
    BY <2>3, BinSlots DEF EntryIn
  <2> QED BY <2>3, <2>4, <2>5 DEF VcMatched, VcMatch
<1>4. ASSUME NEW d, NEW n, NEW i, VcMatched(own, a, d, n, i)
      PROVE  VcMatch(d, n, i) \in VcMatches(a)
  <2>1. /\ d \in Depths /\ n \in Live /\ i \in Slots(n[1]) /\ n \in Path(a)[d]
        /\ HwValid(EntryIn(n, i), a, d)
    BY <1>2, <1>4 DEF VcMatched
  <2>2. i \in DOMAIN BinOf(n) /\ BinOf(n)[i] = EntryIn(n, i)
    <3>1. n \in Nodes /\ n # Root
      BY <2>1, LiveType
    <3> QED BY <2>1, <3>1 DEF BinOf, NodeAt, VcTypeOK, EntryIn
  <2> QED BY <2>1, <2>2 DEF VcMatches, VcMatch
<1> QED BY <1>3, <1>4

\* They meet the premises of BestIs: a node per depth.
LEMMA VcMatchesBounded ==
  ASSUME VcTypeOK, NEW own, Tree(own), NEW a \in Destinations
  PROVE  /\ BestOf(VcMatches(a)) \in VcMatches(a) \cup {NoMatch}
         /\ \A o \in VcMatches(a) \cup {NoMatch} : Beats(BestOf(VcMatches(a)), o)
<1> DEFINE M == VcMatches(a)
<1>1. PICK K : K = Len(a) + MAX_PREFIX_LEN /\ K \in Nat
  BY AddressFacts, VcShapeAssumption
<1>2. ASSUME NEW m \in M
      PROVE  /\ m.len \in Nat /\ m.depth \in Nat \ {0} /\ m.slot \in Nat /\ m.len =< K
             /\ \E L \in Nat : \A o \in M : o.depth = m.depth => o.slot =< L
  <2>1. PICK d, n, i : VcMatched(own, a, d, n, i) /\ m = VcMatch(d, n, i)
    BY VcMatchesAre
  <2>2. /\ d \in Depths /\ n \in Live /\ i \in Slots(n[1]) /\ n \in Nodes
        /\ own[n] = Cut(a, d) /\ EntryIn(n, i).length # INVALID
    BY <2>1, LiveType DEF VcMatched, HwValid
  <2>3. m.len = Reported(d) + EntryIn(n, i).length /\ m.depth = d /\ m.slot = i
    BY <2>1 DEF VcMatch
  <2>4. EntryIn(n, i).length \in 0 .. MAX_PREFIX_LEN
    BY <2>2, EntryType
  <2>5. d \in Nat \ {0} /\ d =< Len(a) /\ Reported(d) \in Nat /\ Reported(d) =< d
    <3>1. d \in 1 .. Len(a) /\ Len(a) \in Nat
      BY <2>2, AddressFacts
    <3> QED BY <2>2, <3>1, ReportedIs
  <2>6. m.len \in Nat /\ m.len =< K
    BY <1>1, <2>3, <2>4, <2>5, AddressFacts, VcShapeAssumption
  <2>7. BIN_SIZES[n[1]] \in Nat
    BY <2>2, VcShapeAssumption DEF Nodes
  <2>8. m.slot \in Nat
    BY <2>2, <2>3, <2>7 DEF Slots
  <2>9. ASSUME NEW o \in M, o.depth = m.depth PROVE o.slot =< BIN_SIZES[n[1]]
    <3>1. PICK e, k, j : VcMatched(own, a, e, k, j) /\ o = VcMatch(e, k, j)
      BY VcMatchesAre
    <3>2. o.depth = e /\ o.slot = j
      BY <3>1 DEF VcMatch
    <3>3. k \in Live /\ own[k] = Cut(a, d) /\ j \in Slots(k[1])
      BY <2>3, <2>9, <3>1, <3>2 DEF VcMatched
    <3>4. k = n
      BY <2>2, <3>3 DEF Tree, PathsDistinct
    <3> QED BY <2>7, <3>2, <3>3, <3>4 DEF Slots
  <2> QED BY <2>3, <2>5, <2>6, <2>7, <2>8, <2>9
<1> HIDE DEF M
<1>3. /\ BestOf(M) \in M \cup {NoMatch}
      /\ \A o \in M \cup {NoMatch} : Beats(BestOf(M), o)
  BY <1>1, <1>2, BestIs
<1> QED BY <1>3 DEF M

\* What the first trie reports is of a route that covers the address, except
\* while the entry is being written.
LEMMA VcMatchRoute ==
  ASSUME VcTypeOK, NEW own, VcFits(own), NamedBy(own), NEW a \in Destinations,
         NEW d, NEW n, NEW i, VcMatched(own, a, d, n, i)
  PROVE  \/ HalfWritten /\ EntryIn(n, i).next_hop = INVALID
         \/ \E p \in Covering(a) : Routed(own, p, n, i)
<1>1. /\ d \in Depths /\ n \in Live /\ i \in Slots(n[1]) /\ n \in Nodes
      /\ own[n] = Cut(a, d) /\ HwValid(EntryIn(n, i), a, d) /\ Tree(own)
  BY LiveType DEF VcMatched, VcFits
<1>2. EntryIn(n, i).length # INVALID
  BY <1>1 DEF HwValid
<1>3. CASE Half(n, i)
  BY <1>2, <1>3 DEF VcFits, HalfTrue, Half, HalfPcs, HalfWritten
<1>4. CASE ~Half(n, i)
  <2>1. InUse(EntryIn(n, i))
    BY <1>1, <1>2, <1>4 DEF VcFits, EntriesWhole, Unused
  <2>2. PICK p \in Prefixes : Claim(own, p, n, i)
    BY <1>1, <1>4, <2>1 DEF NamedBy
  <2>3. Routed(own, p, n, i)
    BY <2>1, <2>2 DEF Routed
  <2>4. d \in Nat \ {0} /\ d \in 1 .. Len(a) /\ a \in Seq(Bit)
    BY <1>1, AddressFacts
  <2>5. Len(own[n]) = d
    BY <1>1, <2>4, CutType
  <2>6. /\ d =< Len(p) /\ Cut(p, d) = Cut(a, d) /\ EntryIn(n, i).prefix = Below(p, d)
    BY <1>1, <2>2, <2>5 DEF Claim
  <2>7. EntryIn(n, i).length = Len(p) - d
    BY <1>1, <2>3, <2>5, LengthInUse
  <2>8. d \in 1 .. Len(p)
    BY <2>4, <2>6, PrefixType
  <2>9. Cut(a, Len(p)) = p
    BY <1>1, <1>2, <2>6, <2>7, <2>8, CoversOnly
  <2>10. Route(p) # None
    BY <2>3, RoutedFound
  <2> QED BY <2>3, <2>9, <2>10 DEF Covering
<1> QED BY <1>3, <1>4

\* What the answer must not be mixed up with.
Right(a, m) ==
  \/ HalfWritten /\ m.hop = INVALID
  \/ \E p \in Covering(a) :
       m.hop = Route(p) /\ (~HalfWritten /\ ~HeldAtStageEnd(p) => m.len = Len(p))

\* A route in no stage's last node is reported with its own length.
LEMMA RoutedLength ==
  ASSUME VcTypeOK, NEW own, VcFits(own), NEW p \in Prefixes, NEW n, NEW i, Routed(own, p, n, i),
         Len(own[n]) \in Depths, ~HeldAtStageEnd(p)
  PROVE  VcMatch(Len(own[n]), n, i).len = Len(p)
<1> DEFINE d == Len(own[n])
<1>1. Tree(own) /\ n \in Live /\ own[n] = Cut(p, d) /\ d =< Len(p)
  BY DEF VcFits, Routed, Claim
<1>2. d \in Nat \ {0} /\ Len(p) \in Nat /\ p \in Seq(Bit)
  BY PrefixType, ReportedIs
<1>3. d \in 1 .. Len(p) /\ d \in 0 .. Len(p) /\ d # 0
  BY <1>1, <1>2
<1>4. VCTrieLookup(p)[1] = n /\ InVcTrie(p)
  BY RoutedFound
<1>5. n \in Path(p)[d]
  <2>1. n \in NodesAt(own, p, d)
    BY <1>1, <1>3 DEF NodesAt
  <2> QED BY <1>1, <1>2, <1>3, <2>1, PathFound
<1>6. ~StageEnd(d)
  BY <1>3, <1>4, <1>5 DEF HeldAtStageEnd
<1>7. Reported(d) = d
  BY <1>6, ReportedIs
<1>8. EntryIn(n, i).length = Len(p) - d
  BY <1>1, LengthInUse
<1>9. VcMatch(d, n, i).len = Reported(d) + EntryIn(n, i).length
  BY DEF VcMatch
<1> HIDE DEF d
<1>10. VcMatch(d, n, i).len = Len(p)
  BY <1>2, <1>7, <1>8, <1>9
<1> QED BY <1>10 DEF d

LEMMA VcMatchRight ==
  ASSUME VcTypeOK, NEW own, VcFits(own), NamedBy(own), NEW a \in Destinations,
         NEW m \in VcMatches(a)
  PROVE  Right(a, m)
<1>0. Tree(own)
  BY DEF VcFits
<1>1. PICK d, n, i : VcMatched(own, a, d, n, i) /\ m = VcMatch(d, n, i)
  BY <1>0, VcMatchesAre
<1>2. m.hop = EntryIn(n, i).next_hop
  BY <1>1 DEF VcMatch
<1>3. CASE HalfWritten /\ EntryIn(n, i).next_hop = INVALID
  BY <1>2, <1>3 DEF Right
<1>4. ASSUME NEW p \in Covering(a), Routed(own, p, n, i) PROVE Right(a, m)
  <2>1. p \in Prefixes
    BY DEF Covering
  <2>2. m.hop = Route(p)
    BY <1>2, <1>4, <2>1, RoutedFound
  <2>3. Len(own[n]) = d /\ d \in Depths
    <3>1. d \in Depths /\ d \in 0 .. Len(a) /\ a \in Seq(Bit) /\ own[n] = Cut(a, d)
      BY <1>1, AddressFacts DEF VcMatched
    <3> QED BY <3>1, CutType
  <2>4. ~HeldAtStageEnd(p) => VcMatch(Len(own[n]), n, i).len = Len(p)
    BY <1>4, <2>1, <2>3, RoutedLength
  <2> QED BY <1>1, <2>2, <2>3, <2>4 DEF Right
<1> QED BY <1>1, <1>3, <1>4, VcMatchRoute

\* The same of the second trie.
LEMMA BtMatchRight ==
  ASSUME Inv, StoredKnown, VcTypeOK, NEW own, Sound(own), NEW a \in Destinations,
         NEW m \in BtMatches(a)
  PROVE  Right(a, m)
<1>1. PICK d \in Depths : BTrieRoute(Cut(a, d)) # None
                          /\ m = [len |-> Reported(d), depth |-> d, slot |-> 0,
                                  hop |-> BTrieRoute(Cut(a, d))]
  BY DEF BtMatches
<1>2. a \in Seq(Bit) /\ d \in 0 .. Len(a) /\ d \in Nat \ {0}
  BY AddressFacts
<1>3. PICK p : p = Cut(a, d)
  OBVIOUS
<1>4. p \in Seq(Bit) /\ Len(p) = d /\ p # <<>>
  BY <1>2, <1>3, CutType
<1>5. p \in Kept /\ p \in Prefixes
  BY <1>1, <1>3, <1>4, MatchKnown DEF Kept
<1>6. Unrouted(own, p) /\ VcFits(own)
  BY <1>1, <1>3, <1>5 DEF Sound, ApartTrue
<1>7. Route(p) = BTrieRoute(p)
  BY <1>5, <1>6, VcRoutesFound DEF VcRoutesTrue
<1>8. p \in Covering(a) /\ m.hop = Route(p) /\ m.len = Reported(d)
  BY <1>1, <1>3, <1>4, <1>5, <1>7 DEF Covering
<1>9. ~HalfWritten /\ ~HeldAtStageEnd(p) => m.len = Len(p)
  <2> SUFFICES ASSUME ~HalfWritten, ~HeldAtStageEnd(p) PROVE m.len = Len(p)
    OBVIOUS
  <2>1. ~InVcTrie(p)
    BY <1>5, <1>6, NotFoundWhole
  <2>2. ~StageEnd(d)
    BY <1>4, <2>1 DEF HeldAtStageEnd
  <2> QED BY <1>4, <1>8, <2>2, ReportedIs
<1> QED BY <1>8, <1>9 DEF Right

LEMMA BtMatchesBounded ==
  ASSUME NEW a \in Destinations
  PROVE  /\ BestOf(BtMatches(a)) \in BtMatches(a) \cup {NoMatch}
         /\ \A o \in BtMatches(a) \cup {NoMatch} : Beats(BestOf(BtMatches(a)), o)
<1> DEFINE M == BtMatches(a)
<1>1. Len(a) \in Nat /\ Depths = 1 .. Len(a)
  BY AddressFacts
<1>2. ASSUME NEW m \in M
      PROVE  /\ m.len \in Nat /\ m.depth \in Nat \ {0} /\ m.slot = 0 /\ m.len =< Len(a)
  <2>1. PICK d \in Depths : m.len = Reported(d) /\ m.depth = d /\ m.slot = 0
    BY DEF BtMatches
  <2>2. d \in Nat \ {0} /\ Reported(d) \in Nat /\ Reported(d) =< d
    BY ReportedIs
  <2>3. d =< Len(a)
    BY <1>1
  <2> QED BY <1>1, <2>1, <2>2, <2>3
<1> HIDE DEF M
<1>3. \A m \in M : \E L \in Nat : \A o \in M : o.depth = m.depth => o.slot =< L
  <2>1. \A o \in M : o.slot =< 0
    BY <1>2
  <2> QED BY <2>1
<1>4. /\ BestOf(M) \in M \cup {NoMatch}
      /\ \A o \in M \cup {NoMatch} : Beats(BestOf(M), o)
  BY <1>1, <1>2, <1>3, BestIs
<1> QED BY <1>4 DEF M

\* No route that covers the address is missed.
LEMMA CoveringMatched ==
  ASSUME VcTypeOK, NEW own, Sound(own), NEW a \in Destinations, NEW p \in Covering(a),
         ~HalfWritten, ~HeldAtStageEnd(p)
  PROVE  \E m \in VcMatches(a) \cup BtMatches(a) : m.len = Len(p)
<1>1. p \in Prefixes /\ Route(p) # None /\ Cut(a, Len(p)) = p
  BY DEF Covering
<1>2. VcFits(own) /\ Tree(own)
  BY DEF Sound, VcFits
<1>3. /\ a \in Seq(Bit) /\ Len(a) \in Nat /\ Depths = 1 .. Len(a)
      /\ p \in Seq(Bit) /\ Len(p) \in 1 .. Len(a) - 1
  BY <1>1, AddressFacts, PrefixType
<1>4. ASSUME NEW n, NEW i, Routed(own, p, n, i)
      PROVE  \E m \in VcMatches(a) : m.len = Len(p)
  <2> DEFINE d == Len(own[n])
  <2>1. /\ n \in Live /\ i \in Slots(n[1]) /\ d =< Len(p) /\ own[n] = Cut(p, d)
        /\ EntryIn(n, i).prefix = Below(p, d)
    BY <1>4 DEF Routed, Claim
  <2>2. d \in Nat \ {0}
    <3>1. own[n] \in Seq(Bit) /\ own[n] # <<>>
      BY <1>2, <2>1 DEF Tree, PathsTyped
    <3> QED BY <3>1
  <2>3. EntryIn(n, i).length = Len(p) - d /\ EntryIn(n, i).length # INVALID
    BY <1>1, <1>2, <1>4, LengthInUse, VcShapeAssumption DEF INVALID
  <2> HIDE DEF d
  <2>4. d \in 1 .. Len(p) /\ d \in Depths
    BY <1>3, <2>1, <2>2
  <2>5. Cut(p, d) = Cut(a, d)
    <3>1. Len(p) \in 0 .. Len(a) /\ d \in 0 .. Len(p)
      BY <1>3, <2>4
    <3>2. Cut(Cut(a, Len(p)), d) = Cut(a, d)
      BY <1>3, <3>1, CutCut
    <3> QED BY <1>1, <3>2
  <2>6. HwValid(EntryIn(n, i), a, d)
    BY <1>1, <2>1, <2>3, <2>4, <2>5, CoversOnly
  <2>7. VcMatched(own, a, d, n, i)
    BY <2>1, <2>4, <2>5, <2>6 DEF VcMatched
  <2>8. VcMatch(d, n, i) \in VcMatches(a)
    BY <1>2, <2>7, VcMatchesAre
  <2>9. VcMatch(d, n, i).len = Len(p)
    BY <1>1, <1>2, <1>4, <2>4, RoutedLength DEF d
  <2> QED BY <2>8, <2>9
<1>5. CASE Unrouted(own, p)
  <2>1. Route(p) = BTrieRoute(p)
    BY <1>1, <1>2, <1>5, VcRoutesFound DEF VcRoutesTrue
  <2>2. ~InVcTrie(p)
    BY <1>1, <1>2, <1>5, NotFoundWhole
  <2>3. Len(p) \in Depths /\ ~StageEnd(Len(p))
    BY <1>3, <2>2 DEF HeldAtStageEnd
  <2>4. Reported(Len(p)) = Len(p)
    BY <2>3, ReportedIs
  <2>5. PICK d : d = Len(p)
    OBVIOUS
  <2>6. [len |-> Reported(d), depth |-> d, slot |-> 0, hop |-> BTrieRoute(Cut(a, d))]
          \in BtMatches(a)
    BY <1>1, <2>1, <2>3, <2>5 DEF BtMatches
  <2> QED BY <2>4, <2>5, <2>6
<1> QED BY <1>4, <1>5 DEF Unrouted

LEMMA MatchLengths ==
  ASSUME VcTypeOK, NEW own, Tree(own), NEW a \in Destinations
  PROVE  \A m \in VcMatches(a) \cup BtMatches(a) : m.len \in Nat
<1>1. ASSUME NEW m \in VcMatches(a) PROVE m.len \in Nat
  <2>1. PICK d, n, i : VcMatched(own, a, d, n, i) /\ m = VcMatch(d, n, i)
    BY VcMatchesAre
  <2>2. n \in Nodes /\ i \in Slots(n[1]) /\ EntryIn(n, i).length \in Nat
    <3>1. n \in Nodes /\ i \in Slots(n[1])
      BY <2>1, LiveType DEF VcMatched
    <3> QED BY <3>1, EntryType, VcShapeAssumption DEF INVALID
  <2>3. Reported(d) \in Nat
    BY <2>1, ReportedIs DEF VcMatched
  <2>4. m.len = Reported(d) + EntryIn(n, i).length
    BY <2>1 DEF VcMatch
  <2> QED BY <2>2, <2>3, <2>4
<1>2. ASSUME NEW m \in BtMatches(a) PROVE m.len \in Nat
  <2>1. PICK d \in Depths : m.len = Reported(d)
    BY DEF BtMatches
  <2> QED BY <2>1, ReportedIs
<1> QED BY <1>1, <1>2

\* The candidates are told apart by their lengths; Longest is the longest.
LEMMA LongestIs ==
  ASSUME NEW a \in Destinations, Covering(a) # {}
  PROVE  \E p \in Covering(a) :
           /\ Longest(a) = Route(p) /\ \A q \in Covering(a) : Len(q) =< Len(p)
           /\ \A q \in Covering(a) : Len(q) = Len(p) => q = p
<1> DEFINE C == Covering(a)
<1>1. Len(a) \in Nat /\ \A p \in C : Len(p) \in Nat \ {0} /\ Len(p) =< Len(a)
  BY AddressFacts, PrefixType DEF Covering
<1>2. \A p \in C : p = Cut(a, Len(p))
  BY DEF Covering
<1>3. PICK x \in C : \A q \in C : Len(q) =< Len(x)
  <2> DEFINE S == {Len(p) : p \in C}
  <2> HIDE DEF C
  <2>1. S \subseteq Nat /\ S # {} /\ \A s \in S : s =< Len(a)
    BY <1>1 DEF C
  <2>2. PICK s \in S : \A t \in S : t =< s
    <3> HIDE DEF S
    <3> QED BY <1>1, <2>1, Greatest
  <2> QED BY <2>2
<1>4. Longest(a) = Route(CHOOSE p \in C : \A q \in C : Len(q) =< Len(p))
  BY DEF Longest
<1>5. PICK y : y = CHOOSE p \in C : \A q \in C : Len(q) =< Len(p)
  OBVIOUS
<1>6. y \in C /\ \A q \in C : Len(q) =< Len(y)
  <2> HIDE DEF C
  <2> QED BY <1>3, <1>5
<1>7. \A q \in C : Len(q) = Len(y) => q = y
  BY <1>2, <1>6
<1> QED BY <1>4, <1>5, <1>6, <1>7

LEMMA BestLongest ==
  ASSUME NEW M, \A m \in M : m.len \in Nat,
         NEW v \in M \cup {NoMatch}, \A o \in M \cup {NoMatch} : Beats(v, o)
  PROVE  v.len \in Nat /\ \A o \in M : o.len =< v.len
<1>1. v.len \in Nat
  BY DEF NoMatch
<1>2. ASSUME NEW o \in M PROVE o.len =< v.len
  <2>1. o.len \in Nat /\ Beats(v, o)
    OBVIOUS
  <2> QED BY <1>1, <2>1 DEF Beats
<1> QED BY <1>1, <1>2

LEMMA AnswersNow ==
  ASSUME Inv, TriesInv, BothInv, NamedInv, StoredKnown PROVE HwAnswers
<1> SUFFICES ASSUME ~warm, NEW a \in Destinations
             PROVE  /\ next_hop(a) \in {Route(p) : p \in Covering(a)} \cup {DefaultHop}
                                    \cup (IF HalfWritten THEN {INVALID} ELSE {})
                    /\ ~HalfWritten /\ (\A p \in Covering(a) : ~HeldAtStageEnd(p))
                         => next_hop(a) = Longest(a)
  BY DEF HwAnswers
<1>1. PICK own : Sound(own)
  BY DEF BothInv
<1>2. VcTypeOK /\ VcFits(own) /\ Tree(own)
  BY <1>1 DEF TriesInv, Sound, VcFits
<1>3. NamedBy(own)
  BY <1>2, NamedOther DEF NamedInv
<1>4. PICK M, N : M = VcMatches(a) /\ N = BtMatches(a)
  OBVIOUS
<1>5. \A m \in M \cup N : Right(a, m)
  BY <1>1, <1>2, <1>3, <1>4, VcMatchRight, BtMatchRight
<1>6. PICK v, b : v = BestOf(M) /\ b = BestOf(N)
  OBVIOUS
<1>7. /\ v \in M \cup {NoMatch} /\ \A o \in M \cup {NoMatch} : Beats(v, o)
      /\ b \in N \cup {NoMatch} /\ \A o \in N \cup {NoMatch} : Beats(b, o)
  BY <1>2, <1>4, <1>6, VcMatchesBounded, BtMatchesBounded
<1>8. \A m \in M \cup N : m.len \in Nat
  BY <1>2, <1>4, MatchLengths
<1>9. PICK w : w = IF v.len >= b.len THEN v ELSE b
  OBVIOUS
<1>10. next_hop(a) = w.hop
  BY <1>4, <1>6, <1>9 DEF next_hop
<1>11. w \in M \cup N \cup {NoMatch} /\ \A o \in M \cup N : o.len =< w.len
  <2>1. v.len \in Nat /\ \A o \in M : o.len =< v.len
    BY <1>7, <1>8, BestLongest
  <2>2. b.len \in Nat /\ \A o \in N : o.len =< b.len
    BY <1>7, <1>8, BestLongest
  <2>3. CASE v.len >= b.len
    <3>1. ASSUME NEW o \in N PROVE o.len =< v.len
      <4>1. o.len \in Nat /\ o.len =< b.len
        BY <1>8, <2>2
      <4> QED BY <2>1, <2>2, <2>3, <4>1
    <3> QED BY <1>7, <1>9, <2>1, <2>3, <3>1
  <2>4. CASE ~(v.len >= b.len)
    <3>1. ASSUME NEW o \in M PROVE o.len =< b.len
      <4>1. o.len \in Nat /\ o.len =< v.len
        BY <1>8, <2>1
      <4> QED BY <2>1, <2>2, <2>4, <4>1
    <3> QED BY <1>7, <1>9, <2>2, <2>4, <3>1
  <2> QED BY <2>3, <2>4
<1>12. NoMatch.hop = DefaultHop /\ NoMatch.len = 0
  BY DEF NoMatch
<1>13. next_hop(a) \in {Route(p) : p \in Covering(a)} \cup {DefaultHop}
                         \cup (IF HalfWritten THEN {INVALID} ELSE {})
  <2>1. CASE w = NoMatch
    BY <1>10, <1>12, <2>1
  <2>2. CASE w \in M \cup N
    BY <1>5, <1>10, <2>2 DEF Right
  <2> QED BY <1>11, <2>1, <2>2
<1>14. ASSUME ~HalfWritten, \A p \in Covering(a) : ~HeldAtStageEnd(p)
       PROVE  next_hop(a) = Longest(a)
  <2>1. CASE Covering(a) = {}
    <3>1. M \cup N = {}
      BY <1>5, <1>14, <2>1 DEF Right
    <3> QED BY <1>10, <1>12, <1>11, <2>1, <3>1 DEF Longest
  <2>2. CASE Covering(a) # {}
    <3>1. PICK p \in Covering(a) :
            /\ Longest(a) = Route(p) /\ \A q \in Covering(a) : Len(q) =< Len(p)
            /\ \A q \in Covering(a) : Len(q) = Len(p) => q = p
      BY <2>2, LongestIs
    <3>2. PICK m \in M \cup N : m.len = Len(p)
      BY <1>1, <1>2, <1>4, <1>14, CoveringMatched
    <3>3. Len(p) \in Nat \ {0} /\ Len(p) =< w.len
      BY <1>11, <3>2, PrefixType DEF Covering
    <3>4. w \in M \cup N
      BY <1>12, <1>11, <3>3
    <3>5. PICK q \in Covering(a) : w.hop = Route(q) /\ w.len = Len(q)
      BY <1>5, <1>14, <3>4 DEF Right
    <3>6. Len(q) \in Nat /\ Len(q) =< Len(p)
      BY <3>1, PrefixType DEF Covering
    <3>7. q = p
      BY <3>1, <3>3, <3>5, <3>6
    <3> QED BY <1>10, <3>1, <3>5, <3>7
  <2> QED BY <2>1, <2>2
<1> QED BY <1>13, <1>14

\* Until a reset a lookup of the datapath never yields a next hop of a route
\* that does not cover the address, whatever word the firmware has written
\* last, and it yields that of the longest match unless the entry of a candidate
\* is half written or sits in the last node of a stage (trie8.sv:155-250,
\* trie128.sv:190, vc_trie.cpp:262-264).
THEOREM AnswersRight == Spec => []HwAnswers
<1>1. Spec => []Inv
  BY TriesImplementBTrie, InitInv, StepInv, PTL DEF BTrieSpec
<1>2. TriesInv /\ Inv /\ [Next]_vars => TriesInv'
  <2> SUFFICES ASSUME TriesInv, Inv, [Next]_vars PROVE TriesInv'
    OBVIOUS
  <2> QED BY VcCallInv, VcTypesStep, FiledStep DEF TriesInv
<1>3. Inv /\ PendingInv /\ [Next]_vars => PendingInv'
  BY PendingStep
<1>4. Inv /\ Inv' /\ TriesInv /\ TriesInv' /\ PendingInv /\ BothInv /\ [Next]_vars => BothInv'
  BY BothStep
<1>5. Inv /\ TriesInv /\ PendingInv /\ BothInv /\ NamedInv /\ [Next]_vars => NamedInv'
  BY NamedStep
<1>6. Inv /\ PendingInv /\ TriesInv /\ StoredKnown /\ [Next]_vars => StoredKnown'
  BY KnownStep DEF TriesInv
<1>7. Inv /\ TriesInv /\ BothInv /\ NamedInv /\ StoredKnown => HwAnswers
  BY AnswersNow
<1> QED BY <1>1, <1>2, <1>3, <1>4, <1>5, <1>6, <1>7, BothInit, TriesInitInv, PendingInit,
           NamedFirst, KnownFirst, PTL DEF Spec

=============================================================================
