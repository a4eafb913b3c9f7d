-------------------------- MODULE RipTableMapProofs --------------------------
(* The trie, rte_map and memory_rte always describe the same routes; and    *)
(* what follows from that: direct routes stay, next hops agree with the     *)
(* table, what is sent is true, and the search for a free record ends.      *)
(*                                                                          *)
(* MapConsistent is not inductive: that a response writes the record of     *)
(* the prefix it is about needs that a prefix outside the trie maps to      *)
(* slot 0, that slot 0 is always a record of ::/0, and that the slot the    *)
(* next route will take is free.                                            *)
EXTENDS RipTableProofs, FiniteSetTheorems

Announced(p) == \E e \in RxRtes : e[1] = p

\* A prefix in the trie has a valid record; one outside it maps to slot 0.
MapForward ==
  \A p \in Prefixes :
    /\ trie[p].tier # "none" =>
         /\ rte_map[p] # 0
         /\ memory_rte[rte_map[p]].valid
         /\ memory_rte[rte_map[p]].prefix = p
    /\ trie[p].tier = "none" => rte_map[p] = 0

\* A valid record is the one its prefix maps to.
MapBackward ==
  \A i \in Slots \ {0} : memory_rte[i].valid /\ Tracked(memory_rte[i].prefix) =>
    /\ trie[memory_rte[i].prefix].tier # "none"
    /\ rte_map[memory_rte[i].prefix] = i

\* Slot 0 is no route's: it is written only for a node without a route.
ZeroSlot ==
  /\ memory_rte[0].prefix = DefaultPrefix
  /\ NoneCovers => ~memory_rte[0].valid

\* Only what was announced is put in the binary trie.
BinaryHeard ==
  \A p \in Prefixes : trie[p].tier = "bt" => "bt" \in Tiers /\ Announced(p)

SpareFree == pc # "hung" => ~memory_rte[spare_memory_index].valid

\* The direct prefixes still to be configured are not in the trie.
BootFresh ==
  pc = "boot" => \A q \in Ports : q >= cur.port => trie[DirectPrefix[q]].tier = "none"

MapInv ==
  MapForward /\ MapBackward /\ ZeroSlot /\ BinaryHeard /\ SpareFree /\ BootFresh

TableFixed == UNCHANGED <<trie, rte_map, memory_rte, spare_memory_index>>

-----------------------------------------------------------------------------
LEMMA MapInvImplies == TypeOK /\ MapInv => MapConsistent
BY DEF MapInv, MapForward, MapBackward, MapConsistent, Consistent, Listed, TypeOK, TableType

LEMMA InitMap == Init => MapInv
<1> SUFFICES ASSUME Init PROVE MapInv
  OBVIOUS
<1>1. \A p \in Prefixes : trie[p] = NoRoute /\ rte_map[p] = 0
  BY DEF Init
<1>2. \A i \in Slots : ~memory_rte[i].valid /\ memory_rte[i].prefix = DefaultPrefix
  BY DEF Init
<1>3. spare_memory_index \in Slots
  BY SizeAssumption, PortsAssumption DEF Init, Slots
<1>4. \A q \in Ports : DirectPrefix[q] \in Prefixes
  BY PrefixAssumption
<1> QED BY <1>1, <1>2, <1>3, <1>4, Literals
        DEF MapInv, MapForward, MapBackward, ZeroSlot, BinaryHeard, SpareFree, BootFresh, NoRoute

\* A step that leaves the table alone, and is not about to boot, keeps MapInv.
LEMMA MapFixed ==
  ASSUME MapInv, TableFixed, pc # "hung" \/ pc' = "hung", pc' # "boot"
  PROVE  MapInv'
<1>1. MapForward'
  BY DEF TableFixed, MapInv, MapForward
<1>2. MapBackward'
  BY DEF TableFixed, MapInv, MapBackward, Tracked
<1>3. ZeroSlot' /\ BinaryHeard' /\ SpareFree' /\ BootFresh'
  BY DEF TableFixed, MapInv, ZeroSlot, BinaryHeard, SpareFree, BootFresh
<1> QED BY <1>1, <1>2, <1>3 DEF MapInv

\* Ageing removes a route from all three places at once.
LEMMA MapUpdate ==
  ASSUME TypeOK, MapInv, NEW S, S \subseteq Slots, update_memory_rte(S),
         UNCHANGED spare_memory_index, pc # "hung" \/ pc' = "hung", pc' # "boot"
  PROVE  MapInv'
<1> DEFINE dead == {memory_rte[i].prefix : i \in {k \in S : Collected(memory_rte[k])}}
<1> USE DEF TypeOK, TableType
<1>1. \A i \in Slots : memory_rte'[i] = IF i \in S THEN Updated(memory_rte[i]) ELSE memory_rte[i]
  BY DEF update_memory_rte
<1>2. \A p \in Prefixes : /\ trie'[p] = IF p \in dead THEN NoRoute ELSE trie[p]
                          /\ rte_map'[p] = IF p \in dead THEN 0 ELSE rte_map[p]
  BY DEF update_memory_rte
\* What ageing does to one record.
<1>3. \A i \in Slots : /\ ~memory_rte[i].valid => ~memory_rte'[i].valid
                       /\ memory_rte'[i].valid => memory_rte'[i].prefix = memory_rte[i].prefix
                       /\ ~memory_rte'[i].valid /\ memory_rte[i].valid =>
                            i \in S /\ Collected(memory_rte[i])
                       /\ memory_rte'[i].valid => ~(i \in S /\ Collected(memory_rte[i]))
  <2> TAKE i \in Slots
  <2>1. memory_rte[i] \in Rte
    OBVIOUS
  <2> QED BY <1>1, <2>1 DEF Updated, Cleared, Lapses, Collected, Rte
<1> HIDE DEF dead
<1>4. MapForward'
  <2> SUFFICES ASSUME NEW p \in Prefixes
               PROVE  /\ trie'[p].tier # "none" =>
                           /\ rte_map'[p] # 0
                           /\ memory_rte'[rte_map'[p]].valid
                           /\ memory_rte'[rte_map'[p]].prefix = p
                      /\ trie'[p].tier = "none" => rte_map'[p] = 0
    BY DEF MapForward
  <2>1. CASE p \in dead
    <3>1. NoRoute.tier = "none"
      BY DEF NoRoute
    <3>2. trie'[p] = NoRoute /\ rte_map'[p] = 0
      BY <1>2, <2>1
    <3>3. trie'[p].tier = "none"
      BY <3>1, <3>2
    <3> QED BY <3>2, <3>3
  <2>2. CASE p \notin dead
    <3>1. trie'[p] = trie[p] /\ rte_map'[p] = rte_map[p] /\ rte_map[p] \in Slots
      BY <1>2, <2>2
    <3>2. CASE trie[p].tier = "none"
      BY <3>1, <3>2 DEF MapInv, MapForward
    <3>3. CASE trie[p].tier # "none"
      <4>1. /\ rte_map[p] # 0 /\ memory_rte[rte_map[p]].valid
            /\ memory_rte[rte_map[p]].prefix = p
        BY <3>3 DEF MapInv, MapForward
      <4>2. ~(rte_map[p] \in S /\ Collected(memory_rte[rte_map[p]]))
        BY <2>2, <4>1 DEF dead
      <4> QED BY <1>3, <3>1, <3>3, <4>1, <4>2
    <3> QED BY <3>2, <3>3
  <2> QED BY <2>1, <2>2
<1>5. MapBackward'
  <2> SUFFICES ASSUME NEW i \in Slots \ {0}, memory_rte'[i].valid, Tracked(memory_rte'[i].prefix)
               PROVE  /\ trie'[memory_rte'[i].prefix].tier # "none"
                      /\ rte_map'[memory_rte'[i].prefix] = i
    BY DEF MapBackward, Tracked
  <2> DEFINE p == memory_rte[i].prefix
  <2>1. p = memory_rte'[i].prefix /\ p \in Prefixes /\ memory_rte[i].valid
    BY <1>3 DEF Rte
  <2>2. trie[p].tier # "none" /\ rte_map[p] = i
    BY <2>1 DEF MapInv, MapBackward
  <2>3. p \notin dead
    <3> SUFFICES ASSUME NEW k \in S, Collected(memory_rte[k]), memory_rte[k].prefix = p
                 PROVE  FALSE
      BY DEF dead
    <3>1. k \in Slots /\ memory_rte[k].valid
      BY DEF Collected
    <3>2. k # 0
      BY <2>1, <3>1 DEF MapInv, ZeroSlot, Tracked
    <3>3. k = i
      BY <2>1, <2>2, <3>1, <3>2 DEF MapInv, MapBackward
    <3> QED BY <1>3, <3>3
  <2> QED BY <1>2, <2>1, <2>2, <2>3
<1>6. ZeroSlot'
  <2>1. memory_rte[0] \in Rte /\ memory_rte[0].prefix = DefaultPrefix
    BY Literals DEF MapInv, ZeroSlot
  <2>2. memory_rte'[0].prefix = DefaultPrefix
    BY <1>1, <2>1, Literals DEF Updated, Cleared, Rte
  <2> QED BY <1>3, <2>2, Literals DEF MapInv, ZeroSlot
<1>7. SpareFree'
  <2>1. spare_memory_index \in Slots
    BY SizeAssumption DEF SlotType, Slots
  <2> QED BY <1>3, <2>1 DEF MapInv, SpareFree
<1>8. BootFresh'
  BY DEF BootFresh
<1>9. BinaryHeard'
  <2>1. \A p \in Prefixes : trie[p].tier # "bt" => trie'[p].tier # "bt"
    BY <1>2 DEF NoRoute
  <2> QED BY <2>1 DEF MapInv, BinaryHeard
<1> QED BY <1>4, <1>5, <1>6, <1>7, <1>8, <1>9 DEF MapInv

\* A node without a route is found only for a prefix that covers another.
LEMMA FoundThere ==
  ASSUME MapInv, NoneCovers, NEW p \in Prefixes, Announced(p), TrieLookup(p)
  PROVE  trie[p].tier # "none"
<1> SUFFICES ASSUME NEW q \in Prefixes, trie[q].tier = "bt", p \in Above[q], p # DefaultPrefix
             PROVE  FALSE
  BY DEF TrieLookup, Interior
<1>1. "bt" \in Tiers /\ Announced(q)
  BY DEF MapInv, BinaryHeard
<1> QED BY <1>1 DEF NoneCovers, Announced

\* Rewriting the record a found prefix maps to, its prefix and validity kept
\* unless it is slot 0, keeps MapInv; the trie may change its next hop only.
LEMMA MapWrite ==
  ASSUME TypeOK, MapInv, NEW p \in Prefixes, Announced(p), TrieLookup(p),
         NEW r \in Rte, NEW who, WriteRte(rte_map[p], r, who),
         r.prefix = memory_rte[rte_map[p]].prefix,
         rte_map[p] # 0 => r.valid,
         trie' \in [Prefixes -> TrieEntry],
         \A q \in Prefixes : trie'[q].tier = trie[q].tier,
         UNCHANGED <<rte_map, spare_memory_index>>,
         pc # "hung", pc' # "boot"
  PROVE  MapInv'
<1> DEFINE i == rte_map[p]
<1> USE DEF TypeOK, TableType
<1>1. i \in Slots /\ memory_rte[i] \in Rte
  OBVIOUS
<1>2. \A k \in Slots : memory_rte'[k] = IF k = i THEN r ELSE memory_rte[k]
  BY <1>1 DEF WriteRte
<1>3. i # 0 => memory_rte[i].valid /\ memory_rte[i].prefix = p
  BY DEF MapInv, MapForward
<1>4. i = 0 => trie[p].tier = "none"
  BY DEF MapInv, MapForward
<1>5. r.prefix = memory_rte[i].prefix /\ (i # 0 => r.valid)
  OBVIOUS
<1> HIDE DEF i
<1>6. MapForward'
  BY <1>1, <1>2, <1>3, <1>5 DEF MapInv, MapForward
<1>7. MapBackward'
  <2> SUFFICES ASSUME NEW k \in Slots \ {0}, memory_rte'[k].valid, Tracked(memory_rte'[k].prefix)
               PROVE  /\ trie'[memory_rte'[k].prefix].tier # "none"
                      /\ rte_map'[memory_rte'[k].prefix] = k
    BY DEF MapBackward, Tracked
  <2>1. /\ memory_rte'[k].prefix = memory_rte[k].prefix
        /\ memory_rte[k].valid /\ memory_rte[k].prefix \in Prefixes
    BY <1>2, <1>3, <1>5 DEF Rte
  <2>2. /\ trie[memory_rte[k].prefix].tier # "none"
        /\ rte_map[memory_rte[k].prefix] = k
    BY <2>1 DEF MapInv, MapBackward
  <2> QED BY <2>1, <2>2
<1>8. ZeroSlot'
  <2>1. memory_rte'[0].prefix = DefaultPrefix
    BY <1>2, <1>5, Literals DEF MapInv, ZeroSlot
  <2>2. ASSUME NoneCovers, i = 0 PROVE FALSE
    BY <1>4, <2>2, FoundThere
  <2> QED BY <1>2, <2>1, <2>2, Literals DEF MapInv, ZeroSlot
<1>9. SpareFree'
  <2>1. spare_memory_index \in Slots \ {0} /\ ~memory_rte[spare_memory_index].valid
    BY SizeAssumption DEF SlotType, Slots, MapInv, SpareFree
  <2>2. i # spare_memory_index
    BY <1>3, <2>1
  <2> QED BY <1>2, <2>1, <2>2 DEF SpareFree
<1>10. BinaryHeard'
  BY DEF MapInv, BinaryHeard
<1> QED BY <1>6, <1>7, <1>8, <1>9, <1>10 DEF MapInv, BootFresh

\* Taking the spare slot for a prefix that is not in the trie keeps MapInv.
LEMMA MapAdd ==
  ASSUME TypeOK, MapInv, pc # "hung", NEW p \in Prefixes, trie[p].tier = "none",
         NEW tier \in {"vc", "bt"}, tier = "vc" \/ (tier \in Tiers /\ Announced(p)), NEW j,
         trie' = [trie EXCEPT ![p] = Placed(p, tier, j)],
         rte_map' = [rte_map EXCEPT ![p] = spare_memory_index],
         NEW r \in Rte, r.prefix = p, r.valid,
         NEW who, WriteRte(spare_memory_index, r, who),
         NEW next, AdvanceSpare(next),
         BootFresh'
  PROVE  MapInv'
<1> DEFINE i == spare_memory_index
<1> USE DEF TypeOK, TableType
<1>1. i \in Slots \ {0} /\ ~memory_rte[i].valid
  BY SizeAssumption DEF SlotType, Slots, MapInv, SpareFree
<1>2. \A k \in Slots : memory_rte'[k] = IF k = i THEN r ELSE memory_rte[k]
  BY <1>1 DEF WriteRte
<1>3. \A q \in Prefixes : /\ trie'[q] = IF q = p THEN Placed(p, tier, j) ELSE trie[q]
                          /\ rte_map'[q] = IF q = p THEN i ELSE rte_map[q]
  OBVIOUS
<1>4. /\ Placed(p, tier, j).tier \in {"flag", tier}
      /\ Placed(p, tier, j).tier # "none"
  BY DEF Placed
<1>5. r.prefix = p /\ r.valid
  OBVIOUS
<1> HIDE DEF i
<1>6. MapForward'
  BY <1>1, <1>2, <1>3, <1>4, <1>5 DEF MapInv, MapForward
<1>7. MapBackward'
  <2> SUFFICES ASSUME NEW k \in Slots \ {0}, memory_rte'[k].valid, Tracked(memory_rte'[k].prefix)
               PROVE  /\ trie'[memory_rte'[k].prefix].tier # "none"
                      /\ rte_map'[memory_rte'[k].prefix] = k
    BY DEF MapBackward, Tracked
  <2>1. CASE k = i
    BY <1>2, <1>3, <1>4, <1>5, <2>1
  <2>2. CASE k # i
    <3>1. memory_rte'[k] = memory_rte[k] /\ memory_rte[k].prefix \in Prefixes
      BY <1>2, <2>2 DEF Rte
    <3>2. trie[memory_rte[k].prefix].tier # "none" /\ rte_map[memory_rte[k].prefix] = k
      BY <3>1 DEF MapInv, MapBackward
    <3> QED BY <1>3, <3>1, <3>2
  <2> QED BY <2>1, <2>2
<1>8. ZeroSlot'
  <2>1. memory_rte'[0] = memory_rte[0]
    BY <1>1, <1>2, Literals
  <2> QED BY <2>1 DEF MapInv, ZeroSlot
<1>9. SpareFree'
  BY DEF AdvanceSpare, FirstFree, FreeSlots, SpareFree
<1>10. BinaryHeard'
  <2>1. Placed(p, tier, j).tier = "bt" => "bt" \in Tiers /\ Announced(p)
    BY <1>4
  <2> QED BY <1>3, <2>1 DEF MapInv, BinaryHeard
<1> QED BY <1>6, <1>7, <1>8, <1>9, <1>10 DEF MapInv

-----------------------------------------------------------------------------
LEMMA MapBoot ==
  ASSUME TypeInv, MapInv, config_direct_route
  PROVE  MapInv'
<1> DEFINE p == cur.port
           x == DirectPrefix[p]
           r == [prefix |-> x, metric |-> 1, lower_timer |-> now,
                 valid |-> TRUE, direct |-> TRUE, port |-> p]
<1> USE DEF TypeInv, TypeOK
<1>1. p \in Ports /\ x \in Prefixes
  BY PrefixAssumption DEF ControlType
<1>2. trie[x].tier = "none" /\ pc # "hung"
  BY <1>1 DEF MapInv, BootFresh, config_direct_route, Ports
<1>3. r \in Rte /\ r.prefix = x /\ r.valid
  BY <1>1, Literals DEF Rte, ControlType
<1>4. /\ trie' = [trie EXCEPT ![x] = Placed(x, "vc", spare_nexthop_index)]
      /\ rte_map' = [rte_map EXCEPT ![x] = spare_memory_index]
      /\ WriteRte(spare_memory_index, r, NoAddr)
      /\ AdvanceSpare(IF p = PORT_NUM - 1 THEN "idle" ELSE "boot")
  BY DEF config_direct_route
<1>5. BootFresh'
  <2> SUFFICES ASSUME pc' = "boot", NEW q \in Ports, q >= cur'.port
               PROVE  trie'[DirectPrefix[q]].tier = "none"
    BY DEF BootFresh
  <2>1. p # PORT_NUM - 1
    BY <1>4 DEF AdvanceSpare
  <2>2. cur'.port = p + 1
    BY <2>1 DEF config_direct_route, ControlType
  <2>3. q >= p /\ q # p
    BY <1>1, <2>2 DEF Ports
  <2>4. DirectPrefix[q] \in Prefixes /\ DirectPrefix[q] # x
    BY <1>1, <2>3, PrefixAssumption
  <2>5. trie[DirectPrefix[q]].tier = "none"
    BY <2>3 DEF MapInv, BootFresh, config_direct_route
  <2> QED BY <1>4, <2>4, <2>5 DEF TableType
<1> HIDE DEF r, x, p
<1> QED BY <1>1, <1>2, <1>3, <1>4, <1>5, MapAdd

LEMMA MapUpdateRoute ==
  ASSUME TypeOK, MapInv, pc = "response", cur.len < MaxRtes,
         NEW p, NEW m, <<p, m>> \in RxRtes, NEW j \in HopIndexes, UpdateRoute(p, m, j),
         TableType', pc' # "boot"
  PROVE  MapInv'
<1> DEFINE i == rte_map[p]
           r == memory_rte[i]
           new == NewMetric(m)
<1> USE DEF TypeOK
<1>1. /\ p \in Prefixes /\ new \in 0 .. Infinity /\ TrieLookup(p) /\ pc # "hung"
      /\ Announced(p)
  BY NewMetricType DEF UpdateRoute, Announced
<1>2. i \in Slots /\ r \in Rte /\ now \in Clock
  BY <1>1 DEF TableType, ControlType
<1>3. spare_memory_index' = spare_memory_index
  BY DEF UpdateRoute, slots
<1>4. i # 0 => r.valid /\ r.prefix = p /\ trie[p].tier # "none"
  BY <1>1 DEF MapInv, MapForward
<1>5. r.prefix \in Prefixes
  BY <1>2 DEF Rte
<1>6. \A q \in Prefixes : TrieModified(r.prefix, j)[q].tier = trie[q].tier
  BY <1>5 DEF TrieModified, TableType, TrieEntry
<1>7. trie' \in [Prefixes -> TrieEntry]
  BY DEF TableType
<1>8. ASSUME NEW t \in Rte, NEW who, WriteRte(i, t, who), t.prefix = r.prefix,
             r.valid => t.valid,
             \A q \in Prefixes : trie'[q].tier = trie[q].tier,
             UNCHANGED rte_map
      PROVE  MapInv'
  BY <1>1, <1>3, <1>4, <1>7, <1>8, MapWrite
<1>9. \A k \in 0 .. Infinity : /\ [r EXCEPT !.metric = k, !.lower_timer = now] \in Rte
                               /\ [r EXCEPT !.metric = k, !.lower_timer = now].prefix = r.prefix
                               /\ [r EXCEPT !.metric = k, !.lower_timer = now].valid = r.valid
  BY <1>2 DEF Rte
<1>10. \A k \in 0 .. Infinity : Via(r, k) \in Rte /\ Via(r, k).prefix = r.prefix /\ Via(r, k).valid
  BY <1>2, CurType DEF Via, Rte
<1> HIDE DEF i, r, new
<1>11. CASE IgnoreRte(r, new)
  BY <1>1, <1>3, <1>11, MapFixed DEF IgnoreRte, TableFixed, table
<1>12. CASE Withdraw(i, r, p, new)
  BY <1>8, <1>9, <1>12, Literals DEF Withdraw
<1>13. CASE WithdrawLost(i, r, new)
  <2>1. r.prefix # p \/ trie[p].tier = "none"
    BY <1>13 DEF WithdrawLost, TrieLookup
  <2>2. i = 0 /\ r.prefix = DefaultPrefix
    BY <1>4, <2>1 DEF MapInv, ZeroSlot, r
  <2> DEFINE t == [Cleared(r) EXCEPT !.metric = Infinity]
  <2>3. t \in Rte /\ t.prefix = DefaultPrefix
    BY <1>2, Literals, ClearedType DEF Cleared, Rte
  <2>4. WriteRte(i, t, NoAddr) /\ UNCHANGED <<trie, rte_map>>
    BY <1>13 DEF WithdrawLost
  <2> HIDE DEF t
  <2> QED BY <1>1, <1>3, <1>7, <2>2, <2>3, <2>4, MapWrite DEF i, r
<1>14. CASE Worsen(i, r, p, new)
  BY <1>1, <1>8, <1>9, <1>14 DEF Worsen
<1>15. CASE SwitchHop(i, r, p, new, j)
  <2>1. r.metric \in 0 .. Infinity
    BY <1>2 DEF Rte
  <2> QED BY <1>6, <1>8, <1>10, <1>15, <2>1 DEF SwitchHop
<1>16. CASE Renew(i, r, new)
  <2>1. /\ [r EXCEPT !.lower_timer = now] \in Rte
        /\ [r EXCEPT !.lower_timer = now].prefix = r.prefix
        /\ [r EXCEPT !.lower_timer = now].valid = r.valid
    BY <1>2 DEF Rte
  <2> QED BY <1>8, <1>16, <2>1 DEF Renew
<1>17. CASE Improve(i, r, p, new, j)
  <2>1. \A q \in Prefixes : trie'[q].tier = trie[q].tier
    BY <1>6, <1>17 DEF Improve
  <2> QED BY <1>1, <1>8, <1>10, <1>17, <2>1 DEF Improve
<1> QED BY <1>11, <1>12, <1>13, <1>14, <1>15, <1>16, <1>17 DEF UpdateRoute, i, r, new

LEMMA MapResponse ==
  ASSUME TypeOK, MapInv, NEW p, NEW m, <<p, m>> \in RxRtes, ResponseRte(p, m)
  PROVE  MapInv'
<1> USE DEF TypeOK
<1>1. PICK j \in HopIndexes :
        \/ UpdateRoute(p, m, j)
        \/ SkipUnreachable(p, m)
        \/ \E tier \in Tiers : AddRoute(p, m, j, tier)
        \/ TrieFull(p, m)
  BY DEF ResponseRte
<1>2. /\ pc = "response" /\ cur.len < MaxRtes
      /\ UNCHANGED <<now, multicast_timer, sinceSweep>>
  BY DEF ResponseRte
<1>3. TableType' /\ pc' # "boot"
  BY ResponseType
<1>4. p \in Prefixes /\ Announced(p)
  BY NewMetricType DEF Announced
<1>5. CASE UpdateRoute(p, m, j)
  BY <1>2, <1>3, <1>5, MapUpdateRoute
<1>6. CASE SkipUnreachable(p, m) \/ TrieFull(p, m)
  BY <1>2, <1>3, <1>6, MapFixed DEF SkipUnreachable, TrieFull, TableFixed, table, slots
<1>7. ASSUME NEW tier \in Tiers, AddRoute(p, m, j, tier) PROVE MapInv'
  <2> DEFINE r == [prefix |-> p, metric |-> m + 1, lower_timer |-> now,
                   valid |-> TRUE, direct |-> FALSE, port |-> cur.port]
  <2>1. m + 1 \in 0 .. Infinity
    BY <1>7, NewMetricType DEF AddRoute
  <2>2. r \in Rte /\ r.prefix = p /\ r.valid
    BY <1>4, <2>1, CurType DEF Rte, ControlType
  <2>3. trie[p].tier = "none"
    BY <1>7 DEF AddRoute, TrieLookup
  <2>4. tier \in {"vc", "bt"}
    BY PrefixAssumption
  <2>5. /\ trie' = [trie EXCEPT ![p] = Placed(p, tier, j)]
        /\ rte_map' = [rte_map EXCEPT ![p] = spare_memory_index]
        /\ WriteRte(spare_memory_index, r, cur.src)
        /\ AdvanceSpare(pc)
    BY <1>7 DEF AddRoute
  <2>6. BootFresh'
    BY <1>3 DEF BootFresh
  <2> HIDE DEF r
  <2> QED BY <1>2, <1>4, <2>2, <2>3, <2>4, <2>5, <2>6, MapAdd
<1> QED BY <1>1, <1>5, <1>6, <1>7

LEMMA MapStep == TypeInv /\ MapInv /\ [Next]_vars => MapInv'
<1> SUFFICES ASSUME TypeInv, MapInv, [Next]_vars PROVE MapInv'
  OBVIOUS
<1> USE DEF TypeInv, TypeOK
<1>1. CASE config_direct_route
  BY <1>1, MapBoot
<1>2. ASSUME NEW e \in RxRtes, RequestRte(e[1]) PROVE MapInv'
  <2>1. e[1] \in Prefixes /\ pc' = "request" /\ pc = "request"
    BY <1>2, PrefixAssumption DEF RequestRte, NextRte
  <2>2. UNCHANGED spare_memory_index
    BY <1>2 DEF RequestRte, slots
  <2>3. CASE TrieLookup(e[1])
    <3>1. {rte_map[e[1]]} \subseteq Slots
      BY <2>1 DEF TableType
    <3> QED BY <1>2, <2>1, <2>2, <2>3, <3>1, MapUpdate DEF RequestRte
  <2>4. CASE ~TrieLookup(e[1])
    BY <1>2, <2>1, <2>2, <2>4, MapFixed DEF RequestRte, TableFixed, table
  <2> QED BY <2>3, <2>4
<1>3. SweepSlots \subseteq Slots
  BY SizeAssumption DEF SweepSlots, Slots, SlotType
<1>4. CASE WholeTableRequest
  BY <1>3, <1>4, MapUpdate DEF WholeTableRequest, SendTable, Done, slots
<1>5. CASE SweepPort
  BY <1>3, <1>5, MapUpdate DEF SweepPort, SendTable, slots
<1>6. ASSUME NEW e \in RxRtes, ResponseRte(e[1], e[2]) PROVE MapInv'
  <2>1. <<e[1], e[2]>> \in RxRtes
    BY PrefixAssumption
  <2> QED BY <1>6, <2>1, MapResponse
<1>7. CASE StartSweep \/ GrantInput \/ RejectPacket \/ EndPacket
  BY <1>7, MapFixed
     DEF StartSweep, GrantInput, RejectPacket, EndPacket, Done, TableFixed, table, slots
<1>8. CASE Environment
  BY <1>8, MapFixed DEF Environment, Receive, TableFixed, table, slots
<1>9. CASE Tick
  BY <1>9, MapFixed DEF Tick, TableFixed, slots
<1>10. CASE UNCHANGED vars
  <2>1. TableFixed /\ pc' = pc /\ cur' = cur
    BY <1>10 DEF vars, TableFixed
  <2> QED BY <2>1 DEF TableFixed, MapInv, MapForward, MapBackward, Tracked, ZeroSlot,
                     BinaryHeard, SpareFree, BootFresh
<1> QED BY <1>1, <1>2, <1>4, <1>5, <1>6, <1>7, <1>8, <1>9, <1>10 DEF Next, Firmware

\* Whatever neighbours send and whenever routes expire, a prefix is in the trie
\* exactly when it has one record, at rte_map[p] (disassemble and
\* update_memory_rte): for every prefix but ::/0, and for ::/0 too unless an
\* announced prefix covers another that may be in the binary trie.
THEOREM MapAlwaysConsistent == Spec => []MapConsistent
<1>1. Init => TypeInv /\ MapInv
  BY InitType, InitMap
<1>2. TypeInv /\ MapInv /\ [Next]_vars => (TypeInv /\ MapInv)'
  BY StepType, MapStep
<1>3. TypeInv /\ MapInv => MapConsistent
  BY MapInvImplies DEF TypeInv
<1> QED BY <1>1, <1>2, <1>3, PTL DEF Spec

-----------------------------------------------------------------------------
(* Direct routes.  A step writes the record of the prefix it is about or a  *)
(* free slot, and the trie at that prefix; by MapInv a direct route's       *)
(* prefix has no other record, so neither write can reach it.               *)

\* A direct route has a slot of its own and is not ::/0.
DirectInv ==
  \A i \in Slots : memory_rte[i].direct =>
    memory_rte[i].valid /\ i # 0 /\ memory_rte[i].prefix # DefaultPrefix

\* This step leaves every direct route alone.
DirectKept ==
  \A i \in Slots : memory_rte[i].direct =>
    /\ memory_rte'[i] = memory_rte[i]
    /\ trie'[memory_rte[i].prefix] = trie[memory_rte[i].prefix]

LEMMA DirectMapped ==
  ASSUME TypeOK, MapInv, DirectInv, NEW i \in Slots, memory_rte[i].direct
  PROVE  /\ memory_rte[i].valid /\ memory_rte[i].prefix \in Prefixes
         /\ memory_rte[i].prefix # DefaultPrefix
         /\ trie[memory_rte[i].prefix].tier # "none"
         /\ rte_map[memory_rte[i].prefix] = i
<1>1. memory_rte[i] \in Rte
  BY DEF TypeOK, TableType
<1>2. i # 0 /\ memory_rte[i].valid /\ memory_rte[i].prefix # DefaultPrefix
  BY DEF DirectInv
<1> QED BY <1>1, <1>2 DEF MapInv, MapBackward, Tracked, Rte

LEMMA DirectFixed ==
  ASSUME DirectInv, UNCHANGED <<memory_rte, trie>>
  PROVE  DirectInv' /\ DirectKept
BY DEF DirectInv, DirectKept

\* Ageing passes over direct routes.
LEMMA DirectUpdate ==
  ASSUME TypeOK, MapInv, DirectInv, NEW S, S \subseteq Slots, update_memory_rte(S)
  PROVE  DirectInv' /\ DirectKept
<1> DEFINE dead == {memory_rte[i].prefix : i \in {k \in S : Collected(memory_rte[k])}}
<1>1. \A i \in Slots : memory_rte'[i] = IF i \in S THEN Updated(memory_rte[i]) ELSE memory_rte[i]
  BY DEF update_memory_rte
<1>2. \A p \in Prefixes : trie'[p] = IF p \in dead THEN NoRoute ELSE trie[p]
  BY DEF update_memory_rte
<1>3. \A i \in Slots : /\ memory_rte[i].direct => memory_rte'[i] = memory_rte[i]
                       /\ memory_rte'[i].direct => memory_rte[i].direct
  <2> TAKE i \in Slots
  <2>1. memory_rte[i] \in Rte
    BY DEF TypeOK, TableType
  <2> QED BY <1>1, <2>1 DEF Updated, Cleared, Lapses, Collected, Rte
<1>4. ASSUME NEW i \in Slots, memory_rte[i].direct PROVE memory_rte[i].prefix \notin dead
  <2> SUFFICES ASSUME NEW k \in S, Collected(memory_rte[k]),
                      memory_rte[k].prefix = memory_rte[i].prefix
               PROVE  FALSE
    OBVIOUS
  <2>1. k \in Slots /\ memory_rte[k].valid /\ ~memory_rte[k].direct
    BY DEF Collected
  <2>2. memory_rte[i].prefix # DefaultPrefix /\ rte_map[memory_rte[i].prefix] = i
    BY <1>4, DirectMapped
  <2>3. k # 0
    BY <2>2 DEF MapInv, ZeroSlot
  <2>4. rte_map[memory_rte[k].prefix] = k
    BY <2>1, <2>2, <2>3 DEF MapInv, MapBackward, Tracked
  <2> QED BY <1>4, <2>1, <2>2, <2>4
<1> HIDE DEF dead
<1>5. DirectKept
  BY <1>2, <1>3, <1>4, DirectMapped DEF DirectKept
<1>6. DirectInv'
  BY <1>3 DEF DirectInv
<1> QED BY <1>5, <1>6

\* So does a write of the record a prefix maps to, if it is not direct, with a
\* change of the trie at that record's prefix.
LEMMA DirectWrite ==
  ASSUME TypeOK, MapInv, DirectInv, NEW p \in Prefixes, ~memory_rte[rte_map[p]].direct,
         NEW r, ~r.direct, NEW who, WriteRte(rte_map[p], r, who),
         \A q \in Prefixes : q # memory_rte[rte_map[p]].prefix => trie'[q] = trie[q]
  PROVE  DirectInv' /\ DirectKept
<1> DEFINE i == rte_map[p]
<1>1. i \in Slots
  BY DEF TypeOK, TableType
<1>2. \A k \in Slots : memory_rte'[k] = IF k = i THEN r ELSE memory_rte[k]
  BY <1>1 DEF WriteRte, TypeOK, TableType
<1>3. i # 0 => memory_rte[i].prefix = p
  BY DEF MapInv, MapForward
<1>4. i = 0 => memory_rte[i].prefix = DefaultPrefix
  BY DEF MapInv, ZeroSlot
<1>5. \A q \in Prefixes : q # memory_rte[i].prefix => trie'[q] = trie[q]
  OBVIOUS
<1>6. rte_map[p] = i
  OBVIOUS
<1>7. ~memory_rte[i].direct /\ ~r.direct
  OBVIOUS
<1> HIDE DEF i
<1>8. ASSUME NEW k \in Slots, memory_rte[k].direct
      PROVE  /\ memory_rte'[k] = memory_rte[k]
             /\ trie'[memory_rte[k].prefix] = trie[memory_rte[k].prefix]
  <2>1. k # i
    BY <1>7, <1>8
  <2>2. /\ memory_rte[k].prefix \in Prefixes /\ memory_rte[k].prefix # DefaultPrefix
        /\ rte_map[memory_rte[k].prefix] = k
    BY <1>8, DirectMapped
  <2>3. memory_rte[k].prefix # memory_rte[i].prefix
    BY <1>3, <1>4, <1>6, <2>1, <2>2
  <2> QED BY <1>2, <1>5, <2>1, <2>2, <2>3
<1>9. DirectKept
  BY <1>8 DEF DirectKept
<1>10. DirectInv'
  BY <1>2, <1>7 DEF DirectInv
<1> QED BY <1>9, <1>10

\* And the spare slot, taken for a prefix that is not in the trie.
LEMMA DirectAdd ==
  ASSUME TypeOK, MapInv, DirectInv, pc # "hung", NEW p \in Prefixes, trie[p].tier = "none",
         NEW t, trie' = [trie EXCEPT ![p] = t],
         NEW r, r.direct => r.valid /\ r.prefix # DefaultPrefix,
         NEW who, WriteRte(spare_memory_index, r, who)
  PROVE  DirectInv' /\ DirectKept
<1> DEFINE i == spare_memory_index
<1>1. i \in Slots \ {0} /\ ~memory_rte[i].valid
  BY SizeAssumption DEF TypeOK, SlotType, Slots, MapInv, SpareFree
<1>2. \A k \in Slots : memory_rte'[k] = IF k = i THEN r ELSE memory_rte[k]
  BY <1>1 DEF WriteRte, TypeOK, TableType
<1>3. \A q \in Prefixes : q # p => trie'[q] = trie[q]
  BY DEF TypeOK, TableType
<1> HIDE DEF i
<1>4. ASSUME NEW k \in Slots, memory_rte[k].direct
      PROVE  /\ memory_rte'[k] = memory_rte[k]
             /\ trie'[memory_rte[k].prefix] = trie[memory_rte[k].prefix]
  <2>1. /\ memory_rte[k].valid /\ memory_rte[k].prefix \in Prefixes
        /\ trie[memory_rte[k].prefix].tier # "none"
    BY <1>4, DirectMapped
  <2>2. k # i /\ memory_rte[k].prefix # p
    BY <1>1, <2>1
  <2> QED BY <1>2, <1>3, <2>1, <2>2
<1>5. DirectKept
  BY <1>4 DEF DirectKept
<1>6. DirectInv'
  BY <1>1, <1>2 DEF DirectInv
<1> QED BY <1>5, <1>6

LEMMA DirectUpdateRoute ==
  ASSUME TypeOK, MapInv, DirectInv, NEW p \in Prefixes, NEW m, NEW j, UpdateRoute(p, m, j)
  PROVE  DirectInv' /\ DirectKept
<1> DEFINE i == rte_map[p]
           r == memory_rte[i]
           new == NewMetric(m)
<1>1. r \in Rte
  BY DEF TypeOK, TableType
<1>2. \A q \in Prefixes : q # r.prefix => TrieModified(r.prefix, j)[q] = trie[q]
  BY DEF TrieModified, TypeOK, TableType
<1>3. ASSUME NEW t, NEW who, WriteRte(i, t, who), ~r.direct, ~t.direct,
             trie' = trie \/ trie' = TrieModified(r.prefix, j)
      PROVE  DirectInv' /\ DirectKept
  BY <1>2, <1>3, DirectWrite
<1>4. \A k : ~r.direct => ~[r EXCEPT !.metric = k, !.lower_timer = now].direct
  BY <1>1 DEF Rte
<1>5. \A k : ~Via(r, k).direct
  BY <1>1 DEF Via, Rte
<1>6. ~[Cleared(r) EXCEPT !.metric = Infinity].direct /\ (~r.direct => ~[r EXCEPT !.lower_timer = now].direct)
  BY <1>1 DEF Cleared, Rte
<1> HIDE DEF i, r, new
<1>7. CASE IgnoreRte(r, new)
  BY <1>7, DirectFixed DEF IgnoreRte, table
<1>8. CASE Withdraw(i, r, p, new)
  BY <1>3, <1>4, <1>8 DEF Withdraw
<1>9. CASE WithdrawLost(i, r, new)
  BY <1>3, <1>6, <1>9 DEF WithdrawLost
<1>10. CASE Worsen(i, r, p, new)
  BY <1>3, <1>4, <1>10 DEF Worsen
<1>11. CASE SwitchHop(i, r, p, new, j)
  BY <1>3, <1>5, <1>11 DEF SwitchHop
<1>12. CASE Renew(i, r, new)
  BY <1>3, <1>6, <1>12 DEF Renew
<1>13. CASE Improve(i, r, p, new, j)
  BY <1>3, <1>5, <1>13 DEF Improve
<1> QED BY <1>7, <1>8, <1>9, <1>10, <1>11, <1>12, <1>13 DEF UpdateRoute, i, r, new

LEMMA DirectResponse ==
  ASSUME TypeOK, MapInv, DirectInv, NEW p \in Prefixes, NEW m, ResponseRte(p, m)
  PROVE  DirectInv' /\ DirectKept
<1>1. PICK j \in HopIndexes :
        \/ UpdateRoute(p, m, j)
        \/ SkipUnreachable(p, m)
        \/ \E tier \in Tiers : AddRoute(p, m, j, tier)
        \/ TrieFull(p, m)
  BY DEF ResponseRte
<1>2. pc # "hung"
  BY DEF ResponseRte
<1>3. CASE UpdateRoute(p, m, j)
  BY <1>3, DirectUpdateRoute
<1>4. CASE SkipUnreachable(p, m) \/ TrieFull(p, m)
  BY <1>4, DirectFixed DEF SkipUnreachable, TrieFull, table
<1>5. ASSUME NEW tier \in Tiers, AddRoute(p, m, j, tier) PROVE DirectInv' /\ DirectKept
  <2> DEFINE r == [prefix |-> p, metric |-> m + 1, lower_timer |-> now,
                   valid |-> TRUE, direct |-> FALSE, port |-> cur.port]
  <2>1. trie[p].tier = "none"
    BY <1>5 DEF AddRoute, TrieLookup
  <2>2. ~r.direct
    OBVIOUS
  <2>3. /\ trie' = [trie EXCEPT ![p] = Placed(p, tier, j)]
        /\ WriteRte(spare_memory_index, r, cur.src)
    BY <1>5 DEF AddRoute
  <2> HIDE DEF r
  <2> QED BY <1>2, <2>1, <2>2, <2>3, DirectAdd
<1> QED BY <1>1, <1>3, <1>4, <1>5

LEMMA DirectBoot ==
  ASSUME TypeOK, MapInv, DirectInv, config_direct_route
  PROVE  DirectInv' /\ DirectKept
<1> DEFINE x == DirectPrefix[cur.port]
           r == [prefix |-> x, metric |-> 1, lower_timer |-> now,
                 valid |-> TRUE, direct |-> TRUE, port |-> cur.port]
<1>1. cur.port \in Ports /\ x \in Prefixes \ {DefaultPrefix}
  BY PrefixAssumption DEF TypeOK, ControlType
<1>2. trie[x].tier = "none" /\ pc # "hung"
  BY <1>1 DEF MapInv, BootFresh, config_direct_route, Ports
<1>3. r.valid /\ r.prefix # DefaultPrefix
  BY <1>1
<1>4. /\ trie' = [trie EXCEPT ![x] = Placed(x, "vc", spare_nexthop_index)]
      /\ WriteRte(spare_memory_index, r, NoAddr)
  BY DEF config_direct_route
<1> HIDE DEF r, x
<1> QED BY <1>1, <1>2, <1>3, <1>4, DirectAdd

LEMMA DirectStep ==
  ASSUME TypeInv, MapInv, DirectInv, [Next]_vars
  PROVE  DirectInv' /\ DirectKept
<1> USE DEF TypeInv
<1>1. SweepSlots \subseteq Slots
  BY SizeAssumption DEF SweepSlots, Slots, TypeOK, SlotType
<1>2. CASE config_direct_route
  BY <1>2, DirectBoot
<1>3. ASSUME NEW e \in RxRtes, RequestRte(e[1]) PROVE DirectInv' /\ DirectKept
  <2>1. rte_map[e[1]] \in Slots
    BY PrefixAssumption DEF TypeOK, TableType
  <2>2. CASE TrieLookup(e[1])
    BY <1>3, <2>1, <2>2, DirectUpdate DEF RequestRte
  <2>3. CASE ~TrieLookup(e[1])
    BY <1>3, <2>3, DirectFixed DEF RequestRte, table
  <2> QED BY <2>2, <2>3
<1>4. CASE WholeTableRequest \/ SweepPort
  BY <1>1, <1>4, DirectUpdate DEF WholeTableRequest, SweepPort, SendTable
<1>5. ASSUME NEW e \in RxRtes, ResponseRte(e[1], e[2]) PROVE DirectInv' /\ DirectKept
  <2>1. e[1] \in Prefixes
    BY PrefixAssumption
  <2> QED BY <1>5, <2>1, DirectResponse
<1>6. CASE StartSweep \/ GrantInput \/ RejectPacket \/ EndPacket
  BY <1>6, DirectFixed DEF StartSweep, GrantInput, RejectPacket, EndPacket, table
<1>7. CASE Environment
  BY <1>7, DirectFixed DEF Environment, Receive, table
<1>8. CASE Tick \/ UNCHANGED vars
  BY <1>8, DirectFixed DEF Tick, vars
<1> QED BY <1>2, <1>3, <1>4, <1>5, <1>6, <1>7, <1>8 DEF Next, Firmware

\* Nothing a neighbour sends, and no timer, changes the record of a direct
\* route or its entry in the trie (disassemble, update_memory_rte).
THEOREM DirectAlwaysStays == Spec => DirectStays
<1>1. Init => TypeInv /\ MapInv /\ DirectInv
  <2>1. Init => DirectInv
    BY DEF Init, DirectInv
  <2> QED BY <2>1, InitType, InitMap
<1>2. TypeInv /\ MapInv /\ DirectInv /\ [Next]_vars => (TypeInv /\ MapInv /\ DirectInv)'
  BY StepType, MapStep, DirectStep
<1>3. TypeInv /\ MapInv /\ DirectInv /\ [Next]_vars =>
        [\A i \in Slots : memory_rte[i].direct =>
           /\ memory_rte'[i] = memory_rte[i]
           /\ trie'[memory_rte[i].prefix] = trie[memory_rte[i].prefix]]_vars
  BY DirectStep DEF DirectKept
<1> QED BY <1>1, <1>2, <1>3, PTL DEF Spec, DirectStays

-----------------------------------------------------------------------------
(* Next hops.  Until spare_nexthop_index wraps, an entry once written keeps *)
(* its port, but for the default one, and no route points above the spare   *)
(* entry.                                                                   *)

\* The entries not used yet are those of a reset, and no route uses them.
HopsBelow ==
  ~hopsLapped =>
    /\ \A j \in HopIndexes : j >= spare_nexthop_index => nexthop_table[j].addr = NoAddr
    /\ \A p \in Prefixes : trie[p].tier # "none" => trie[p].nh < spare_nexthop_index

\* The next hop of a prefix leaves by the port of its record.
HopsMatch ==
  ~hopsLapped => \A p \in Prefixes :
    trie[p].tier # "none" /\ trie[p].nh # DefaultHop =>
      nexthop_table[trie[p].nh].port = memory_rte[rte_map[p]].port

\* A packet being handled has a sender.
Sender == pc \in {"request", "response"} => cur.src \in Addrs

HopInv == HopsBelow /\ HopsMatch /\ Sender /\ trie[DefaultPrefix].nh = DefaultHop

\* What a step does to the next hop table ...
HopsGrow ==
  ~hopsLapped' =>
    /\ ~hopsLapped /\ spare_nexthop_index =< spare_nexthop_index'
    /\ \A k \in HopIndexes : k >= spare_nexthop_index' => nexthop_table'[k].addr = NoAddr
    /\ \A k \in HopIndexes : k < spare_nexthop_index /\ k # DefaultHop =>
         nexthop_table'[k].port = nexthop_table[k].port
\* ... and to prefix p: it keeps its next hop and port, or gets both anew.
PortKept(p) ==
  /\ trie[p].tier # "none" /\ trie'[p].nh = trie[p].nh
  /\ memory_rte'[rte_map'[p]].port = memory_rte[rte_map[p]].port
PortNew(p) ==
  /\ trie'[p].nh \in HopIndexes
  /\ ~hopsLapped' => /\ trie'[p].nh < spare_nexthop_index'
                     /\ trie'[p].nh # DefaultHop =>
                          nexthop_table'[trie'[p].nh].port = memory_rte'[rte_map'[p]].port

LEMMA HopInvImplies == TypeOK /\ MapInv /\ HopInv => HopPortAgrees
<1> SUFFICES ASSUME TypeOK, MapInv, HopInv, ~hopsLapped, NEW i \in Slots, Listed(i),
                    trie[memory_rte[i].prefix].nh # DefaultHop
             PROVE  LeavesBy(i)
  BY DEF HopPortAgrees
<1> DEFINE p == memory_rte[i].prefix
<1>1. p \in Prefixes /\ p # DefaultPrefix
  BY DEF TypeOK, TableType, Rte, HopInv
<1>2. trie[p].tier # "none" /\ rte_map[p] = i
  BY <1>1 DEF MapInv, MapBackward, Tracked, Listed
<1> QED BY <1>1, <1>2 DEF HopInv, HopsMatch, LeavesBy

LEMMA HopKeeps ==
  ASSUME TypeOK, HopType', HopInv, HopsGrow, Sender', trie'[DefaultPrefix].nh = DefaultHop,
         \A p \in Prefixes \ {DefaultPrefix} :
           trie'[p].tier # "none" => PortKept(p) \/ PortNew(p)
  PROVE  HopInv'
<1>1. /\ spare_nexthop_index \in Int /\ spare_nexthop_index > DefaultHop
      /\ spare_nexthop_index' \in Int /\ spare_nexthop_index' > DefaultHop
  BY SizeAssumption DEF TypeOK, HopType, FirstSpareHop, DefaultHop
<1>2. \A p \in Prefixes : trie[p].nh \in HopIndexes
  BY DEF TypeOK, TableType, TrieEntry
<1>3. \A k \in HopIndexes : k \in Int
  BY DEF HopIndexes
<1>4. HopsBelow'
  BY <1>1, <1>2, <1>3 DEF HopsBelow, HopsGrow, HopInv, PortKept, PortNew
<1>5. HopsMatch'
  BY <1>1, <1>2, <1>3 DEF HopsMatch, HopsBelow, HopsGrow, HopInv, PortKept, PortNew
<1> QED BY <1>4, <1>5 DEF HopInv

\* The sender's entry is one in use, or the spare or default one, written now.
LEMMA HopFound ==
  ASSUME TypeOK, HopInv, NoAddr \notin Addrs, pc \in {"request", "response"},
         NEW fresh \in {DefaultHop, spare_nexthop_index}, NEW j,
         FindOrAddHop(cur.src, cur.port, DefaultHop, fresh, j)
  PROVE  /\ HopsGrow /\ HopType' /\ j \in HopIndexes
         /\ ~hopsLapped' => j < spare_nexthop_index' /\ nexthop_table'[j].port = cur.port
<1>1. cur.src # NoAddr /\ cur.src \in Addrs /\ cur.port \in Ports
  BY DEF HopInv, Sender, TypeOK, ControlType
<1>2. /\ spare_nexthop_index \in HopIndexes /\ spare_nexthop_index \in Int
      /\ spare_nexthop_index > DefaultHop /\ DefaultHop \in HopIndexes
      /\ \A k \in HopIndexes : k \in Int
  BY SizeAssumption DEF TypeOK, HopType, FirstSpareHop, DefaultHop, HopIndexes
<1>3. HopType' /\ j \in HopIndexes
  BY <1>1, <1>2, HopTypes DEF TypeOK
<1>4. nexthop_table \in [HopIndexes -> HopEntry]
  BY DEF TypeOK, HopType
<1>5. CASE j \in Hops(cur.src, cur.port, DefaultHop) /\ UNCHANGED hops
  <2>1. nexthop_table[j].addr = cur.src /\ nexthop_table[j].port = cur.port
    BY <1>5 DEF Hops
  <2>2. ~hopsLapped => j < spare_nexthop_index
    BY <1>1, <1>2, <1>3, <2>1 DEF HopInv, HopsBelow
  <2>3. HopsGrow
    BY <1>2, <1>5 DEF hops, HopsGrow, HopInv, HopsBelow
  <2> QED BY <1>3, <1>5, <2>1, <2>2, <2>3 DEF hops
<1>6. CASE /\ j = fresh
           /\ nexthop_table' = [nexthop_table EXCEPT ![j] = [addr |-> cur.src, port |-> cur.port]]
           /\ spare_nexthop_index' = IF spare_nexthop_index + 1 = NEXTHOP_TABLE_INDEX_NUM
                                     THEN FirstSpareHop ELSE spare_nexthop_index + 1
           /\ hopsLapped' = (hopsLapped \/ spare_nexthop_index' = FirstSpareHop)
  <2>1. nexthop_table'[j].port = cur.port
    BY <1>3, <1>4, <1>6
  <2>2. \A k \in HopIndexes : k # j => nexthop_table'[k] = nexthop_table[k]
    BY <1>4, <1>6
  <2>3. ~hopsLapped' => ~hopsLapped /\ spare_nexthop_index' = spare_nexthop_index + 1
    BY <1>6
  <2>4. HopsGrow
    <3> SUFFICES ASSUME ~hopsLapped' PROVE HopsGrow
      BY DEF HopsGrow
    <3>1. \A k \in HopIndexes :
            k >= spare_nexthop_index' \/ (k < spare_nexthop_index /\ k # DefaultHop) =>
              k # j
      BY <1>2, <1>6, <2>3
    <3>2. \A k \in HopIndexes : k >= spare_nexthop_index => nexthop_table[k].addr = NoAddr
      BY <2>3 DEF HopInv, HopsBelow
    <3>3. \A k \in HopIndexes :
            k >= spare_nexthop_index' => k >= spare_nexthop_index /\ k # j
      BY <1>2, <2>3, <3>1
    <3> QED BY <1>2, <2>2, <2>3, <3>1, <3>2, <3>3 DEF HopsGrow
  <2> QED BY <1>2, <1>3, <1>6, <2>1, <2>3, <2>4
<1> QED BY <1>5, <1>6 DEF FindOrAddHop

LEMMA HopsSame ==
  ASSUME TypeOK, HopInv, UNCHANGED hops
  PROVE  HopsGrow
<1>1. spare_nexthop_index \in Int
  BY SizeAssumption DEF TypeOK, HopType, FirstSpareHop
<1> QED BY <1>1 DEF HopInv, HopsBelow, HopsGrow, hops

LEMMA HopFixed ==
  ASSUME HopInv, HopsGrow, TypeOK, HopType', Sender', UNCHANGED <<trie, rte_map, memory_rte>>
  PROVE  HopInv'
<1>1. \A p \in Prefixes : trie'[p].tier # "none" => PortKept(p)
  BY DEF PortKept
<1>2. trie'[DefaultPrefix].nh = DefaultHop
  BY DEF HopInv
<1> QED BY <1>1, <1>2, HopKeeps

LEMMA HopUpdate ==
  ASSUME TypeOK, MapInv, HopInv, HopsGrow, HopType', Sender',
         NEW S, S \subseteq Slots, update_memory_rte(S)
  PROVE  HopInv'
<1> DEFINE dead == {memory_rte[i].prefix : i \in {k \in S : Collected(memory_rte[k])}}
<1>1. \A i \in Slots : memory_rte'[i] = IF i \in S THEN Updated(memory_rte[i]) ELSE memory_rte[i]
  BY DEF update_memory_rte
<1>2. \A p \in Prefixes : /\ trie'[p] = IF p \in dead THEN NoRoute ELSE trie[p]
                          /\ rte_map'[p] = IF p \in dead THEN 0 ELSE rte_map[p]
  BY DEF update_memory_rte
<1>3. ASSUME NEW p \in Prefixes, trie'[p].tier # "none" PROVE PortKept(p)
  <2> DEFINE i == rte_map[p]
  <2>1. p \notin dead
    BY <1>2, <1>3 DEF NoRoute
  <2>2. trie'[p] = trie[p] /\ rte_map'[p] = i
    BY <1>2, <2>1
  <2>3. /\ i \in Slots /\ memory_rte[i] \in Rte
        /\ memory_rte[i].valid /\ memory_rte[i].prefix = p
    BY <1>3, <2>2 DEF MapInv, MapForward, TypeOK, TableType
  <2>4. ~(i \in S /\ Collected(memory_rte[i]))
    BY <2>1, <2>3
  <2> HIDE DEF i
  <2>5. memory_rte'[i].port = memory_rte[i].port
    BY <1>1, <2>3, <2>4 DEF Updated, Rte
  <2> QED BY <1>3, <2>2, <2>5 DEF PortKept, i
<1>4. trie'[DefaultPrefix].nh = DefaultHop
  BY <1>2, Literals DEF HopInv, NoRoute
<1> QED BY <1>3, <1>4, HopKeeps

\* Rewriting the record of prefix p: the trie is told of a new port.
LEMMA HopWrite ==
  ASSUME TypeOK, MapInv, HopInv, HopsGrow, HopType', Sender',
         NEW p \in Prefixes, NEW r, NEW who, WriteRte(rte_map[p], r, who),
         NEW j \in HopIndexes,
         ~hopsLapped' => j < spare_nexthop_index' /\ nexthop_table'[j].port = cur.port,
         \/ trie' = trie /\ r.port = memory_rte[rte_map[p]].port
         \/ trie' = trie /\ rte_map[p] = 0
         \/ trie' = TrieModified(memory_rte[rte_map[p]].prefix, j) /\ r.port = cur.port,
         UNCHANGED rte_map
  PROVE  HopInv'
<1> DEFINE i == rte_map[p]
<1>1. i \in Slots /\ \A q \in Prefixes : rte_map[q] \in Slots
  BY DEF TypeOK, TableType
<1>2. \A k \in Slots : memory_rte'[k] = IF k = i THEN r ELSE memory_rte[k]
  BY <1>1 DEF WriteRte, TypeOK, TableType
<1>3. \A q \in Prefixes : TrieModified(memory_rte[i].prefix, j)[q] =
        IF q = memory_rte[i].prefix /\ q # DefaultPrefix
        THEN [trie[q] EXCEPT !.nh = j] ELSE trie[q]
  BY DEF TrieModified, TypeOK, TableType
<1>4. \A q \in Prefixes : [trie[q] EXCEPT !.nh = j].tier = trie[q].tier
                          /\ [trie[q] EXCEPT !.nh = j].nh = j
  BY DEF TypeOK, TableType, TrieEntry
<1>5. (i # 0 => memory_rte[i].prefix = p) /\ (i = 0 => memory_rte[i].prefix = DefaultPrefix)
  BY DEF MapInv, MapForward, ZeroSlot
<1>6. rte_map[p] = i /\ rte_map' = rte_map
  OBVIOUS
<1>7. \/ trie' = trie /\ r.port = memory_rte[i].port
      \/ trie' = trie /\ i = 0
      \/ trie' = TrieModified(memory_rte[i].prefix, j) /\ r.port = cur.port
  OBVIOUS
<1> HIDE DEF i
<1>8. ASSUME NEW q \in Prefixes \ {DefaultPrefix}, trie'[q].tier # "none"
      PROVE  PortKept(q) \/ PortNew(q)
  <2>1. trie[q].tier # "none"
    BY <1>3, <1>4, <1>7, <1>8
  <2>2. rte_map[q] # 0 /\ memory_rte[rte_map[q]].prefix = q
    BY <2>1 DEF MapInv, MapForward
  <2>3. CASE rte_map[q] # i
    <3>1. q # memory_rte[i].prefix
      BY <1>5, <1>6, <2>3
    <3>2. trie'[q] = trie[q]
      BY <1>3, <1>7, <3>1
    <3> QED BY <1>1, <1>2, <1>6, <2>1, <2>3, <3>2 DEF PortKept
  <2>4. CASE rte_map[q] = i
    <3>1. i # 0 /\ q = memory_rte[i].prefix
      BY <2>2, <2>4
    <3>2. memory_rte'[rte_map'[q]] = r
      BY <1>1, <1>2, <1>6, <2>4
    <3>3. CASE trie' = trie /\ r.port = memory_rte[i].port
      BY <2>1, <2>4, <3>2, <3>3 DEF PortKept
    <3>4. CASE trie' = TrieModified(memory_rte[i].prefix, j) /\ r.port = cur.port
      <4>1. trie'[q].nh = j
        BY <1>3, <1>4, <1>8, <3>1, <3>4
      <4> QED BY <3>2, <3>4, <4>1 DEF PortNew
    <3> QED BY <1>7, <3>1, <3>3, <3>4
  <2> QED BY <2>3, <2>4
<1>9. trie'[DefaultPrefix].nh = DefaultHop
  BY <1>3, <1>7, Literals DEF HopInv
<1> QED BY <1>8, <1>9, HopKeeps

LEMMA HopAdd ==
  ASSUME TypeOK, MapInv, HopInv, HopsGrow, HopType', Sender', pc # "hung",
         NEW p \in Prefixes, NEW tier, NEW j \in HopIndexes,
         trie' = [trie EXCEPT ![p] = Placed(p, tier, j)],
         rte_map' = [rte_map EXCEPT ![p] = spare_memory_index],
         NEW r, NEW who, WriteRte(spare_memory_index, r, who),
         ~hopsLapped' => j < spare_nexthop_index' /\ nexthop_table'[j].port = r.port
  PROVE  HopInv'
<1> DEFINE i == spare_memory_index
<1>1. i \in Slots \ {0} /\ ~memory_rte[i].valid
  BY SizeAssumption DEF TypeOK, SlotType, Slots, MapInv, SpareFree
<1>2. \A k \in Slots : memory_rte'[k] = IF k = i THEN r ELSE memory_rte[k]
  BY <1>1 DEF WriteRte, TypeOK, TableType
<1>3. \A q \in Prefixes : /\ trie'[q] = IF q = p THEN Placed(p, tier, j) ELSE trie[q]
                          /\ rte_map'[q] = IF q = p THEN i ELSE rte_map[q]
  BY DEF TypeOK, TableType
<1> HIDE DEF i
<1>4. ASSUME NEW q \in Prefixes \ {DefaultPrefix}, trie'[q].tier # "none"
      PROVE  PortKept(q) \/ PortNew(q)
  <2>1. CASE q = p
    <3>1. trie'[q].nh = j /\ memory_rte'[rte_map'[q]] = r
      BY <1>1, <1>2, <1>3, <1>4, <2>1 DEF Placed
    <3> QED BY <3>1 DEF PortNew
  <2>2. CASE q # p
    <3>1. trie'[q] = trie[q] /\ rte_map'[q] = rte_map[q]
      BY <1>3, <2>2
    <3>2. memory_rte[rte_map[q]].valid /\ rte_map[q] \in Slots
      BY <1>4, <3>1 DEF MapInv, MapForward, TypeOK, TableType
    <3>3. memory_rte'[rte_map[q]] = memory_rte[rte_map[q]]
      BY <1>1, <1>2, <3>2
    <3> QED BY <1>4, <3>1, <3>3 DEF PortKept
  <2> QED BY <2>1, <2>2
<1>5. trie'[DefaultPrefix].nh = DefaultHop
  BY <1>3, Literals DEF HopInv, Placed
<1> QED BY <1>4, <1>5, HopKeeps

LEMMA HopUpdateRoute ==
  ASSUME TypeOK, MapInv, HopInv, HopsGrow, HopType', Sender',
         NEW p \in Prefixes, NEW m, NEW j \in HopIndexes, UpdateRoute(p, m, j),
         ~hopsLapped' => j < spare_nexthop_index' /\ nexthop_table'[j].port = cur.port
  PROVE  HopInv'
<1> DEFINE i == rte_map[p]
           r == memory_rte[i]
           new == NewMetric(m)
<1>1. r \in Rte
  BY DEF TypeOK, TableType
<1>2. ASSUME NEW t, NEW who, WriteRte(i, t, who), UNCHANGED rte_map,
             \/ trie' = trie /\ t.port = r.port
             \/ trie' = trie /\ i = 0
             \/ trie' = TrieModified(r.prefix, j) /\ t.port = cur.port
      PROVE  HopInv'
  BY <1>2, HopWrite
<1>3. \A k : [r EXCEPT !.metric = k, !.lower_timer = now].port = r.port
  BY <1>1 DEF Rte
<1>4. [r EXCEPT !.lower_timer = now].port = r.port
  BY <1>1 DEF Rte
<1>5. \A k : Via(r, k).port = cur.port
  BY <1>1 DEF Via, Rte
<1>6. i # 0 => r.prefix = p /\ trie[p].tier # "none"
  BY DEF MapInv, MapForward
<1> HIDE DEF i, r, new
<1>7. CASE IgnoreRte(r, new)
  BY <1>7, HopFixed DEF IgnoreRte, table
<1>8. CASE Withdraw(i, r, p, new)
  BY <1>2, <1>3, <1>8 DEF Withdraw
<1>9. CASE WithdrawLost(i, r, new)
  <2>1. i = 0
    BY <1>6, <1>9 DEF UpdateRoute, WithdrawLost, TrieLookup
  <2> QED BY <1>2, <1>9, <2>1 DEF WithdrawLost
<1>10. CASE Worsen(i, r, p, new)
  BY <1>2, <1>3, <1>10 DEF Worsen
<1>11. CASE SwitchHop(i, r, p, new, j)
  BY <1>2, <1>5, <1>11 DEF SwitchHop
<1>12. CASE Renew(i, r, new)
  BY <1>2, <1>4, <1>12 DEF Renew
<1>13. CASE Improve(i, r, p, new, j)
  BY <1>2, <1>5, <1>13 DEF Improve, SameHop
<1> QED BY <1>7, <1>8, <1>9, <1>10, <1>11, <1>12, <1>13 DEF UpdateRoute, i, r, new

LEMMA HopResponse ==
  ASSUME TypeOK, MapInv, HopInv, NoAddr \notin Addrs, NEW p \in Prefixes, NEW m,
         ResponseRte(p, m), Sender'
  PROVE  HopInv'
<1>1. PICK j \in HopIndexes :
        /\ FindOrAddHop(cur.src, cur.port, DefaultHop,
                        IF cur.len = 0 THEN DefaultHop ELSE spare_nexthop_index, j)
        /\ \/ UpdateRoute(p, m, j)
           \/ SkipUnreachable(p, m)
           \/ \E tier \in Tiers : AddRoute(p, m, j, tier)
           \/ TrieFull(p, m)
  BY DEF ResponseRte
<1>2. pc = "response"
  BY DEF ResponseRte
<1>3. /\ HopsGrow /\ HopType'
      /\ ~hopsLapped' => j < spare_nexthop_index' /\ nexthop_table'[j].port = cur.port
  BY <1>1, <1>2, HopFound
<1>4. CASE UpdateRoute(p, m, j)
  BY <1>3, <1>4, HopUpdateRoute
<1>5. CASE SkipUnreachable(p, m) \/ TrieFull(p, m)
  BY <1>3, <1>5, HopFixed DEF SkipUnreachable, TrieFull, table
<1>6. ASSUME NEW tier \in Tiers, AddRoute(p, m, j, tier) PROVE HopInv'
  <2> DEFINE r == [prefix |-> p, metric |-> m + 1, lower_timer |-> now,
                   valid |-> TRUE, direct |-> FALSE, port |-> cur.port]
  <2>1. r.port = cur.port
    OBVIOUS
  <2>2. /\ trie' = [trie EXCEPT ![p] = Placed(p, tier, j)]
        /\ rte_map' = [rte_map EXCEPT ![p] = spare_memory_index]
        /\ WriteRte(spare_memory_index, r, cur.src)
    BY <1>6 DEF AddRoute
  <2> HIDE DEF r
  <2> QED BY <1>2, <1>3, <2>1, <2>2, HopAdd
<1> QED BY <1>1, <1>4, <1>5, <1>6

LEMMA HopBoot ==
  ASSUME TypeInv, HopType', MapInv, HopInv, config_direct_route
  PROVE  HopInv'
<1> DEFINE s == spare_nexthop_index
           x == DirectPrefix[cur.port]
           r == [prefix |-> x, metric |-> 1, lower_timer |-> now,
                 valid |-> TRUE, direct |-> TRUE, port |-> cur.port]
           hop == [nexthop_table EXCEPT ![s] = [addr |-> x, port |-> cur.port]]
<1>1. /\ x \in Prefixes /\ cur.port \in Ports /\ pc = "boot"
  BY PrefixAssumption DEF TypeInv, TypeOK, ControlType, config_direct_route
<1>2. /\ s \in HopIndexes /\ s > DefaultHop /\ DefaultHop \in HopIndexes
      /\ \A k \in HopIndexes : k \in Int
  BY SizeAssumption DEF TypeInv, TypeOK, HopType, HopIndexes, FirstSpareHop, DefaultHop
<1>3. nexthop_table \in [HopIndexes -> HopEntry]
  BY DEF TypeInv, TypeOK, HopType
<1>4. \A k \in HopIndexes : hop[k] = IF k = s THEN [addr |-> x, port |-> cur.port]
                                             ELSE nexthop_table[k]
  BY <1>3
<1>5. \A k \in HopIndexes \ {DefaultHop} : nexthop_table'[k] = hop[k]
  <2>1. hop \in [HopIndexes -> [addr : Addrs \cup Prefixes \cup {NoAddr}, port : Ports]]
    BY <1>1, <1>2, <1>3 DEF HopEntry
  <2>2. \/ nexthop_table' = hop
        \/ nexthop_table' = [hop EXCEPT ![DefaultHop].addr = x]
    BY DEF config_direct_route
  <2> HIDE DEF hop
  <2> QED BY <2>1, <2>2
<1>6. spare_nexthop_index' = s + 1 /\ hopsLapped' = hopsLapped
  BY DEF config_direct_route
<1> HIDE DEF hop
<1>7. HopsGrow
  BY <1>2, <1>4, <1>5, <1>6 DEF HopsGrow, HopInv, HopsBelow
<1>8. s < spare_nexthop_index' /\ nexthop_table'[s].port = cur.port
  BY <1>2, <1>4, <1>5, <1>6
<1>9. /\ trie' = [trie EXCEPT ![x] = Placed(x, "vc", s)]
      /\ rte_map' = [rte_map EXCEPT ![x] = spare_memory_index]
      /\ WriteRte(spare_memory_index, r, NoAddr) /\ r.port = cur.port
  BY DEF config_direct_route
<1>10. Sender'
  <2>1. pc' \in {"boot", "idle", "hung"}
    BY DEF config_direct_route, AdvanceSpare
  <2> QED BY <2>1 DEF Sender
<1> HIDE DEF r, x, s
<1> QED BY <1>1, <1>2, <1>7, <1>8, <1>9, <1>10, HopAdd DEF TypeInv

LEMMA SenderStep ==
  ASSUME Sender, ControlType, [Next]_vars
  PROVE  Sender'
<1> USE DEF Sender
<1>1. CASE config_direct_route
  BY <1>1 DEF config_direct_route, AdvanceSpare
<1>2. CASE Environment
  BY <1>2 DEF Environment, Receive, Addrs
<1>3. CASE \E e \in RxRtes : RequestRte(e[1])
  BY <1>3 DEF RequestRte, NextRte, ControlType
<1>4. ASSUME NEW e \in RxRtes, ResponseRte(e[1], e[2]) PROVE Sender'
  <2>1. NextRte => Sender'
    BY <1>4 DEF NextRte, ResponseRte, ControlType
  <2>2. Done => Sender'
    BY DEF Done
  <2>3. ASSUME NEW j, UpdateRoute(e[1], e[2], j) PROVE Sender'
    BY <2>1, <2>2, <2>3
       DEF UpdateRoute, IgnoreRte, Withdraw, WithdrawLost, Worsen, SwitchHop, Renew, Improve
  <2>4. ASSUME NEW j, NEW tier, AddRoute(e[1], e[2], j, tier) PROVE Sender'
    BY <1>4, <2>4 DEF AddRoute, AdvanceSpare, ResponseRte, ControlType
  <2> QED BY <1>4, <2>1, <2>2, <2>3, <2>4 DEF ResponseRte, SkipUnreachable, TrieFull
<1>5. CASE WholeTableRequest \/ StartSweep \/ GrantInput \/ RejectPacket \/ EndPacket
  BY <1>5 DEF WholeTableRequest, StartSweep, GrantInput, RejectPacket, EndPacket, Done
<1>6. CASE SweepPort
  BY <1>6 DEF SweepPort
<1>7. CASE Tick \/ UNCHANGED vars
  BY <1>7 DEF Tick, vars
<1> QED BY <1>1, <1>2, <1>3, <1>4, <1>5, <1>6, <1>7 DEF Next, Firmware

LEMMA HopStep ==
  ASSUME TypeInv, MapInv, HopInv, NoAddr \notin Addrs, [Next]_vars
  PROVE  HopInv'
<1> USE DEF TypeInv
<1>1. Sender' /\ HopType'
  BY SenderStep, StepType DEF HopInv, TypeOK
<1>2. SweepSlots \subseteq Slots
  BY SizeAssumption DEF SweepSlots, Slots, TypeOK, SlotType
<1>3. CASE config_direct_route
  BY <1>1, <1>3, HopBoot
<1>4. ASSUME NEW e \in RxRtes, RequestRte(e[1]) PROVE HopInv'
  <2>1. HopsGrow
    BY <1>4, HopFound DEF RequestRte
  <2>2. rte_map[e[1]] \in Slots
    BY PrefixAssumption DEF TypeOK, TableType
  <2>3. CASE TrieLookup(e[1])
    BY <1>1, <1>4, <2>1, <2>2, <2>3, HopUpdate DEF RequestRte
  <2>4. CASE ~TrieLookup(e[1])
    BY <1>1, <1>4, <2>1, <2>4, HopFixed DEF RequestRte, table
  <2> QED BY <2>3, <2>4
<1>5. CASE WholeTableRequest
  <2>1. HopsGrow
    BY <1>5, HopFound DEF WholeTableRequest
  <2> QED BY <1>1, <1>2, <1>5, <2>1, HopUpdate DEF WholeTableRequest, SendTable
<1>6. CASE SweepPort
  BY <1>1, <1>2, <1>6, HopsSame, HopUpdate DEF SweepPort, SendTable
<1>7. ASSUME NEW e \in RxRtes, ResponseRte(e[1], e[2]) PROVE HopInv'
  <2>1. e[1] \in Prefixes
    BY PrefixAssumption
  <2> QED BY <1>1, <1>7, <2>1, HopResponse
<1>8. CASE StartSweep \/ GrantInput \/ RejectPacket \/ EndPacket
  BY <1>1, <1>8, HopsSame, HopFixed DEF StartSweep, GrantInput, RejectPacket, EndPacket, table
<1>9. CASE Environment
  BY <1>1, <1>9, HopsSame, HopFixed DEF Environment, Receive, table
<1>10. CASE Tick \/ UNCHANGED vars
  BY <1>1, <1>10, HopsSame, HopFixed DEF Tick, vars, hops
<1> QED BY <1>3, <1>4, <1>5, <1>6, <1>7, <1>8, <1>9, <1>10 DEF Next, Firmware

\* The next hop the datapath finds for a route leaves by the port the firmware
\* holds for it (get_nexthop and disassemble): for every entry but the default
\* one, until spare_nexthop_index wraps, when no neighbour sends from the zero
\* address, which is what a reset leaves in an entry.
THEOREM HopPortsAgree ==
  ASSUME NoAddr \notin Addrs
  PROVE  Spec => []HopPortAgrees
<1>1. Init => TypeInv /\ MapInv /\ HopInv
  <2>1. Init => HopInv
    BY Literals DEF Init, HopInv, HopsBelow, HopsMatch, Sender, NoRoute
  <2> QED BY <2>1, InitType, InitMap
<1>2. TypeInv /\ MapInv /\ HopInv /\ [Next]_vars => (TypeInv /\ MapInv /\ HopInv)'
  BY StepType, MapStep, HopStep
<1>3. TypeInv /\ MapInv /\ HopInv => HopPortAgrees
  BY HopInvImplies DEF TypeInv
<1> QED BY <1>1, <1>2, <1>3, PTL DEF Spec

-----------------------------------------------------------------------------
(* What is sent.  The answers of a packet are collected RTE by RTE while the *)
(* RTEs change the table, so an answer can be out of date when it is sent;   *)
(* the last answer for each prefix is not, because an RTE changes what is    *)
(* heard of no prefix but its own.                                           *)

\* The places of the last answers for their prefixes.
LastPlaces(s) == {k \in 1 .. Len(s) : \A l \in k + 1 .. Len(s) : s[l].prefix # s[k].prefix}

\* The last answers collected so far are what the table says.
PendingTrue ==
  pc \in {"request", "response"} =>
    \A k \in LastPlaces(pending) : \A q \in Recipients :
      pending[k].metric[q] \in Heard(pending[k].prefix, q)

\* Nothing is left over from one packet to the next.
PendingFresh ==
  pc # "hung" /\ (pc \notin {"request", "response"} \/ cur.len = 0) => pending = <<>>

BootSilent == pc = "boot" => sent = Silent

PendingInv == PendingTrue /\ PendingFresh /\ BootSilent

SentTrue == \A q \in Ports : \A a \in sent'[q] : a.metric \in Heard(a.prefix, q)'

\* Prefix x sounds the same on every port after the step.
Same(x) == \A q \in Ports : Heard(x, q)' = Heard(x, q)

Extends(t, s, e) ==
  /\ Len(s) \in Nat /\ Len(t) = Len(s) + 1 /\ t[Len(s) + 1] = e
  /\ \A i \in 1 .. Len(s) : t[i] = s[i]

LEMMA LastPlacesExtend ==
  ASSUME NEW s, NEW e, NEW t, Extends(t, s, e), NEW k \in LastPlaces(t)
  PROVE  t[k] = e \/ (k \in LastPlaces(s) /\ t[k] = s[k] /\ s[k].prefix # e.prefix)
<1>1. /\ Len(s) \in Nat /\ Len(t) = Len(s) + 1 /\ t[Len(s) + 1] = e
      /\ \A i \in 1 .. Len(s) : t[i] = s[i]
  BY DEF Extends
<1>2. k \in 1 .. Len(t) /\ \A l \in k + 1 .. Len(t) : t[l].prefix # t[k].prefix
  BY DEF LastPlaces
<1>3. CASE k # Len(s) + 1
  <2>1. k \in 1 .. Len(s)
    BY <1>1, <1>2, <1>3
  <2>2. e.prefix # s[k].prefix
    BY <1>1, <1>2, <2>1
  <2>3. \A l \in k + 1 .. Len(s) : s[l].prefix # s[k].prefix
    BY <1>1, <1>2, <2>1
  <2> QED BY <1>1, <2>1, <2>2, <2>3 DEF LastPlaces
<1> QED BY <1>1, <1>3

\* A list whose last answers are true is sent as true adverts.
LEMMA SendTrue ==
  ASSUME NEW s, SendPending(s),
         \A k \in LastPlaces(s) : \A q \in Recipients : \A y :
           y = s[k].prefix => s[k].metric[q] \in Heard(y, q)'
  PROVE  SentTrue
<1> SUFFICES ASSUME NEW q \in Ports, NEW a \in sent'[q]
             PROVE  a.metric \in Heard(a.prefix, q)'
  BY DEF SentTrue
<1>1. q \in Recipients /\ a \in LastWord(s, q)
  BY DEF SendPending
<1>2. PICK k \in LastPlaces(s) : a = [prefix |-> s[k].prefix, metric |-> s[k].metric[q]]
  BY <1>1 DEF LastWord, LastPlaces
<1>3. a.prefix = s[k].prefix /\ a.metric = s[k].metric[q]
  BY <1>2
<1>4. PICK y : y = s[k].prefix
  OBVIOUS
<1>5. s[k].metric[q] \in Heard(y, q)'
  BY <1>1, <1>4
<1> QED BY <1>3, <1>4, <1>5

LEMMA SilentTrue ==
  ASSUME sent' = Silent
  PROVE  SentTrue
BY DEF Silent, SentTrue

\* Queueing a true answer for x, when nothing else changes what is heard.
LEMMA QueueTrue ==
  ASSUME TypeOK, PendingTrue, pc \in {"request", "response"}, pc' \in {pc, "hung"},
         cur'.port = cur.port, NEW x \in Prefixes,
         NEW metric \in [Ports -> 0 .. Infinity], Queue(x, metric),
         \A q \in Recipients : metric[q] \in Heard(x, q)',
         \A y \in Prefixes \ {x} : Same(y)
  PROVE  SentTrue /\ PendingTrue'
<1> DEFINE e == [prefix |-> x, metric |-> metric]
           s == Append(pending, e)
<1>1. pending \in Seq(Answer) /\ e \in Answer
  BY DEF TypeOK, ControlType, Answer
<1>2. Recipients \subseteq Ports
  BY DEF Recipients, TypeOK, ControlType
<1>3. e.prefix = x /\ e.metric = metric
  OBVIOUS
<1>0. Extends(s, pending, e)
  BY <1>1 DEF Extends
<1> HIDE DEF e, s
<1>4. ASSUME NEW k \in LastPlaces(s), NEW q \in Recipients, NEW y, y = s[k].prefix
      PROVE  s[k].metric[q] \in Heard(y, q)'
  <2>1. CASE s[k] = e
    <3>1. y = x /\ s[k].metric[q] = metric[q]
      BY <1>3, <1>4, <2>1
    <3> QED BY <1>4, <3>1
  <2>2. CASE k \in LastPlaces(pending) /\ s[k] = pending[k] /\ pending[k].prefix # x
    <3>1. y \in Prefixes /\ y # x /\ q \in Ports
      <4>1. k \in 1 .. Len(pending)
        BY <2>2 DEF LastPlaces
      <4>2. pending[k] \in Answer
        BY <1>1, <4>1
      <4>3. pending[k].prefix \in Prefixes
        BY <4>2 DEF Answer
      <4>4. y = pending[k].prefix /\ y # x
        BY <1>4, <2>2
      <4> QED BY <1>2, <1>4, <4>3, <4>4
    <3>2. Heard(y, q)' = Heard(y, q)
      BY <3>1 DEF Same
    <3>3. pending[k].metric[q] \in Heard(pending[k].prefix, q)
      BY <1>4, <2>2 DEF PendingTrue
    <3>4. y = pending[k].prefix
      BY <1>4, <2>2
    <3> QED BY <2>2, <3>2, <3>3, <3>4
  <2>3. \/ s[k] = e
        \/ k \in LastPlaces(pending) /\ s[k] = pending[k] /\ pending[k].prefix # e.prefix
    BY <1>0, <1>4, LastPlacesExtend
  <2> QED BY <1>3, <2>1, <2>2, <2>3
<1>5. CASE pending' = <<>> /\ SendPending(s)
  <2>1. SentTrue
    BY <1>4, <1>5, SendTrue
  <2>2. LastPlaces(<<>>) = {}
    BY DEF LastPlaces
  <2> QED BY <1>5, <2>1, <2>2 DEF PendingTrue
<1>6. CASE pending' = s /\ sent' = Silent
  <2>1. pc' \in {"request", "response"} => Recipients' = Recipients
    BY DEF Recipients
  <2>2. PendingTrue'
    BY <1>4, <1>6, <2>1 DEF PendingTrue
  <2> QED BY <1>6, <2>2, SilentTrue
<1> QED BY <1>5, <1>6 DEF Queue, s, e

LEMMA EmptyTrue ==
  ASSUME pending' = <<>>, pc' # "boot"
  PROVE  PendingInv'
<1>1. LastPlaces(<<>>) = {}
  BY DEF LastPlaces
<1> QED BY <1>1 DEF PendingInv, PendingTrue, PendingFresh, BootSilent

\* A step that sends nothing and changes nothing that is heard.
LEMMA QuietTrue ==
  ASSUME TypeOK, PendingTrue, UNCHANGED pending, sent' = Silent,
         pc' \in {"request", "response"} => pc' = pc /\ cur'.port = cur.port,
         \A y \in Prefixes : Same(y)
  PROVE  SentTrue /\ PendingTrue'
<1>1. ASSUME pc' \in {"request", "response"} PROVE PendingTrue'
  <2>1. Recipients' = Recipients /\ Recipients \subseteq Ports /\ pc' = pc
    BY <1>1 DEF Recipients, TypeOK, ControlType
  <2>2. ASSUME NEW k \in LastPlaces(pending), NEW q \in Recipients, NEW y, y = pending[k].prefix
        PROVE  pending[k].metric[q] \in Heard(y, q)'
    <3>1. pending \in Seq(Answer) /\ k \in 1 .. Len(pending)
      BY <2>2 DEF LastPlaces, TypeOK, ControlType
    <3>2. pending[k] \in Answer
      BY <3>1
    <3>3. y \in Prefixes /\ q \in Ports
      BY <2>1, <2>2, <3>2 DEF Answer
    <3>4. Heard(y, q)' = Heard(y, q)
      BY <3>3 DEF Same
    <3>5. pending[k].metric[q] \in Heard(y, q)
      BY <1>1, <2>1, <2>2 DEF PendingTrue
    <3> QED BY <3>4, <3>5
  <2> QED BY <2>1, <2>2 DEF PendingTrue
<1>2. pc' \notin {"request", "response"} => PendingTrue'
  BY DEF PendingTrue
<1> QED BY <1>1, <1>2, SilentTrue

LEMMA TableSame ==
  ASSUME UNCHANGED <<trie, rte_map, memory_rte>>
  PROVE  \A y \in Prefixes : Same(y)
BY DEF Same, Heard

\* Where no announced prefix covers another, one that is found has a record.
LEMMA FoundHas ==
  ASSUME TypeOK, MapInv, NoneCovers, NEW p \in Prefixes, Announced(p), TrieLookup(p)
  PROVE  /\ trie[p].tier # "none" /\ rte_map[p] \in Slots \ {0}
         /\ memory_rte[rte_map[p]].valid /\ memory_rte[rte_map[p]].prefix = p
<1>1. trie[p].tier # "none"
  BY FoundThere
<1> QED BY <1>1 DEF MapInv, MapForward, TypeOK, TableType

\* Only what prefix p sounds like may change with its record.
LEMMA OthersSame ==
  ASSUME TypeOK, MapInv, NEW p \in Prefixes, NEW i \in Slots,
         \/ ~memory_rte[i].valid
         \/ memory_rte[i].prefix = p,
         \A k \in Slots : k # i => memory_rte'[k] = memory_rte[k],
         \A y \in Prefixes \ {p} : /\ trie'[y].tier = trie[y].tier
                                  /\ rte_map'[y] = rte_map[y]
  PROVE  \A y \in Prefixes \ {p} : Same(y)
<1> SUFFICES ASSUME NEW y \in Prefixes \ {p}, NEW q \in Ports
             PROVE  Heard(y, q)' = Heard(y, q)
  BY DEF Same
<1>1. trie'[y].tier = trie[y].tier /\ rte_map'[y] = rte_map[y]
  OBVIOUS
<1>2. CASE trie[y].tier = "none"
  BY <1>1, <1>2 DEF Heard
<1>3. CASE trie[y].tier # "none"
  <2>1. /\ rte_map[y] \in Slots /\ memory_rte[rte_map[y]].valid
        /\ memory_rte[rte_map[y]].prefix = y
    BY <1>3 DEF MapInv, MapForward, TypeOK, TableType
  <2>2. memory_rte'[rte_map'[y]] = memory_rte[rte_map[y]]
    BY <1>1, <2>1
  <2> QED BY <1>1, <1>3, <2>2 DEF Heard
<1> QED BY <1>2, <1>3

\* A triggered update says what its port and metric are now.
LEMMA TriggerTrue ==
  ASSUME TypeOK, PendingTrue, pc = "response", pc' \in {pc, "hung"}, cur'.port = cur.port,
         NEW p \in Prefixes, NEW m \in 0 .. Infinity, Trigger(p, m),
         trie'[p].tier # "none", ~memory_rte'[rte_map'[p]].direct,
         memory_rte'[rte_map'[p]].port = cur.port, memory_rte'[rte_map'[p]].metric = m,
         \A y \in Prefixes \ {p} : Same(y)
  PROVE  SentTrue /\ PendingTrue'
<1> DEFINE metric == [q \in Ports |-> IF q = cur.port THEN Infinity ELSE m]
<1>1. metric \in [Ports -> 0 .. Infinity] /\ Queue(p, metric)
  BY Literals DEF Trigger
<1>2. \A q \in Ports : metric[q] = IF q = cur.port THEN Infinity ELSE m
  OBVIOUS
<1>3. Recipients = Ports
  BY DEF Recipients
<1>4. \A q \in Ports : Heard(p, q)' = IF cur.port = q THEN {Infinity} ELSE {m}
  BY DEF Heard
<1>5. \A q \in Recipients : metric[q] \in Heard(p, q)'
  BY <1>2, <1>3, <1>4
<1> HIDE DEF metric
<1> QED BY <1>1, <1>5, QueueTrue

LEMMA RequestTrue ==
  ASSUME TypeOK, MapInv, MapInv', TypeOK', PendingInv, NoneCovers,
         NEW p \in Prefixes, Announced(p), RequestRte(p)
  PROVE  SentTrue /\ PendingInv'
<1> DEFINE i == rte_map[p]
           r == memory_rte'[i]
           m == IF TrieLookup(p) /\ Reportable(r) THEN r.metric ELSE Infinity
           metric == [q \in Ports |-> m]
<1>1. /\ pc = "request" /\ pc' = pc /\ cur' = [cur EXCEPT !.len = @ + 1] /\ cur.len < MaxRtes
      /\ Queue(p, metric)
  BY DEF RequestRte, NextRte
<1>2. cur'.port = cur.port /\ cur'.len = cur.len + 1 /\ cur.len \in Nat
  BY <1>1 DEF TypeOK, ControlType
<1>3. i \in Slots /\ r \in Rte /\ Recipients = {cur.port} /\ cur.port \in Ports
  BY <1>1 DEF Recipients, TypeOK, ControlType, TableType
<1>4. m \in 0 .. Infinity
  BY <1>3, Literals DEF Rte
<1>5. /\ metric \in [Ports -> 0 .. Infinity]
      /\ \A q \in Ports : metric[q] = m
  BY <1>4
<1>6. CASE TrieLookup(p)
  <2> DEFINE dead == {memory_rte[k].prefix : k \in {k \in {i} : Collected(memory_rte[k])}}
  <2>1. /\ trie[p].tier # "none" /\ i # 0
        /\ memory_rte[i].valid /\ memory_rte[i].prefix = p
    BY <1>6, FoundHas
  <2>2. /\ \A k \in Slots : memory_rte'[k] = IF k \in {i} THEN Updated(memory_rte[k])
                                             ELSE memory_rte[k]
        /\ \A y \in Prefixes : /\ trie'[y] = IF y \in dead THEN NoRoute ELSE trie[y]
                               /\ rte_map'[y] = IF y \in dead THEN 0 ELSE rte_map[y]
    BY <1>6 DEF RequestRte, update_memory_rte
  <2>3. dead = IF Collected(memory_rte[i]) THEN {p} ELSE {}
    BY <2>1
  <2> HIDE DEF dead
  <2>4. \A y \in Prefixes \ {p} : Same(y)
    <3>1. \A k \in Slots : k # i => memory_rte'[k] = memory_rte[k]
      BY <2>2
    <3>2. \A y \in Prefixes \ {p} : trie'[y].tier = trie[y].tier /\ rte_map'[y] = rte_map[y]
      BY <2>2, <2>3
    <3> HIDE DEF i
    <3> QED BY <1>3, <2>1, <3>1, <3>2, OthersSame
  <2>5. m \in Heard(p, cur.port)'
    <3>1. CASE Collected(memory_rte[i])
      <4>1. trie'[p].tier = "none"
        BY <2>2, <2>3, <3>1 DEF NoRoute
      <4>2. ~r.valid
        <5>1. memory_rte[i] \in Rte
          BY <1>3 DEF TypeOK, TableType
        <5>2. r = Cleared(memory_rte[i])
          BY <1>3, <2>2, <3>1 DEF Updated, Lapses, Collected
        <5> QED BY <5>1, <5>2 DEF Cleared, Rte
      <4>3. m = Infinity
        BY <4>2 DEF Reportable
      <4> QED BY <4>1, <4>3 DEF Heard
    <3>2. CASE ~Collected(memory_rte[i])
      <4>1. trie'[p].tier # "none" /\ rte_map'[p] = i
        BY <2>1, <2>2, <2>3, <3>2
      <4>2. memory_rte'[rte_map'[p]].valid
        BY <4>1 DEF MapInv, MapForward
      <4>3. m = IF r.port # cur.port /\ ~r.direct THEN r.metric ELSE Infinity
        BY <1>6, <4>1, <4>2 DEF Reportable
      <4>4. cur'.port = cur.port
        BY <1>2
      <4>5. Heard(p, cur.port)' = IF r.direct THEN {r.metric, Infinity}
                                  ELSE IF r.port = cur.port THEN {Infinity} ELSE {r.metric}
        BY <4>1, <4>4 DEF Heard
      <4> HIDE DEF m, r
      <4> QED BY <4>3, <4>5
    <3> QED BY <3>1, <3>2
  <2> HIDE DEF m, metric
  <2>6. \A q \in Recipients : metric[q] \in Heard(p, q)'
    <3> SUFFICES ASSUME NEW q \in Recipients PROVE metric[q] \in Heard(p, q)'
      OBVIOUS
    <3>1. q = cur.port /\ metric[q] = m
      BY <1>3, <1>5
    <3>2. \A o : o = cur.port => m \in Heard(p, o)'
      BY <2>5, <1>2 DEF Heard
    <3> QED BY <3>1, <3>2
  <2> QED BY <1>1, <1>2, <1>5, <2>4, <2>6, QueueTrue DEF PendingInv, PendingFresh, BootSilent
<1>7. CASE ~TrieLookup(p)
  <2>1. \A y \in Prefixes : Same(y)
    BY <1>7, TableSame DEF RequestRte, table
  <2>2. trie'[p].tier = "none" /\ m = Infinity
    BY <1>7 DEF RequestRte, table, TrieLookup
  <2>3. \A q \in Recipients : metric[q] \in Heard(p, q)'
    BY <1>3, <1>5, <2>2 DEF Heard
  <2> HIDE DEF m, metric
  <2> QED BY <1>1, <1>2, <1>5, <2>1, <2>3, QueueTrue DEF PendingInv, PendingFresh, BootSilent
<1> QED BY <1>6, <1>7

\* An RTE about a known prefix announces the route it has just written.
LEMMA UpdateRouteTrue ==
  ASSUME TypeOK, MapInv, PendingInv, NoneCovers, pc = "response", cur.len < MaxRtes,
         NEW p, NEW m, <<p, m>> \in RxRtes, NEW j \in HopIndexes, UpdateRoute(p, m, j)
  PROVE  SentTrue /\ PendingInv'
<1> DEFINE i == rte_map[p]
           r == memory_rte[i]
           new == NewMetric(m)
<1>1. p \in Prefixes /\ new \in 0 .. Infinity /\ TrieLookup(p) /\ Announced(p)
  BY NewMetricType DEF UpdateRoute, Announced
<1>2. /\ trie[p].tier # "none" /\ i \in Slots /\ i # 0 /\ r \in Rte
      /\ r.valid /\ r.prefix = p
  BY <1>1, FoundHas DEF TypeOK, TableType
<1>3. \A y \in Prefixes : TrieModified(p, j)[y].tier = trie[y].tier
  BY <1>1 DEF TrieModified, TypeOK, TableType, TrieEntry
<1>4. ASSUME NextRte PROVE pc' = pc /\ cur'.port = cur.port /\ PendingFresh' /\ BootSilent'
  <2>1. pc' = pc /\ cur' = [cur EXCEPT !.len = @ + 1] /\ cur.len \in Nat
    BY <1>4, SizeAssumption DEF NextRte, TypeOK, ControlType
  <2>2. cur'.port = cur.port /\ cur'.len = cur.len + 1
    BY <2>1 DEF TypeOK, ControlType
  <2> QED BY <2>1, <2>2 DEF PendingFresh, BootSilent
<1>5. ASSUME NEW t, NEW who, WriteRte(i, t, who), UNCHANGED rte_map,
             trie' = trie \/ trie' = TrieModified(r.prefix, j)
      PROVE  /\ memory_rte'[rte_map'[p]] = t /\ rte_map'[p] = i /\ trie'[p].tier # "none"
             /\ \A y \in Prefixes \ {p} : Same(y)
  <2>1. \A k \in Slots : memory_rte'[k] = IF k = i THEN t ELSE memory_rte[k]
    BY <1>2, <1>5 DEF WriteRte, TypeOK, TableType
  <2>2. \A y \in Prefixes : trie'[y].tier = trie[y].tier /\ rte_map'[y] = rte_map[y]
    BY <1>2, <1>3, <1>5
  <2>3. \A k \in Slots : k # i => memory_rte'[k] = memory_rte[k]
    BY <2>1
  <2>4. memory_rte[i].prefix = p /\ i \in Slots
    BY <1>2
  <2> HIDE DEF i, r
  <2>5. \A y \in Prefixes \ {p} : Same(y)
    BY <1>1, <2>2, <2>3, <2>4, OthersSame
  <2> QED BY <1>1, <1>2, <2>1, <2>2, <2>5 DEF i
\* A route written with metric k and the port the news came from, and announced.
<1>6. ASSUME NEW t, NEW k \in 0 .. Infinity, WriteRte(i, t, cur.src), UNCHANGED rte_map,
             trie' = trie \/ trie' = TrieModified(r.prefix, j),
             ~t.direct, t.port = cur.port, t.metric = k, NextRte, Trigger(p, k)
      PROVE  SentTrue /\ PendingInv'
  <2> HIDE DEF i, r, new
  <2>1. PendingTrue
    BY DEF PendingInv
  <2> QED BY <1>1, <1>4, <1>5, <1>6, <2>1, TriggerTrue DEF PendingInv
<1>7. \A k \in 0 .. Infinity :
        LET t == [r EXCEPT !.metric = k, !.lower_timer = now]
        IN  t.direct = r.direct /\ t.port = r.port /\ t.metric = k
  BY <1>2 DEF Rte
<1>8. \A k \in 0 .. Infinity : ~Via(r, k).direct /\ Via(r, k).port = cur.port /\ Via(r, k).metric = k
  BY <1>2 DEF Via, Rte
<1>9. LET t == [r EXCEPT !.lower_timer = now]
      IN  t.direct = r.direct /\ t.port = r.port /\ t.metric = r.metric
  BY <1>2 DEF Rte
<1> HIDE DEF i, r, new
<1>10. CASE IgnoreRte(r, new)
  BY <1>4, <1>10, TableSame, QuietTrue DEF IgnoreRte, table, NoTrigger, PendingInv
<1>11. CASE Withdraw(i, r, p, new)
  BY <1>6, <1>7, <1>11, Literals DEF Withdraw, SameHop
<1>12. CASE WithdrawLost(i, r, new)
  BY <1>1, <1>2, <1>12 DEF WithdrawLost
<1>13. CASE Worsen(i, r, p, new)
  BY <1>1, <1>6, <1>7, <1>13 DEF Worsen, SameHop
<1>14. CASE SwitchHop(i, r, p, new, j)
  BY <1>1, <1>6, <1>8, <1>14 DEF SwitchHop
<1>15. CASE Renew(i, r, new)
  <2>1. /\ memory_rte'[rte_map'[p]] = [r EXCEPT !.lower_timer = now]
        /\ rte_map'[p] = i /\ trie'[p] = trie[p]
        /\ \A y \in Prefixes \ {p} : Same(y)
    BY <1>5, <1>15 DEF Renew
  <2>2. Same(p)
    BY <1>9, <2>1 DEF Same, Heard, i, r
  <2>3. \A y \in Prefixes : Same(y)
    BY <2>1, <2>2
  <2> QED BY <1>4, <1>15, <2>3, QuietTrue DEF Renew, NoTrigger, PendingInv
<1>16. CASE Improve(i, r, p, new, j)
  BY <1>1, <1>6, <1>8, <1>16 DEF Improve
<1> QED BY <1>10, <1>11, <1>12, <1>13, <1>14, <1>15, <1>16 DEF UpdateRoute, i, r, new

LEMMA ResponseTrue ==
  ASSUME TypeOK, MapInv, PendingInv, NoneCovers, NEW p, NEW m, <<p, m>> \in RxRtes,
         ResponseRte(p, m)
  PROVE  SentTrue /\ PendingInv'
<1>1. PICK j \in HopIndexes :
        \/ UpdateRoute(p, m, j)
        \/ SkipUnreachable(p, m)
        \/ \E tier \in Tiers : AddRoute(p, m, j, tier)
        \/ TrieFull(p, m)
  BY DEF ResponseRte
<1>2. pc = "response" /\ cur.len < MaxRtes /\ p \in Prefixes
  BY NewMetricType DEF ResponseRte
<1>3. /\ [cur EXCEPT !.len = @ + 1].port = cur.port
      /\ [cur EXCEPT !.len = @ + 1].len = cur.len + 1 /\ cur.len \in Nat
  BY DEF TypeOK, ControlType
<1>4. CASE UpdateRoute(p, m, j)
  BY <1>2, <1>4, UpdateRouteTrue
<1>5. CASE SkipUnreachable(p, m)
  <2>1. \A y \in Prefixes : Same(y)
    BY <1>5, TableSame DEF SkipUnreachable, table
  <2> QED BY <1>2, <1>3, <1>5, <2>1, QuietTrue
          DEF SkipUnreachable, NextRte, NoTrigger, PendingInv, PendingFresh, BootSilent
<1>6. CASE TrieFull(p, m)
  BY <1>6, EmptyTrue, SilentTrue DEF TrieFull, Done
<1>7. ASSUME NEW tier \in Tiers, AddRoute(p, m, j, tier) PROVE SentTrue /\ PendingInv'
  <2> DEFINE t == [prefix |-> p, metric |-> m + 1, lower_timer |-> now,
                   valid |-> TRUE, direct |-> FALSE, port |-> cur.port]
             s == spare_memory_index
  <2>1. m + 1 \in 0 .. Infinity
    BY <1>7, NewMetricType DEF AddRoute
  <2>2. s \in Slots \ {0} /\ ~memory_rte[s].valid
    BY <1>2, SizeAssumption DEF TypeOK, SlotType, Slots, MapInv, SpareFree
  <2>3. /\ trie' = [trie EXCEPT ![p] = Placed(p, tier, j)]
        /\ rte_map' = [rte_map EXCEPT ![p] = s]
        /\ WriteRte(s, t, cur.src)
        /\ pc' \in {pc, "hung"} /\ cur' = [cur EXCEPT !.len = @ + 1]
        /\ Trigger(p, m + 1)
    BY <1>7 DEF AddRoute, AdvanceSpare
  <2>4. ~t.direct /\ t.port = cur.port /\ t.metric = m + 1
    OBVIOUS
  <2> HIDE DEF t
  <2>5. \A k \in Slots : memory_rte'[k] = IF k = s THEN t ELSE memory_rte[k]
    BY <2>2, <2>3 DEF WriteRte, TypeOK, TableType
  <2>6. \A y \in Prefixes : /\ trie'[y] = IF y = p THEN Placed(p, tier, j) ELSE trie[y]
                            /\ rte_map'[y] = IF y = p THEN s ELSE rte_map[y]
    BY <2>3 DEF TypeOK, TableType
  <2>7. trie'[p].tier # "none"
    <3>1. tier # "none"
      BY PrefixAssumption
    <3>2. Placed(p, tier, j).tier \in {"flag", tier}
      BY DEF Placed
    <3> QED BY <1>2, <2>6, <3>1, <3>2
  <2> HIDE DEF s
  <2>8. \A y \in Prefixes \ {p} : Same(y)
    <3>1. \A k \in Slots : k # s => memory_rte'[k] = memory_rte[k]
      BY <2>5
    <3>2. \A y \in Prefixes \ {p} : trie'[y].tier = trie[y].tier /\ rte_map'[y] = rte_map[y]
      BY <2>6
    <3> QED BY <1>2, <2>2, <3>1, <3>2, OthersSame
  <2>9. memory_rte'[rte_map'[p]] = t
    BY <1>2, <2>2, <2>5, <2>6
  <2>10. SentTrue /\ PendingTrue'
    <3>1. PendingTrue /\ cur'.port = cur.port
      BY <1>3, <2>3 DEF PendingInv
    <3> QED BY <1>2, <2>1, <2>3, <2>4, <2>7, <2>8, <2>9, <3>1, TriggerTrue
  <2>11. PendingFresh' /\ BootSilent'
    BY <1>2, <1>3, <2>3 DEF PendingFresh, BootSilent
  <2> QED BY <2>10, <2>11 DEF PendingInv
<1> QED BY <1>1, <1>4, <1>5, <1>6, <1>7

\* A sweep sends the table as it has just become.
LEMMA SendTableTrue ==
  ASSUME TypeOK', MapInv', TypeOK, NoneCovers, NEW o \in Ports, SendTable(o)
  PROVE  SentTrue
<1> SUFFICES ASSUME NEW q \in Ports, NEW a \in sent'[q]
             PROVE  a.metric \in Heard(a.prefix, q)'
  BY DEF SentTrue
<1>1. sent' = [Silent EXCEPT ![o] =
        {[prefix |-> memory_rte'[i].prefix, metric |-> SweepMetric(memory_rte'[i], o)] :
           i \in {k \in SweepSlots : memory_rte'[k].valid}}]
  BY DEF SendTable
<1>2. q = o
  BY <1>1 DEF Silent
<1>3. PICK i \in SweepSlots :
        /\ memory_rte'[i].valid
        /\ a = [prefix |-> memory_rte'[i].prefix, metric |-> SweepMetric(memory_rte'[i], q)]
  BY <1>1, <1>2 DEF Silent
<1>4. i \in Slots \ {0}
  BY SizeAssumption DEF SweepSlots, Slots, TypeOK, SlotType
<1>5. a.prefix = memory_rte'[i].prefix /\ a.metric = SweepMetric(memory_rte'[i], q)
  BY <1>3
<1>6. trie'[a.prefix].tier # "none" /\ rte_map'[a.prefix] = i
  BY <1>3, <1>4, <1>5 DEF MapInv, MapBackward, Tracked
<1> QED BY <1>5, <1>6 DEF Heard, SweepMetric

LEMMA SentStep ==
  ASSUME TypeInv, MapInv, PendingInv, NoneCovers, TypeInv', MapInv', Next
  PROVE  SentTrue /\ PendingInv'
<1> USE DEF TypeInv
<1>1. CASE config_direct_route
  <2>1. sent' = Silent /\ pending' = <<>> /\ pc' \in {"boot", "idle", "hung"}
    BY <1>1 DEF config_direct_route, AdvanceSpare, PendingInv, PendingFresh, BootSilent
  <2> QED BY <2>1, SilentTrue DEF PendingInv, PendingTrue, PendingFresh, BootSilent
<1>2. ASSUME NEW e \in RxRtes, RequestRte(e[1]) PROVE SentTrue /\ PendingInv'
  BY <1>2, PrefixAssumption, RequestTrue DEF Announced
<1>3. ASSUME NEW e \in RxRtes, ResponseRte(e[1], e[2]) PROVE SentTrue /\ PendingInv'
  <2>1. <<e[1], e[2]>> \in RxRtes
    BY PrefixAssumption
  <2> QED BY <1>3, <2>1, ResponseTrue
<1>4. CASE WholeTableRequest
  <2>1. pending' = <<>> /\ pc' = "idle" /\ cur.port \in Ports /\ SendTable(cur.port)
    BY <1>4 DEF WholeTableRequest, Done, PendingInv, PendingFresh, TypeOK, ControlType
  <2> QED BY <2>1, SendTableTrue, EmptyTrue
<1>5. CASE SweepPort
  <2>1. pending' = <<>> /\ pc' # "boot" /\ cur.port \in Ports /\ SendTable(cur.port)
    BY <1>5 DEF SweepPort, PendingInv, PendingFresh, TypeOK, ControlType
  <2> QED BY <2>1, SendTableTrue, EmptyTrue
<1>6. CASE StartSweep \/ GrantInput
  <2>1. pending' = <<>> /\ pc' # "boot" /\ sent' = Silent
    BY <1>6 DEF StartSweep, GrantInput, PendingInv, PendingFresh
  <2> QED BY <2>1, SilentTrue, EmptyTrue
<1>7. CASE RejectPacket
  BY <1>7, SilentTrue, EmptyTrue DEF RejectPacket, Done
<1>8. CASE EndPacket
  <2>1. ASSUME NEW k \in LastPlaces(pending), NEW q \in Recipients, NEW y, y = pending[k].prefix
        PROVE  pending[k].metric[q] \in Heard(y, q)'
    <3>1. pending[k].metric[q] \in Heard(y, q)
      BY <1>8, <2>1 DEF EndPacket, PendingInv, PendingTrue
    <3>2. Heard(y, q)' = Heard(y, q)
      BY <1>8 DEF EndPacket, table, Heard
    <3> QED BY <3>1, <3>2
  <2>2. SendPending(pending) /\ pending' = <<>> /\ pc' # "boot"
    BY <1>8 DEF EndPacket, Done
  <2> QED BY <2>1, <2>2, SendTrue, EmptyTrue
<1>9. CASE Environment
  <2>1. pending' = <<>> /\ pc' # "boot" /\ sent' = Silent
    BY <1>9 DEF Environment, Receive, PendingInv, PendingFresh
  <2> QED BY <2>1, SilentTrue, EmptyTrue
<1>10. CASE Tick
  <2>1. \A y \in Prefixes : Same(y)
    BY <1>10, TableSame DEF Tick
  <2>2. UNCHANGED <<pc, cur, pending>> /\ sent' = Silent
    BY <1>10 DEF Tick
  <2> QED BY <2>1, <2>2, QuietTrue DEF PendingInv, PendingFresh, BootSilent
<1> QED BY <1>1, <1>2, <1>3, <1>4, <1>5, <1>6, <1>7, <1>8, <1>9, <1>10 DEF Next, Firmware

\* What leaves a port, in a reply, a triggered update or a sweep, is what the
\* table says of the prefix at that moment, poisoned where it was learned,
\* however the RTEs of one packet touched the table (disassemble,
\* send_response): provided no announced prefix covers another that may be in
\* the binary trie.  Otherwise an RTE for the covering prefix is answered from
\* record 0 (protocol.c:358), though the table has no route for it.
THEOREM AdvertsAlwaysTrue ==
  ASSUME NoneCovers
  PROVE  Spec => AdvertsTrue
<1> DEFINE Inv == TypeInv /\ MapInv /\ PendingInv
<1>1. Init => Inv
  <2>1. Init => PendingInv
    BY DEF Init, PendingInv, PendingTrue, PendingFresh, BootSilent
  <2> QED BY <2>1, InitType, InitMap
<1>2. Inv /\ [Next]_vars => Inv'
  <2>1. CASE UNCHANGED vars
    <3>1. PendingInv /\ UNCHANGED vars => PendingInv'
      <4> SUFFICES ASSUME PendingInv, UNCHANGED vars PROVE PendingInv'
        OBVIOUS
      <4>1. UNCHANGED <<pc, cur, pending, sent, trie, rte_map, memory_rte>>
        BY DEF vars
      <4> QED BY <4>1 DEF PendingInv, PendingTrue, PendingFresh, BootSilent, Recipients, Heard
    <3> QED BY <2>1, <3>1, StepType, MapStep
  <2>2. CASE Next
    BY <2>2, StepType, MapStep, SentStep
  <2> QED BY <2>1, <2>2
<1>3. Inv /\ [Next]_vars =>
        [\A q \in Ports : \A a \in sent'[q] : a.metric \in Heard(a.prefix, q)']_vars
  BY StepType, MapStep, SentStep DEF SentTrue
<1> QED BY <1>1, <1>2, <1>3, PTL DEF Spec, AdvertsTrue

-----------------------------------------------------------------------------
(* The search for an invalid slot. *)

\* The routes in the tries, and room for one more record than there are routes.
Routes == {p \in Prefixes : trie[p].tier # "none"}
Room == IsFiniteSet(Routes) /\ Cardinality(Routes) < NUM_MEMORY_RTE - 1

\* No neighbour announces ::/0 as reachable.
DefaultSilent == \A e \in RxRtes : e[1] = DefaultPrefix => e[2] >= Infinity
DefaultUnlisted == \A i \in Slots : Listed(i) => memory_rte[i].prefix # DefaultPrefix
AllTracked == NoneCovers \/ DefaultUnlisted
AllValid == \A i \in Slots \ {0} : memory_rte[i].valid

\* Only a new record can be the first of its prefix.
LEMMA RecordsKeepPrefix ==
  ASSUME TypeInv, MapInv, Next, NEW i \in Slots \ {0}, memory_rte'[i].valid
  PROVE  \/ memory_rte[i].valid /\ memory_rte'[i].prefix = memory_rte[i].prefix
         \/ \E q \in Ports : memory_rte'[i].prefix = DirectPrefix[q]
         \/ \E e \in RxRtes : e[2] < Infinity /\ memory_rte'[i].prefix = e[1]
<1> USE DEF TypeInv, TypeOK, TableType
<1> DEFINE Keeps == memory_rte[i].valid /\ memory_rte'[i].prefix = memory_rte[i].prefix
<1>1. memory_rte[i] \in Rte
  OBVIOUS
<1>2. ASSUME NEW S, update_memory_rte(S) PROVE Keeps
  <2>1. memory_rte'[i] = IF i \in S THEN Updated(memory_rte[i]) ELSE memory_rte[i]
    BY <1>2 DEF update_memory_rte
  <2> QED BY <1>1, <2>1 DEF Updated, Cleared, Lapses, Collected, Rte
<1>3. ASSUME memory_rte' = memory_rte PROVE Keeps
  BY <1>3
<1>4. CASE config_direct_route
  <2>1. /\ memory_rte'[i] = memory_rte[i] \/ memory_rte'[i].prefix = DirectPrefix[cur.port]
        /\ cur.port \in Ports
    BY <1>4 DEF config_direct_route, WriteRte, ControlType
  <2> QED BY <2>1
<1>5. CASE \E e \in RxRtes : RequestRte(e[1])
  <2> QED BY <1>2, <1>3, <1>5 DEF RequestRte, table
<1>6. CASE WholeTableRequest \/ SweepPort
  BY <1>2, <1>6 DEF WholeTableRequest, SweepPort, SendTable
<1>7. ASSUME NEW e \in RxRtes, ResponseRte(e[1], e[2])
      PROVE  Keeps \/ (e[2] < Infinity /\ memory_rte'[i].prefix = e[1])
  <2> DEFINE p == e[1]
             k == rte_map[p]
             r == memory_rte[k]
  <2>1. PICK j \in HopIndexes :
          \/ UpdateRoute(p, e[2], j)
          \/ SkipUnreachable(p, e[2])
          \/ \E tier \in Tiers : AddRoute(p, e[2], j, tier)
          \/ TrieFull(p, e[2])
    BY <1>7 DEF ResponseRte
  <2>2. p \in Prefixes /\ k \in Slots
    BY PrefixAssumption
  <2>3. k # 0 => r.valid
    BY <2>2 DEF MapInv, MapForward
  <2>4. r \in Rte
    BY <2>2
  <2>5. ASSUME NEW t, NEW who, WriteRte(k, t, who), t.prefix = r.prefix \/ ~t.valid
        PROVE  Keeps
    <3>1. memory_rte'[i] = IF i = k THEN t ELSE memory_rte[i]
      BY <2>2, <2>5 DEF WriteRte
    <3> QED BY <2>3, <2>5, <3>1
  <2>6. CASE UpdateRoute(p, e[2], j)
    <3> DEFINE new == NewMetric(e[2])
    <3>1. \/ IgnoreRte(r, new) \/ Withdraw(k, r, p, new) \/ WithdrawLost(k, r, new)
          \/ Worsen(k, r, p, new) \/ SwitchHop(k, r, p, new, j) \/ Renew(k, r, new)
          \/ Improve(k, r, p, new, j)
      BY <2>6 DEF UpdateRoute
    <3>2. \A m, t : /\ [r EXCEPT !.metric = m, !.lower_timer = t].prefix = r.prefix
                    /\ [r EXCEPT !.lower_timer = t].prefix = r.prefix
                    /\ Via(r, m).prefix = r.prefix
                    /\ ~[Cleared(r) EXCEPT !.metric = m].valid
      BY <2>4 DEF Rte, Via, Cleared
    <3> HIDE DEF p, k, r, new
    <3>3. CASE IgnoreRte(r, new)
      BY <1>3, <3>3 DEF IgnoreRte, table
    <3>4. CASE Withdraw(k, r, p, new) \/ Worsen(k, r, p, new) \/ Renew(k, r, new)
      BY <2>5, <3>2, <3>4 DEF Withdraw, Worsen, Renew
    <3>5. CASE WithdrawLost(k, r, new)
      BY <2>5, <3>2, <3>5 DEF WithdrawLost
    <3>6. CASE SwitchHop(k, r, p, new, j) \/ Improve(k, r, p, new, j)
      BY <2>5, <3>2, <3>6 DEF SwitchHop, Improve
    <3> QED BY <3>1, <3>3, <3>4, <3>5, <3>6
  <2>7. CASE SkipUnreachable(p, e[2]) \/ TrieFull(p, e[2])
    BY <1>3, <2>7 DEF SkipUnreachable, TrieFull, table
  <2>8. CASE \E tier \in Tiers : AddRoute(p, e[2], j, tier)
    <3>1. /\ e[2] < Infinity
          /\ memory_rte'[i] = memory_rte[i] \/ memory_rte'[i].prefix = p
      BY <2>8 DEF AddRoute, WriteRte
    <3> QED BY <1>3, <3>1
  <2> QED BY <2>1, <2>6, <2>7, <2>8
<1>8. CASE StartSweep \/ GrantInput \/ RejectPacket \/ EndPacket \/ Environment \/ Tick
  BY <1>3, <1>8
     DEF StartSweep, GrantInput, RejectPacket, EndPacket, Environment, Receive, Tick, table
<1> QED BY <1>4, <1>5, <1>2, <1>3, <1>6, <1>7, <1>8 DEF Next, Firmware

LEMMA DefaultStep ==
  ASSUME TypeInv, MapInv, DefaultSilent, DefaultUnlisted, [Next]_vars
  PROVE  DefaultUnlisted'
<1>1. CASE UNCHANGED vars
  BY <1>1 DEF vars, DefaultUnlisted, Listed
<1>2. CASE Next
  <2> SUFFICES ASSUME NEW i \in Slots \ {0}, memory_rte'[i].valid,
                      memory_rte'[i].prefix = DefaultPrefix
               PROVE  FALSE
    BY DEF DefaultUnlisted, Listed
  <2>1. \A q \in Ports : DirectPrefix[q] # DefaultPrefix
    BY PrefixAssumption
  <2>2. \A e \in RxRtes : e[2] \in 1 .. 16 \cup {255}
    BY PrefixAssumption
  <2>3. \A e \in RxRtes : e[2] < Infinity => e[1] # DefaultPrefix
    BY <2>2 DEF DefaultSilent, Infinity
  <2>4. memory_rte[i].valid => memory_rte[i].prefix # DefaultPrefix
    BY DEF DefaultUnlisted, Listed
  <2> QED BY <1>2, <2>1, <2>3, <2>4, RecordsKeepPrefix
<1> QED BY <1>1, <1>2

\* With a route for every record there are as many routes as slots.
LEMMA FullMeansNoRoom == TypeOK /\ MapInv /\ AllTracked /\ Room => ~AllValid
<1> SUFFICES ASSUME TypeOK, MapInv, AllTracked, Room, AllValid PROVE FALSE
  OBVIOUS
<1> DEFINE S == 1 .. NUM_MEMORY_RTE - 1
           f == [i \in S |-> memory_rte[i].prefix]
<1>1. S = Slots \ {0} /\ NUM_MEMORY_RTE - 1 \in Nat
  BY SizeAssumption, PortsAssumption DEF Slots
<1>2. \A i \in S : Tracked(memory_rte[i].prefix) /\ memory_rte[i].prefix \in Prefixes
  BY <1>1 DEF Tracked, AllTracked, AllValid, DefaultUnlisted, Listed, TypeOK, TableType, Rte
<1>3. \A i \in S : /\ trie[memory_rte[i].prefix].tier # "none"
                   /\ rte_map[memory_rte[i].prefix] = i
  BY <1>1, <1>2 DEF MapInv, MapBackward, AllValid
<1>4. f \in [S -> Routes]
  BY <1>2, <1>3 DEF Routes
<1>5. IsFiniteSet(S) /\ Cardinality(S) = NUM_MEMORY_RTE - 1
  BY <1>1, FS_Interval
<1>6. PICK i, j \in S : i # j /\ f[i] = f[j]
  <2> HIDE DEF S, f
  <2> QED BY <1>4, <1>5, FS_PigeonHole DEF Room
<1> QED BY <1>3, <1>6

LEMMA FullMeansNoRoomNext == (TypeOK /\ MapInv /\ AllTracked /\ Room => ~AllValid)'
BY FullMeansNoRoom, PTL

\* The CPU is caught in its search only when every record is a route's.
LEMMA HungWhenFull ==
  ASSUME TypeInv, [Next]_vars, pc # "hung", pc' = "hung"
  PROVE  AllValid'
<1>1. ASSUME NEW next, next # "hung", AdvanceSpare(next)
      PROVE  AllValid'
  BY <1>1 DEF AdvanceSpare, FreeSlots, AllValid
<1>2. CASE config_direct_route
  <2> DEFINE n == IF cur.port = PORT_NUM - 1 THEN "idle" ELSE "boot"
  <2>1. AdvanceSpare(n) /\ n # "hung"
    BY <1>2 DEF config_direct_route
  <2> HIDE DEF n
  <2> QED BY <1>1, <2>1
<1>3. ASSUME NEW e \in RxRtes, ResponseRte(e[1], e[2])
      PROVE  AllValid'
  <2>1. \A j, r, n, i : ~IgnoreRte(r, n) /\ ~Withdraw(i, r, e[1], n)
          /\ ~WithdrawLost(i, r, n) /\ ~Worsen(i, r, e[1], n) /\ ~Renew(i, r, n)
          /\ ~SwitchHop(i, r, e[1], n, j) /\ ~Improve(i, r, e[1], n, j)
    BY DEF IgnoreRte, Withdraw, WithdrawLost, Worsen, Renew, SwitchHop, Improve, NextRte, Done
  <2>2. ~SkipUnreachable(e[1], e[2]) /\ ~TrieFull(e[1], e[2])
    BY DEF SkipUnreachable, TrieFull, NextRte, Done
  <2>3. \A j : ~UpdateRoute(e[1], e[2], j)
    BY <2>1 DEF UpdateRoute
  <2>4. AdvanceSpare(pc)
    BY <1>3, <2>2, <2>3 DEF ResponseRte, AddRoute
  <2> QED BY <1>1, <2>4
<1>4. CASE \E e \in RxRtes : RequestRte(e[1])
  BY <1>4 DEF RequestRte, NextRte
<1>5. CASE WholeTableRequest \/ SweepPort \/ StartSweep \/ GrantInput \/ RejectPacket \/ EndPacket
  BY <1>5 DEF WholeTableRequest, SweepPort, StartSweep, GrantInput, RejectPacket, EndPacket, Done
<1>6. CASE Environment \/ Tick \/ UNCHANGED vars
  BY <1>6 DEF Environment, Receive, Tick, vars
<1> QED BY <1>2, <1>3, <1>4, <1>5, <1>6 DEF Next, Firmware

\* The search for an invalid record ends (protocol.c:73, 570) as long as the
\* tries hold fewer routes than there are records: each valid record is that
\* of one route, however often routes expire, are withdrawn and come back.
\* Where announced prefixes may cover others in the binary trie, ::/0 must not
\* be announced: it could get a second record.
THEOREM SearchAlwaysEnds ==
  ASSUME NoneCovers \/ DefaultSilent
  PROVE  Spec /\ []Room => []NeverHung
<1> DEFINE Inv == /\ TypeInv /\ MapInv /\ AllTracked /\ NeverHung
<1>1. Init => Inv
  <2>1. Init => NeverHung /\ AllTracked
    BY DEF Init, NeverHung, AllTracked, DefaultUnlisted, Listed
  <2> QED BY <2>1, InitType, InitMap
<1>2. Inv /\ Room' /\ [Next]_vars => Inv'
  <2> SUFFICES ASSUME Inv, Room', [Next]_vars PROVE Inv'
    OBVIOUS
  <2>1. TypeInv' /\ MapInv'
    BY StepType, MapStep
  <2>2. AllTracked'
    BY DefaultStep DEF AllTracked
  <2>3. ~AllValid'
    BY <2>1, <2>2, FullMeansNoRoomNext DEF TypeInv
  <2>4. NeverHung'
    BY <2>3, HungWhenFull DEF NeverHung
  <2> QED BY <2>1, <2>2, <2>4
<1>3. Inv => NeverHung
  OBVIOUS
<1> QED BY <1>1, <1>2, <1>3, PTL DEF Spec
=============================================================================
