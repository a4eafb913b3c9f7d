--------------------------- MODULE RipTableProofs ---------------------------
(* Theorems about RipTable, for every value of its constants. *)
EXTENDS RipTable, TLAPS

-----------------------------------------------------------------------------
(* Type correctness: what each operator returns or assigns. *)

\* The values the code writes outright are in their types.
LEMMA Literals ==
  /\ 0 \in Ports /\ 0 \in Slots /\ 0 \in Clock /\ 0 \in 0 .. TimerMod
  /\ Infinity \in 0 .. Infinity /\ 0 \in 0 .. Infinity /\ 1 \in 0 .. Infinity
  /\ DefaultHop \in HopIndexes /\ FirstSpareHop \in HopIndexes
  /\ DefaultPrefix \in Prefixes
  /\ Clock \subseteq 0 .. TimerMod
BY PortsAssumption, SizeAssumption, TimerAssumption, PrefixAssumption
   DEF Ports, Slots, Clock, Infinity, DefaultHop, FirstSpareHop, HopIndexes

LEMMA RteWithMetric ==
  ASSUME NEW r \in Rte, NEW m \in 0 .. Infinity, now \in Clock
  PROVE  [r EXCEPT !.metric = m, !.lower_timer = now] \in Rte
BY DEF Rte

LEMMA ClearedType ==
  ASSUME NEW r \in Rte
  PROVE  Cleared(r) \in Rte
BY Literals DEF Cleared, Rte

\* An aged record is a record.
LEMMA UpdatedType ==
  ASSUME NEW r \in Rte, now \in Clock
  PROVE  Updated(r) \in Rte
BY RteWithMetric, ClearedType, Literals DEF Updated

\* Ageing any set of slots keeps the types of the table.
LEMMA UpdateType ==
  ASSUME TableType, now \in Clock, NEW S, update_memory_rte(S)
  PROVE  TableType'
<1>1. memory_rte' \in [Slots -> Rte]
  BY UpdatedType DEF TableType, update_memory_rte
<1>2. age' \in [Slots -> 0 .. TimerMod]
  BY Literals DEF TableType, update_memory_rte
<1>3. NoRoute \in TrieEntry
  BY Literals DEF NoRoute, TrieEntry
<1>4. trie' \in [Prefixes -> TrieEntry]
  BY <1>3 DEF TableType, update_memory_rte
<1>5. rte_map' \in [Prefixes -> Slots]
  BY Literals DEF TableType, update_memory_rte
<1>6. via' \in [Slots -> Addrs \cup {NoAddr}]
  BY DEF TableType, update_memory_rte
<1> QED BY <1>1, <1>2, <1>4, <1>5, <1>6 DEF TableType

\* Writing one record keeps the types of memory_rte and its histories.
LEMMA WriteType ==
  ASSUME TableType, NEW i \in Slots, NEW r \in Rte,
         NEW who \in Addrs \cup {NoAddr}, WriteRte(i, r, who)
  PROVE  /\ memory_rte' \in [Slots -> Rte]
         /\ age' \in [Slots -> 0 .. TimerMod]
         /\ via' \in [Slots -> Addrs \cup {NoAddr}]
BY Literals DEF TableType, WriteRte

\* The spare slot stays within the table.
LEMMA AdvanceType ==
  ASSUME SlotType, NEW next, AdvanceSpare(next)
  PROVE  SlotType' /\ pc' \in {next, "hung"}
<1>1. CASE FreeSlots = {} /\ pc' = "hung" /\ UNCHANGED slots
  BY <1>1 DEF SlotType, slots
<1>2. ASSUME NEW k \in Slots \ {0}, pc' = next, spare_memory_index' = k,
             slotsLapped' = (slotsLapped \/ k < spare_memory_index)
      PROVE  SlotType' /\ pc' \in {next, "hung"}
  <2>1. k \in 1 .. NUM_MEMORY_RTE - 1
    BY SizeAssumption DEF Slots
  <2>2. slotsLapped' \in BOOLEAN
    BY <1>2, Zenon
  <2> QED BY <1>2, <2>1, <2>2 DEF SlotType
<1> QED BY <1>1, <1>2 DEF AdvanceSpare

\* A neighbour's index is within the next hop table, which keeps its type.
LEMMA HopTypes ==
  ASSUME HopType, NEW addr \in Addrs \cup {NoAddr}, NEW port \in Ports,
         NEW fresh \in HopIndexes, NEW j, FindOrAddHop(addr, port, DefaultHop, fresh, j)
  PROVE  HopType' /\ j \in HopIndexes
<1>1. CASE j \in Hops(addr, port, DefaultHop) /\ UNCHANGED hops
  BY <1>1 DEF HopType, hops, Hops, HopIndexes
<1>2. CASE /\ j = fresh
           /\ nexthop_table' = [nexthop_table EXCEPT ![j] = [addr |-> addr, port |-> port]]
           /\ spare_nexthop_index' = IF spare_nexthop_index + 1 = NEXTHOP_TABLE_INDEX_NUM
                                     THEN FirstSpareHop ELSE spare_nexthop_index + 1
           /\ hopsLapped' = (hopsLapped \/ spare_nexthop_index' = FirstSpareHop)
  <2>1. nexthop_table' \in [HopIndexes -> HopEntry]
    BY <1>2 DEF HopType, HopEntry
  <2>2. spare_nexthop_index' \in FirstSpareHop .. NEXTHOP_TABLE_INDEX_NUM - 1
    BY <1>2, SizeAssumption, PortsAssumption DEF HopType, FirstSpareHop
  <2> QED BY <1>2, <2>1, <2>2 DEF HopType
<1> QED BY <1>1, <1>2 DEF FindOrAddHop

\* What is sent is adverts, whatever the list of answers.
LEMMA SentType ==
  ASSUME NEW s \in Seq(Answer), SendPending(s)
  PROVE  sent' \in [Ports -> SUBSET Advert]
<1>1. ASSUME NEW q \in Ports, NEW k \in 1 .. Len(s)
      PROVE  [prefix |-> s[k].prefix, metric |-> s[k].metric[q]] \in Advert
  <2>1. s[k] \in Answer
    OBVIOUS
  <2> QED BY <2>1 DEF Answer, Advert
<1>2. ASSUME NEW q \in Ports PROVE LastWord(s, q) \subseteq Advert
  BY <1>1 DEF LastWord
<1> QED BY <1>2 DEF SendPending

LEMMA SilentType == Silent \in [Ports -> SUBSET Advert]
BY DEF Silent

LEMMA QueueType ==
  ASSUME pending \in Seq(Answer), NEW x \in Prefixes,
         NEW metric \in [Ports -> 0 .. Infinity], Queue(x, metric)
  PROVE  pending' \in Seq(Answer) /\ sent' \in [Ports -> SUBSET Advert]
<1> DEFINE s == Append(pending, [prefix |-> x, metric |-> metric])
<1>1. s \in Seq(Answer)
  BY DEF Answer
<1>2. CASE Len(s) = RIPNG_MAX_RTE_NUM
  <2>1. pending' = <<>> /\ SendPending(s)
    BY <1>2 DEF Queue
  <2> HIDE DEF s
  <2> QED BY <1>1, <2>1, SentType
<1>3. CASE Len(s) # RIPNG_MAX_RTE_NUM
  BY <1>1, <1>3, SilentType DEF Queue
<1> QED BY <1>2, <1>3

LEMMA TriggerType ==
  ASSUME pending \in Seq(Answer), NEW x \in Prefixes,
         NEW m \in 0 .. Infinity, Trigger(x, m)
  PROVE  pending' \in Seq(Answer) /\ sent' \in [Ports -> SUBSET Advert]
<1>1. [q \in Ports |-> IF q = cur.port THEN Infinity ELSE m] \in [Ports -> 0 .. Infinity]
  BY Literals
<1> QED BY <1>1, QueueType DEF Trigger

\* A periodic update sends adverts and keeps the types of the table.
LEMMA SendTableType ==
  ASSUME TableType, SlotType, now \in Clock, NEW q, SendTable(q)
  PROVE  TableType' /\ sent' \in [Ports -> SUBSET Advert]
<1>1. TableType'
  BY UpdateType DEF SendTable
<1>2. SweepSlots \subseteq Slots
  BY SizeAssumption DEF SweepSlots, Slots, SlotType
<1>3. ASSUME NEW i \in Slots
      PROVE  [prefix |-> memory_rte'[i].prefix,
              metric |-> SweepMetric(memory_rte'[i], q)] \in Advert
  <2>1. memory_rte'[i] \in Rte
    BY <1>1 DEF TableType
  <2> QED BY <2>1, Literals DEF Rte, Advert, SweepMetric
<1>4. {[prefix |-> memory_rte'[i].prefix, metric |-> SweepMetric(memory_rte'[i], q)] :
          i \in {k \in SweepSlots : memory_rte'[k].valid}} \subseteq Advert
  BY <1>2, <1>3
<1> QED BY <1>1, <1>4, SilentType DEF SendTable

-----------------------------------------------------------------------------
(* Type correctness of the actions. *)

\* While the direct routes are being configured one hop entry is used per port.
BootInv == pc = "boot" => spare_nexthop_index = FirstSpareHop + cur.port

TypeInv == TypeOK /\ BootInv

LEMMA InitType == Init => TypeInv
<1> SUFFICES ASSUME Init PROVE TypeInv
  OBVIOUS
<1>1. ControlType
  <2>1. cur \in [port : Ports, src : Addrs \cup {NoAddr}, len : 0 .. MaxRtes]
    BY Literals, SizeAssumption DEF Init
  <2>2. sinceSweep \in 0 .. MaxGap
    BY TimerAssumption DEF Init
  <2> QED BY <2>1, <2>2, Literals, SilentType DEF Init, ControlType
<1>2. HopType
  <2>1. [addr |-> NoAddr, port |-> 0] \in HopEntry
    BY Literals DEF HopEntry
  <2>2. FirstSpareHop \in FirstSpareHop .. NEXTHOP_TABLE_INDEX_NUM - 1
    BY SizeAssumption, PortsAssumption DEF FirstSpareHop
  <2> QED BY <2>1, <2>2 DEF Init, HopType
<1>3. TableType
  <2>1. NoRoute \in TrieEntry
    BY Literals DEF NoRoute, TrieEntry
  <2>2. [prefix |-> DefaultPrefix, metric |-> 0, lower_timer |-> 0,
         valid |-> FALSE, direct |-> FALSE, port |-> 0] \in Rte
    BY Literals DEF Rte
  <2> QED BY <2>1, <2>2, Literals DEF Init, TableType
<1>4. SlotType
  <2>1. 1 \in 1 .. NUM_MEMORY_RTE - 1
    BY SizeAssumption, PortsAssumption
  <2> QED BY <2>1 DEF Init, SlotType
<1>5. BootInv
  BY DEF Init, BootInv, FirstSpareHop
<1> QED BY <1>1, <1>2, <1>3, <1>4, <1>5 DEF TypeInv, TypeOK

\* A placed or modified trie entry has the type of one.
LEMMA TrieTypes ==
  ASSUME TableType, NEW p \in Prefixes, NEW j \in HopIndexes
  PROVE  /\ TrieModified(p, j) \in [Prefixes -> TrieEntry]
         /\ \A tier \in {"vc", "bt"} :
              [trie EXCEPT ![p] = Placed(p, tier, j)] \in [Prefixes -> TrieEntry]
<1>1. [trie[p] EXCEPT !.nh = j] \in TrieEntry
  BY DEF TableType, TrieEntry
<1>2. \A tier \in {"vc", "bt"} : Placed(p, tier, j) \in TrieEntry
  BY Literals DEF Placed, TrieEntry
<1>3. TrieModified(p, j) \in [Prefixes -> TrieEntry]
  BY <1>1 DEF TableType, TrieModified
<1> QED BY <1>2, <1>3 DEF TableType

LEMMA BootType ==
  ASSUME TypeInv, config_direct_route
  PROVE  TypeInv'
<1> DEFINE p == cur.port
           x == DirectPrefix[p]
           last == p = PORT_NUM - 1
           r == [prefix |-> x, metric |-> 1, lower_timer |-> now,
                 valid |-> TRUE, direct |-> TRUE, port |-> p]
<1> USE DEF TypeInv, TypeOK
<1>1. p \in Ports /\ x \in Prefixes
  BY PrefixAssumption DEF ControlType
<1>2. spare_nexthop_index = FirstSpareHop + p /\ spare_nexthop_index \in HopIndexes
  BY SizeAssumption DEF config_direct_route, BootInv, HopType, HopIndexes, FirstSpareHop,
     DefaultHop
<1>3. HopType'
  <2>1. [addr |-> x, port |-> p] \in HopEntry
    BY <1>1 DEF HopEntry
  <2>2. nexthop_table' \in [HopIndexes -> HopEntry]
    <3> DEFINE t == [nexthop_table EXCEPT ![spare_nexthop_index] = [addr |-> x, port |-> p]]
    <3>1. t \in [HopIndexes -> HopEntry]
      BY <1>2, <2>1 DEF HopType
    <3>2. [t[DefaultHop] EXCEPT !.addr = x] \in HopEntry
      BY <1>1, <3>1, Literals DEF HopEntry
    <3>3. nexthop_table' = IF last THEN [t EXCEPT ![DefaultHop].addr = x] ELSE t
      BY DEF config_direct_route
    <3> HIDE DEF t
    <3> QED BY <3>1, <3>2, <3>3
  <2>3. spare_nexthop_index' \in FirstSpareHop .. NEXTHOP_TABLE_INDEX_NUM - 1
    BY <1>1, <1>2, SizeAssumption, PortsAssumption
       DEF config_direct_route, FirstSpareHop, Ports
  <2> QED BY <2>2, <2>3 DEF config_direct_route, HopType
<1>4. TableType'
  <2>1. r \in Rte
    BY <1>1, Literals DEF Rte, ControlType
  <2>2. spare_memory_index \in Slots
    BY SizeAssumption DEF SlotType, Slots
  <2>3. WriteRte(spare_memory_index, r, NoAddr)
    BY DEF config_direct_route
  <2>4. trie' \in [Prefixes -> TrieEntry]
    BY <1>1, <1>2, TrieTypes DEF config_direct_route
  <2>5. rte_map' \in [Prefixes -> Slots]
    BY <2>2 DEF config_direct_route, TableType
  <2> HIDE DEF r
  <2> QED BY <2>1, <2>2, <2>3, <2>4, <2>5, WriteType DEF TableType
<1>5. SlotType' /\ pc' \in {"boot", "idle", "hung"}
  BY AdvanceType DEF config_direct_route
<1>6. cur' \in [port : Ports, src : Addrs \cup {NoAddr}, len : 0 .. MaxRtes]
  <2>1. (IF last THEN 0 ELSE p + 1) \in Ports
    BY <1>1, PortsAssumption DEF Ports
  <2>2. cur' = [cur EXCEPT !.port = IF last THEN 0 ELSE p + 1]
    BY DEF config_direct_route
  <2> HIDE DEF p, last
  <2> QED BY <2>1, <2>2 DEF ControlType
<1>7. ControlType'
  BY <1>5, <1>6 DEF ControlType, config_direct_route
<1>8. BootInv'
  <2> SUFFICES ASSUME pc' = "boot" PROVE spare_nexthop_index' = FirstSpareHop + cur'.port
    BY DEF BootInv
  <2>1. ~last
    BY DEF config_direct_route, AdvanceSpare
  <2>2. cur'.port = p + 1
    BY <2>1 DEF config_direct_route, ControlType
  <2> QED BY <1>1, <1>2, <2>2 DEF config_direct_route, FirstSpareHop, Ports
<1> QED BY <1>3, <1>4, <1>5, <1>7, <1>8

\* Moving on to the next RTE, or to the next packet.
LEMMA CurType ==
  ASSUME ControlType
  PROVE  /\ cur.port \in Ports /\ cur.src \in Addrs \cup {NoAddr}
         /\ cur.len < MaxRtes =>
              [cur EXCEPT !.len = @ + 1]
                \in [port : Ports, src : Addrs \cup {NoAddr}, len : 0 .. MaxRtes]
         /\ [port |-> 0, src |-> NoAddr, len |-> 0]
              \in [port : Ports, src : Addrs \cup {NoAddr}, len : 0 .. MaxRtes]
<1>1. cur.len < MaxRtes => cur.len + 1 \in 0 .. MaxRtes
  BY SizeAssumption DEF ControlType
<1>2. 0 \in 0 .. MaxRtes
  BY SizeAssumption
<1> QED BY <1>1, <1>2, Literals DEF ControlType

\* One RTE of a request.
LEMMA RequestType ==
  ASSUME TypeOK, NEW p \in Prefixes, RequestRte(p)
  PROVE  TypeOK' /\ pc' # "boot"
<1> DEFINE r == memory_rte'[rte_map[p]]
           metric == IF TrieLookup(p) /\ Reportable(r) THEN r.metric ELSE Infinity
<1> USE DEF TypeOK
<1>1. spare_nexthop_index \in HopIndexes
  BY SizeAssumption DEF HopType, HopIndexes, FirstSpareHop, DefaultHop
<1>2. HopType'
  BY CurType, <1>1, HopTypes DEF RequestRte
<1>3. TableType'
  <2>1. CASE TrieLookup(p)
    BY <2>1, UpdateType DEF RequestRte, ControlType
  <2>2. CASE ~TrieLookup(p)
    BY <2>2 DEF RequestRte, TableType, table
  <2> QED BY <2>1, <2>2
<1>4. metric \in 0 .. Infinity
  <2>1. r \in Rte
    BY <1>3 DEF TableType
  <2> QED BY <2>1, Literals DEF Rte
<1>5. pending' \in Seq(Answer) /\ sent' \in [Ports -> SUBSET Advert]
  <2>1. [q \in Ports |-> metric] \in [Ports -> 0 .. Infinity]
    BY <1>4
  <2>2. Queue(p, [q \in Ports |-> metric])
    BY DEF RequestRte
  <2> HIDE DEF metric
  <2> QED BY <2>1, <2>2, QueueType DEF ControlType
<1>6. ControlType' /\ pc' # "boot"
  BY <1>5, CurType DEF RequestRte, NextRte, ControlType
<1>7. SlotType'
  BY DEF RequestRte, slots, SlotType
<1> QED BY <1>2, <1>3, <1>6, <1>7

LEMMA WholeTableType ==
  ASSUME TypeOK, WholeTableRequest
  PROVE  TypeOK' /\ pc' # "boot"
<1> USE DEF TypeOK
<1>1. spare_nexthop_index \in HopIndexes
  BY SizeAssumption DEF HopType, HopIndexes, FirstSpareHop, DefaultHop
<1>2. HopType'
  BY CurType, <1>1, HopTypes DEF WholeTableRequest
<1>3. TableType' /\ sent' \in [Ports -> SUBSET Advert]
  BY SendTableType DEF WholeTableRequest, ControlType
<1>4. ControlType' /\ pc' # "boot"
  BY <1>3, CurType DEF WholeTableRequest, Done, ControlType
<1>5. SlotType'
  BY DEF WholeTableRequest, slots, SlotType
<1> QED BY <1>2, <1>3, <1>4, <1>5

\* The metric a response offers, once the hop to this router is added.
LEMMA NewMetricType ==
  ASSUME NEW p, NEW m, <<p, m>> \in RxRtes
  PROVE  /\ p \in Prefixes
         /\ NewMetric(m) \in 0 .. Infinity
         /\ m < Infinity => m + 1 \in 0 .. Infinity
<1>1. p \in Prefixes /\ m \in 1 .. 16 \cup {255}
  BY PrefixAssumption
<1> QED BY <1>1 DEF NewMetric, Infinity

\* A response about a prefix the lookup finds.
LEMMA UpdateRouteType ==
  ASSUME TypeOK, pc = "response", cur.len < MaxRtes,
         NEW p, NEW m, <<p, m>> \in RxRtes, NEW j \in HopIndexes,
         UpdateRoute(p, m, j), UNCHANGED <<now, multicast_timer, sinceSweep>>
  PROVE  ControlType' /\ TableType' /\ SlotType' /\ pc' # "boot"
<1> DEFINE i == rte_map[p]
           r == memory_rte[i]
           new == NewMetric(m)
<1> USE DEF TypeOK
<1>1. p \in Prefixes /\ new \in 0 .. Infinity
  BY NewMetricType
<1>2. i \in Slots /\ r \in Rte
  BY <1>1 DEF TableType
<1>3. now \in Clock /\ r.prefix \in Prefixes /\ r.metric \in 0 .. Infinity
  BY <1>2 DEF Rte, ControlType
<1>4. SlotType'
  BY DEF UpdateRoute, slots, SlotType
<1>5. \A t \in 0 .. Infinity : Via(r, t) \in Rte
  BY <1>2, <1>3, CurType DEF Via, Rte
<1>6. ASSUME NextRte, TableType',
             NoTrigger \/ \E t \in 0 .. Infinity : Trigger(p, t)
      PROVE  ControlType' /\ TableType' /\ pc' # "boot"
  <2>1. pending' \in Seq(Answer) /\ sent' \in [Ports -> SUBSET Advert]
    <3>1. CASE NoTrigger
      BY <3>1, SilentType DEF NoTrigger, ControlType
    <3>2. CASE \E t \in 0 .. Infinity : Trigger(p, t)
      BY <3>2, <1>1, TriggerType DEF ControlType
    <3> QED BY <1>6, <3>1, <3>2
  <2> QED BY <1>4, <1>6, <2>1, CurType DEF NextRte, ControlType
<1> HIDE DEF i, r, new
<1>7. CASE IgnoreRte(r, new)
  <2>1. TableType'
    BY <1>7 DEF IgnoreRte, TableType, table
  <2> QED BY <1>4, <1>6, <1>7, <2>1 DEF IgnoreRte
<1>8. CASE Withdraw(i, r, p, new)
  <2>1. TableType'
    BY <1>2, <1>3, <1>8, RteWithMetric, WriteType, CurType, Literals DEF Withdraw, TableType
  <2> QED BY <1>4, <1>6, <1>8, <2>1, Literals DEF Withdraw
<1>9. CASE WithdrawLost(i, r, new)
  <2>1. [Cleared(r) EXCEPT !.metric = Infinity] \in Rte
    BY <1>2, ClearedType, Literals DEF Rte
  <2>2. TableType'
    BY <1>2, <1>9, <2>1, WriteType DEF WithdrawLost, TableType
  <2>3. ControlType' /\ pc' # "boot"
    BY <1>9, CurType, SilentType DEF WithdrawLost, Done, ControlType
  <2> QED BY <1>4, <2>2, <2>3
<1>10. CASE Worsen(i, r, p, new)
  <2>1. TableType'
    BY <1>1, <1>2, <1>3, <1>10, RteWithMetric, WriteType, CurType DEF Worsen, TableType
  <2> QED BY <1>1, <1>4, <1>6, <1>10, <2>1 DEF Worsen
<1>11. CASE SwitchHop(i, r, p, new, j)
  <2>1. TableType'
    BY <1>2, <1>3, <1>5, <1>11, WriteType, TrieTypes, CurType DEF SwitchHop, TableType
  <2> QED BY <1>1, <1>4, <1>6, <1>11, <2>1 DEF SwitchHop
<1>12. CASE Renew(i, r, new)
  <2>1. [r EXCEPT !.lower_timer = now] \in Rte
    BY <1>2, <1>3 DEF Rte
  <2>2. via[i] \in Addrs \cup {NoAddr}
    BY <1>2 DEF TableType
  <2>3. TableType'
    BY <1>2, <1>12, <2>1, <2>2, WriteType DEF Renew, TableType
  <2> QED BY <1>4, <1>6, <1>12, <2>3 DEF Renew
<1>13. CASE Improve(i, r, p, new, j)
  <2>1. TableType'
    BY <1>1, <1>2, <1>3, <1>5, <1>13, WriteType, TrieTypes, CurType DEF Improve, TableType
  <2> QED BY <1>1, <1>4, <1>6, <1>13, <2>1 DEF Improve
<1> QED BY <1>7, <1>8, <1>9, <1>10, <1>11, <1>12, <1>13 DEF UpdateRoute, i, r, new

\* One RTE of a response.
LEMMA ResponseType ==
  ASSUME TypeOK, NEW p, NEW m, <<p, m>> \in RxRtes, ResponseRte(p, m)
  PROVE  TypeOK' /\ pc' # "boot"
<1> USE DEF TypeOK
<1>1. PICK j \in HopIndexes :
        /\ FindOrAddHop(cur.src, cur.port, DefaultHop,
                        IF cur.len = 0 THEN DefaultHop ELSE spare_nexthop_index, j)
        /\ \/ UpdateRoute(p, m, j)
           \/ SkipUnreachable(p, m)
           \/ \E tier \in Tiers : AddRoute(p, m, j, tier)
           \/ TrieFull(p, m)
  BY DEF ResponseRte
<1>2. HopType'
  <2>1. (IF cur.len = 0 THEN DefaultHop ELSE spare_nexthop_index) \in HopIndexes
    BY SizeAssumption, Literals DEF HopType, HopIndexes, FirstSpareHop, DefaultHop
  <2> QED BY <1>1, <2>1, CurType, HopTypes
<1>3. /\ pc = "response" /\ cur.len < MaxRtes
      /\ UNCHANGED <<now, multicast_timer, sinceSweep>>
  BY DEF ResponseRte
<1>4. p \in Prefixes /\ (m < Infinity => m + 1 \in 0 .. Infinity)
  BY NewMetricType
<1>5. CASE UpdateRoute(p, m, j)
  BY <1>2, <1>3, <1>5, UpdateRouteType
<1>6. CASE SkipUnreachable(p, m)
  <2>1. ControlType' /\ pc' # "boot"
    BY <1>3, <1>6, CurType, SilentType DEF SkipUnreachable, NextRte, NoTrigger, ControlType
  <2>2. TableType' /\ SlotType'
    BY <1>6 DEF SkipUnreachable, table, slots, TableType, SlotType
  <2> QED BY <1>2, <2>1, <2>2
<1>7. ASSUME NEW tier \in Tiers, AddRoute(p, m, j, tier)
      PROVE  TypeOK' /\ pc' # "boot"
  <2> DEFINE r == [prefix |-> p, metric |-> m + 1, lower_timer |-> now,
                   valid |-> TRUE, direct |-> FALSE, port |-> cur.port]
  <2>1. m < Infinity
    BY <1>7 DEF AddRoute
  <2>2. r \in Rte
    BY <1>4, <2>1, CurType DEF Rte, ControlType
  <2>3. spare_memory_index \in Slots
    BY SizeAssumption DEF SlotType, Slots
  <2>4. SlotType' /\ pc' \in {"response", "hung"}
    BY <1>3, <1>7, AdvanceType DEF AddRoute
  <2>5. TableType'
    <3>1. tier \in {"vc", "bt"}
      BY PrefixAssumption
    <3>2. trie' \in [Prefixes -> TrieEntry]
      BY <1>1, <1>4, <1>7, <3>1, TrieTypes DEF AddRoute
    <3>3. rte_map' \in [Prefixes -> Slots]
      BY <1>7, <2>3 DEF AddRoute, TableType
    <3>4. WriteRte(spare_memory_index, r, cur.src)
      BY <1>7 DEF AddRoute
    <3> HIDE DEF r
    <3> QED BY <2>2, <2>3, <3>2, <3>3, <3>4, CurType, WriteType DEF TableType
  <2>6. pending' \in Seq(Answer) /\ sent' \in [Ports -> SUBSET Advert]
    BY <1>4, <1>7, <2>1, TriggerType DEF AddRoute, ControlType
  <2>7. ControlType'
    BY <1>3, <1>7, <2>4, <2>6, CurType DEF AddRoute, ControlType
  <2> QED BY <1>2, <2>4, <2>5, <2>7
<1>8. CASE TrieFull(p, m)
  <2>1. ControlType' /\ pc' # "boot"
    BY <1>3, <1>8, CurType, SilentType DEF TrieFull, Done, ControlType
  <2>2. TableType' /\ SlotType'
    BY <1>8 DEF TrieFull, table, slots, TableType, SlotType
  <2> QED BY <1>2, <2>1, <2>2
<1> QED BY <1>1, <1>5, <1>6, <1>7, <1>8

\* The main loop between packets, and the clock.
LEMMA LoopType ==
  ASSUME TypeOK,
         \/ StartSweep \/ SweepPort \/ GrantInput \/ RejectPacket \/ EndPacket
         \/ \E n \in Neighbours, cmd \in {"request", "response"} : Receive(n, cmd)
  PROVE  TypeOK' /\ pc' # "boot"
<1> USE DEF TypeOK
<1>1. CASE StartSweep
  <2>1. ControlType' /\ pc' # "boot"
    <3>1. [cur EXCEPT !.port = 0] \in [port : Ports, src : Addrs \cup {NoAddr}, len : 0 .. MaxRtes]
      BY Literals DEF ControlType
    <3> QED BY <1>1, <3>1, SilentType DEF StartSweep, ControlType
  <2> QED BY <1>1, <2>1 DEF StartSweep, table, hops, slots, HopType, TableType, SlotType
<1>2. CASE SweepPort
  <2>1. TableType' /\ sent' \in [Ports -> SUBSET Advert]
    BY <1>2, SendTableType DEF SweepPort, ControlType
  <2>2. HopType' /\ SlotType'
    BY <1>2 DEF SweepPort, hops, slots, HopType, SlotType
  <2>3. cur' \in [port : Ports, src : Addrs \cup {NoAddr}, len : 0 .. MaxRtes]
    <3>1. cur.port + 1 < PORT_NUM => cur.port + 1 \in Ports
      BY CurType, PortsAssumption DEF Ports
    <3> QED BY <1>2, <3>1, Literals DEF SweepPort, ControlType
  <2>4. sinceSweep' \in 0 .. MaxGap
    BY <1>2, TimerAssumption DEF SweepPort
  <2>5. ControlType' /\ pc' # "boot"
    BY <1>2, <2>1, <2>3, <2>4 DEF SweepPort, ControlType
  <2> QED BY <2>1, <2>2, <2>5
<1>3. CASE GrantInput
  <2>1. ControlType' /\ pc' # "boot"
    BY <1>3, SilentType DEF GrantInput, ControlType
  <2> QED BY <1>3, <2>1 DEF GrantInput, table, hops, slots, HopType, TableType, SlotType
<1>4. CASE RejectPacket
  <2>1. ControlType' /\ pc' # "boot"
    BY <1>4, CurType, SilentType DEF RejectPacket, Done, ControlType
  <2> QED BY <1>4, <2>1 DEF RejectPacket, table, hops, slots, HopType, TableType, SlotType
<1>5. CASE EndPacket
  <2>1. ControlType' /\ pc' # "boot"
    BY <1>5, CurType, SentType DEF EndPacket, Done, ControlType
  <2> QED BY <1>5, <2>1 DEF EndPacket, table, hops, slots, HopType, TableType, SlotType
<1>6. ASSUME NEW n \in Neighbours, NEW cmd \in {"request", "response"}, Receive(n, cmd)
      PROVE  TypeOK' /\ pc' # "boot"
  <2>1. ControlType' /\ pc' # "boot"
    <3>1. n[2] \in Ports /\ n[1] \in Addrs /\ 0 \in 0 .. MaxRtes
      BY PrefixAssumption, SizeAssumption DEF Addrs
    <3> QED BY <1>6, <3>1, SilentType DEF Receive, ControlType
  <2> QED BY <1>6, <2>1 DEF Receive, table, hops, slots, HopType, TableType, SlotType
<1> QED BY <1>1, <1>2, <1>3, <1>4, <1>5, <1>6

LEMMA TickType ==
  ASSUME TypeInv, Tick
  PROVE  TypeInv'
<1> USE DEF TypeInv, TypeOK
<1>1. now' \in Clock /\ sinceSweep' \in 0 .. MaxGap
  BY TimerAssumption DEF Tick, ControlType, Clock
<1>2. ControlType'
  BY <1>1, SilentType DEF Tick, ControlType
<1>3. TableType'
  <2>1. \A i \in Slots : age[i] < TimerMod => age[i] + 1 \in 0 .. TimerMod
    BY TimerAssumption DEF TableType
  <2> QED BY <2>1 DEF Tick, TableType
<1>4. HopType' /\ SlotType' /\ BootInv'
  BY DEF Tick, hops, slots, HopType, SlotType, BootInv
<1> QED BY <1>2, <1>3, <1>4

LEMMA StutterType ==
  ASSUME TypeInv, UNCHANGED vars
  PROVE  TypeInv'
BY DEF vars, TypeInv, TypeOK, BootInv, ControlType, HopType, TableType, SlotType

LEMMA StepType == TypeInv /\ [Next]_vars => TypeInv'
<1> SUFFICES ASSUME TypeInv, [Next]_vars PROVE TypeInv'
  OBVIOUS
<1>1. CASE config_direct_route
  BY <1>1, BootType
<1>2. CASE Tick
  BY <1>2, TickType
<1>3. ASSUME NEW e \in RxRtes, RequestRte(e[1]) PROVE TypeInv'
  <2>1. e[1] \in Prefixes
    BY PrefixAssumption
  <2> QED BY <1>3, <2>1, RequestType DEF TypeInv, BootInv
<1>4. CASE WholeTableRequest
  BY <1>4, WholeTableType DEF TypeInv, BootInv
<1>5. ASSUME NEW e \in RxRtes, ResponseRte(e[1], e[2]) PROVE TypeInv'
  <2>1. <<e[1], e[2]>> \in RxRtes
    BY PrefixAssumption
  <2> QED BY <1>5, <2>1, ResponseType DEF TypeInv, BootInv
<1>6. CASE \/ StartSweep \/ SweepPort \/ GrantInput \/ RejectPacket \/ EndPacket
           \/ Environment
  BY <1>6, LoopType DEF TypeInv, BootInv, Environment
<1>7. CASE UNCHANGED vars
  BY <1>7, StutterType
<1> QED BY <1>1, <1>2, <1>3, <1>4, <1>5, <1>6, <1>7 DEF Next, Firmware

\* Every variable keeps its type: metrics stay within 0..16 and every index
\* within its table, whatever the neighbours send (disassemble, main loop).
THEOREM TypeCorrect == Spec => []TypeOK
<1>1. TypeInv => TypeOK
  BY DEF TypeInv
<1> QED BY <1>1, InitType, StepType, PTL DEF Spec
=============================================================================
