------------------------------ MODULE RipTable ------------------------------
(***************************************************************************)
(* The RIPng routing table kept by the firmware (firmware/protocol.c).     *)
(*                                                                         *)
(* A learned prefix lives in four places that the firmware keeps in step:  *)
(* the forwarding trie (with the index of a next hop), rte_map (trie slot  *)
(* to memory slot), memory_rte (metric, timer, port) and the 32-entry next *)
(* hop table of the datapath.  One CPU runs the code; the one-second mtime *)
(* counter advances between its steps.  A packet is handled one RTE at a   *)
(* time, its RTEs chosen as they are read.                                 *)
(*                                                                         *)
(* Abstractions.  A prefix stands for (address, length).  The trie is the  *)
(* map the two software tries implement: a prefix sits in the VC trie, in  *)
(* the binary trie, or (for ::/0) in the default flag; a full trie may     *)
(* refuse an insertion.  rte_map is indexed by the prefix instead of by    *)
(* its trie slot.  mtime and the 8-bit timers are kept modulo TimerMod.    *)
(*                                                                         *)
(* Bounds.  Prefixes has no prefix of one bit (binary_trie.c:90-106: the   *)
(* binary trie has their nodes from the start) and none of more than 64    *)
(* bits that lands in the binary trie (trie128.sv:45: it has no RAM for    *)
(* them, so such a route is added anew, with a new record, each time it is *)
(* received).  The nodes a refused insertion leaves behind (binary_trie.c: *)
(* 158) are not nodes of the map.                                          *)
(***************************************************************************)
EXTENDS Integers, Sequences, FiniteSets

CONSTANTS
  PORT_NUM,                      \* router ports, 4 in the code
  Prefixes,                      \* the prefixes that occur
  DirectPrefix,                  \* port -> the prefix configured on it
  DefaultPrefix,                 \* ::/0, which is also the zeroed address
  Above,                         \* prefix -> the shorter prefixes covering it
  Tiers,                         \* where an insertion may land: "vc", "bt"
  Neighbours,                    \* <<address, port>> of the RIPng speakers
  NoAddr,                        \* the zero address of a reset next hop entry
  RxRtes,                        \* <<prefix, metric field>> of received RTEs
  NEXTHOP_TABLE_INDEX_NUM,       \* 32 in the code
  NUM_MEMORY_RTE,                \* 230000 in the code
  RIPNG_MAX_RTE_NUM,             \* RTEs per sent packet, 71 in the code
  MaxRtes,                       \* bound: RTEs per received packet
  MULTICAST_TIME_LIMIT, TIMEOUT_TIME_LIMIT, GARBAGE_COLLECTION_TIME_LIMIT,
  TimerMod,                      \* 256: the timers are 8 bits wide
  MaxGap                         \* bound: ticks between two table sweeps

Ports == 0 .. PORT_NUM - 1
Slots == 0 .. NUM_MEMORY_RTE - 1
DefaultHop == 5                  \* the hop the hardware uses for ::/0
FirstSpareHop == 6
HopIndexes == DefaultHop .. NEXTHOP_TABLE_INDEX_NUM - 1
Infinity == 16
Clock == 0 .. TimerMod - 1

ASSUME PortsAssumption == PORT_NUM \in Nat \ {0}

ASSUME PrefixAssumption ==
  /\ DirectPrefix \in [Ports -> Prefixes \ {DefaultPrefix}]
  /\ \A p, q \in Ports : DirectPrefix[p] = DirectPrefix[q] => p = q
  /\ DefaultPrefix \in Prefixes
  /\ Above \in [Prefixes -> SUBSET Prefixes]
  /\ Tiers \subseteq {"vc", "bt"}
  /\ RxRtes \subseteq Prefixes \X (1 .. 16 \cup {255})
  /\ \A e \in RxRtes : e[2] = 255 => e[1] = DefaultPrefix
  /\ \A n \in Neighbours : n[2] \in Ports

ASSUME SizeAssumption ==
  /\ NEXTHOP_TABLE_INDEX_NUM \in Nat
  /\ NEXTHOP_TABLE_INDEX_NUM > FirstSpareHop + PORT_NUM
  /\ NUM_MEMORY_RTE \in Nat /\ NUM_MEMORY_RTE > PORT_NUM + 1
  /\ RIPNG_MAX_RTE_NUM \in Nat \ {0}
  /\ MaxRtes \in Nat

\* A timer is inspected at least once between expiry and wrap-around.
ASSUME TimerAssumption ==
  /\ MaxGap \in Nat \ {0} /\ MULTICAST_TIME_LIMIT \in 1 .. MaxGap
  /\ TIMEOUT_TIME_LIMIT \in Nat \ {0} /\ GARBAGE_COLLECTION_TIME_LIMIT \in Nat \ {0}
  /\ TimerMod \in Nat
  /\ TIMEOUT_TIME_LIMIT + MaxGap =< TimerMod
  /\ GARBAGE_COLLECTION_TIME_LIMIT + MaxGap =< TimerMod

VARIABLES
  pc,                   \* what the CPU is doing
  cur,                  \* the packet (or sweep) in progress: port, src, len
  pending,              \* send_entries: answers and triggered updates to send
  sent,                 \* port -> what the last step multicast or replied
  now,                  \* mtime modulo TimerMod
  multicast_timer,
  nexthop_table, spare_nexthop_index,
  trie, rte_map, memory_rte, spare_memory_index,
  age, via,             \* history: true age of a slot's timer; who set its metric
  hopsLapped, slotsLapped,  \* history: the spare index of the table wrapped
  sinceSweep            \* history: ticks since the last sweep of the table

table == <<trie, rte_map, memory_rte, age, via>>
hops == <<nexthop_table, spare_nexthop_index, hopsLapped>>
slots == <<spare_memory_index, slotsLapped>>
vars == <<pc, cur, pending, sent, now, multicast_timer, nexthop_table,
          spare_nexthop_index, trie, rte_map, memory_rte, spare_memory_index,
          age, via, hopsLapped, slotsLapped, sinceSweep>>

Addrs == {n[1] : n \in Neighbours}
HopEntry == [addr : Addrs \cup Prefixes \cup {NoAddr}, port : Ports]
TrieEntry == [tier : {"none", "flag", "vc", "bt"}, nh : HopIndexes]
Rte == [prefix : Prefixes, metric : 0 .. Infinity, lower_timer : Clock,
        valid : BOOLEAN, direct : BOOLEAN, port : Ports]
Advert == [prefix : Prefixes, metric : 0 .. Infinity]
Answer == [prefix : Prefixes, metric : [Ports -> 0 .. Infinity]]

Silent == [q \in Ports |-> {}]
NoRoute == [tier |-> "none", nh |-> DefaultHop]

ControlType ==
  /\ pc \in {"boot", "idle", "granted", "request", "response", "sweep", "hung"}
  /\ cur \in [port : Ports, src : Addrs \cup {NoAddr}, len : 0 .. MaxRtes]
  /\ pending \in Seq(Answer)
  /\ sent \in [Ports -> SUBSET Advert]
  /\ now \in Clock /\ multicast_timer \in Clock
  /\ sinceSweep \in 0 .. MaxGap

HopType ==
  /\ nexthop_table \in [HopIndexes -> HopEntry]
  /\ spare_nexthop_index \in FirstSpareHop .. NEXTHOP_TABLE_INDEX_NUM - 1
  /\ hopsLapped \in BOOLEAN

TableType ==
  /\ trie \in [Prefixes -> TrieEntry]
  /\ rte_map \in [Prefixes -> Slots]
  /\ memory_rte \in [Slots -> Rte]
  /\ age \in [Slots -> 0 .. TimerMod]
  /\ via \in [Slots -> Addrs \cup {NoAddr}]

SlotType ==
  /\ spare_memory_index \in 1 .. NUM_MEMORY_RTE - 1
  /\ slotsLapped \in BOOLEAN

\* Every variable has its type: metrics stay within 0..16, indexes within
\* their tables.
TypeOK == ControlType /\ HopType /\ TableType /\ SlotType

-----------------------------------------------------------------------------
(* Timers. *)

\* The 8-bit difference of check_timeout.
Elapsed(t) == IF now >= t THEN now - t ELSE now + TimerMod - t
check_timeout(limit, t) == Elapsed(t) >= limit

-----------------------------------------------------------------------------
(* The tries, as the map they implement. *)

\* BTrieLookup also returns a node that only lies on the path to another one
\* (of a route: see Bounds for the nodes that lie on the path to none).
Interior(p) ==
  \E q \in Prefixes : trie[q].tier = "bt" /\ p \in Above[q] /\ p # DefaultPrefix
\* Mutant: a prefix found in the VC trie is not reported.
TrieLookupBinaryOnly(p) == trie[p].tier = "bt" \/ Interior(p)
TrieLookup(p) == trie[p].tier # "none" \/ Interior(p)

Placed(p, tier, j) ==
  IF p = DefaultPrefix THEN [tier |-> "flag", nh |-> DefaultHop]
                       ELSE [tier |-> tier, nh |-> j]
\* Mutant: the trie keeps its next hop when the route changes port.
TrieUnmodified(p, j) == trie
TrieModified(p, j) ==
  IF p = DefaultPrefix THEN trie ELSE [trie EXCEPT ![p].nh = j]

-----------------------------------------------------------------------------
(* The next hop table. *)

Hops(addr, port, from) ==
  {j \in from .. NEXTHOP_TABLE_INDEX_NUM - 1 :
     nexthop_table[j] = [addr |-> addr, port |-> port]}

\* Find the neighbour's entry, or write one at index fresh.
FindOrAddHop(addr, port, from, fresh, j) ==
  \/ /\ j \in Hops(addr, port, from)
     /\ \A k \in Hops(addr, port, from) : j =< k
     /\ UNCHANGED hops
  \/ /\ Hops(addr, port, from) = {}
     /\ j = fresh
     /\ nexthop_table' = [nexthop_table EXCEPT ![j] = [addr |-> addr, port |-> port]]
     /\ spare_nexthop_index' = IF spare_nexthop_index + 1 = NEXTHOP_TABLE_INDEX_NUM
                               THEN FirstSpareHop ELSE spare_nexthop_index + 1
     /\ hopsLapped' = (hopsLapped \/ spare_nexthop_index' = FirstSpareHop)

-----------------------------------------------------------------------------
(* update_memory_rte, on one record and on a set of slots. *)

\* Mutant: direct routes time out too.
LapsesDirect(r) == /\ r.valid /\ r.metric # Infinity
                   /\ check_timeout(TIMEOUT_TIME_LIMIT, r.lower_timer)
Lapses(r) == /\ r.valid /\ ~r.direct /\ r.metric # Infinity
             /\ check_timeout(TIMEOUT_TIME_LIMIT, r.lower_timer)
Collected(r) == /\ r.valid /\ ~r.direct /\ r.metric = Infinity
                /\ check_timeout(GARBAGE_COLLECTION_TIME_LIMIT, r.lower_timer)

\* Mutant: the valid bit survives garbage collection.
ClearedButValid(r) == [r EXCEPT !.lower_timer = 0]
\* The prefix left in an invalid record is never read again: forget it.
Cleared(r) == [r EXCEPT !.prefix = DefaultPrefix, !.lower_timer = 0,
                        !.valid = FALSE, !.direct = FALSE, !.port = 0]

\* Mutant: the GC timer is not started when a route times out.
UpdatedSameTimer(r) ==
  IF Lapses(r) THEN [r EXCEPT !.metric = Infinity]
  ELSE IF Collected(r) THEN Cleared(r)
  ELSE r
Updated(r) ==
  IF Lapses(r) THEN [r EXCEPT !.metric = Infinity, !.lower_timer = now]
  ELSE IF Collected(r) THEN Cleared(r)
  ELSE r

update_memory_rte(S) ==
  LET dead == {memory_rte[i].prefix : i \in {k \in S : Collected(memory_rte[k])}}
  IN  /\ memory_rte' = [i \in Slots |-> IF i \in S THEN Updated(memory_rte[i])
                                                   ELSE memory_rte[i]]
      /\ age' = [i \in Slots |-> IF i \in S /\ Updated(memory_rte[i]) # memory_rte[i]
                                 THEN 0 ELSE age[i]]
      /\ trie' = [p \in Prefixes |-> IF p \in dead THEN NoRoute ELSE trie[p]]
      /\ rte_map' = [p \in Prefixes |-> IF p \in dead THEN 0 ELSE rte_map[p]]
      /\ UNCHANGED via

WriteRte(i, r, who) ==
  /\ memory_rte' = [memory_rte EXCEPT ![i] = r]
  /\ age' = [age EXCEPT ![i] = 0]
  /\ via' = [via EXCEPT ![i] = who]

FreeSlots == {k \in Slots \ {0} : ~memory_rte'[k].valid}

\* Slot k is the first invalid one from spare_memory_index on, round the table.
FirstFree(k) ==
  /\ k \in FreeSlots
  /\ \A l \in FreeSlots :
       IF k > spare_memory_index THEN k =< l \/ l =< spare_memory_index
                                 ELSE k =< l /\ l =< spare_memory_index

\* The loop that moves spare_memory_index on; with every slot valid it never ends.
AdvanceSpare(next) ==
  \/ FreeSlots = {} /\ pc' = "hung" /\ UNCHANGED slots
  \/ \E k \in Slots \ {0} :
       /\ FirstFree(k)
       /\ pc' = next
       /\ spare_memory_index' = k
       /\ slotsLapped' = (slotsLapped \/ k < spare_memory_index)

-----------------------------------------------------------------------------
(* Boot: start() configures one direct route per port, in port order, into *)
(* empty tables; entry 5 of the next hop table then gets the last address. *)

config_direct_route ==
  /\ pc = "boot"
  /\ LET p == cur.port
         x == DirectPrefix[p]
         last == p = PORT_NUM - 1
         hop == [nexthop_table EXCEPT ![spare_nexthop_index] = [addr |-> x, port |-> p]]
     IN  /\ nexthop_table' = IF last THEN [hop EXCEPT ![DefaultHop].addr = x] ELSE hop
         /\ spare_nexthop_index' = spare_nexthop_index + 1
         /\ trie' = [trie EXCEPT ![x] = Placed(x, "vc", spare_nexthop_index)]
         /\ rte_map' = [rte_map EXCEPT ![x] = spare_memory_index]
         /\ WriteRte(spare_memory_index,
                     [prefix |-> x, metric |-> 1, lower_timer |-> now,
                      valid |-> TRUE, direct |-> TRUE, port |-> p], NoAddr)
         /\ AdvanceSpare(IF last THEN "idle" ELSE "boot")
         /\ cur' = [cur EXCEPT !.port = IF last THEN 0 ELSE p + 1]
  /\ UNCHANGED <<pending, sent, now, multicast_timer, hopsLapped, sinceSweep>>

-----------------------------------------------------------------------------
(* Sending. *)

\* What port q gets from a list of answers: a later RTE for a prefix
\* overrides an earlier one of the same packet.
LastWord(s, q) ==
  {[prefix |-> s[k].prefix, metric |-> s[k].metric[q]] :
     k \in {k \in 1 .. Len(s) :
              \A l \in k + 1 .. Len(s) : s[l].prefix # s[k].prefix}}

\* A request is answered on its port, a triggered update goes to every port.
Recipients == IF pc = "request" THEN {cur.port} ELSE Ports
SendPending(s) ==
  sent' = [q \in Ports |-> IF q \in Recipients THEN LastWord(s, q) ELSE {}]

\* Append to send_entries; a full packet is sent at once.
Queue(x, metric) ==
  LET s == Append(pending, [prefix |-> x, metric |-> metric])
  IN  IF Len(s) = RIPNG_MAX_RTE_NUM
      THEN pending' = <<>> /\ SendPending(s)
      ELSE pending' = s /\ sent' = Silent

\* A triggered update, poisoned on the port the news came from.
Trigger(x, metric) ==
  Queue(x, [q \in Ports |-> IF q = cur.port THEN Infinity ELSE metric])
NoTrigger == UNCHANGED pending /\ sent' = Silent

\* send_response with no entries: the table up to spare_memory_index, each
\* slot first aged, learned routes poisoned on their own port.
\* Mutant: the sweep stops one slot early.
SweepSlotsShort == 1 .. spare_memory_index - 2
SweepSlots == 1 .. spare_memory_index - 1
\* Mutant: no poisoned reverse.
SweepMetricPlain(r, q) == r.metric
SweepMetric(r, q) == IF r.port = q /\ ~r.direct THEN Infinity ELSE r.metric
SendTable(q) ==
  /\ update_memory_rte(SweepSlots)
  /\ sent' = [Silent EXCEPT ![q] =
       {[prefix |-> memory_rte'[i].prefix, metric |-> SweepMetric(memory_rte'[i], q)] :
          i \in {k \in SweepSlots : memory_rte'[k].valid}}]

-----------------------------------------------------------------------------
(* The main loop. *)

Tick ==
  /\ pc # "boot" /\ sinceSweep < MaxGap
  /\ now' = IF now + 1 = TimerMod THEN 0 ELSE now + 1
  /\ age' = [i \in Slots |->
               IF memory_rte[i].valid /\ ~memory_rte[i].direct /\ age[i] < TimerMod
               THEN age[i] + 1 ELSE age[i]]
  /\ sinceSweep' = sinceSweep + 1
  /\ sent' = Silent
  /\ UNCHANGED <<pc, cur, pending, multicast_timer, hops, trie, rte_map,
                 memory_rte, via, slots>>

StartSweep ==
  /\ pc = "idle" /\ check_timeout(MULTICAST_TIME_LIMIT, multicast_timer)
  /\ pc' = "sweep"
  /\ cur' = [cur EXCEPT !.port = 0]
  /\ sent' = Silent
  /\ UNCHANGED <<pending, now, multicast_timer, hops, table, slots,
                 sinceSweep>>

\* send_unsolicited_response, one port at a time.
SweepPort ==
  /\ pc = "sweep"
  /\ SendTable(cur.port)
  /\ sinceSweep' = 0
  /\ IF cur.port + 1 < PORT_NUM
     THEN cur' = [cur EXCEPT !.port = @ + 1] /\ UNCHANGED <<pc, multicast_timer>>
     ELSE /\ pc' = "idle" /\ multicast_timer' = now
          /\ cur' = [cur EXCEPT !.port = 0]
  /\ UNCHANGED <<pending, now, hops, slots>>

\* A packet waits in the input FIFO: let the DMA engine write it.
GrantInput ==
  /\ pc = "idle" /\ ~check_timeout(MULTICAST_TIME_LIMIT, multicast_timer)
  /\ pc' = "granted"
  /\ sent' = Silent
  /\ UNCHANGED <<cur, pending, now, multicast_timer, hops, table,
                 slots, sinceSweep>>

Receive(n, cmd) ==
  /\ pc = "granted"
  /\ pc' = cmd
  /\ cur' = [port |-> n[2], src |-> n[1], len |-> 0]
  /\ sent' = Silent
  /\ UNCHANGED <<pending, now, multicast_timer, hops, table,
                 slots, sinceSweep>>

Done == pc' = "idle" /\ cur' = [port |-> 0, src |-> NoAddr, len |-> 0]
NextRte == UNCHANGED pc /\ cur' = [cur EXCEPT !.len = @ + 1]

\* A header or RTE fails a check: return, dropping what is still pending.
RejectPacket ==
  /\ pc \in {"request", "response"}
  /\ Done
  /\ pending' = <<>> /\ sent' = Silent
  /\ UNCHANGED <<now, multicast_timer, hops, table, slots, sinceSweep>>

EndPacket ==
  /\ pc \in {"request", "response"}
  /\ Done
  /\ pending' = <<>> /\ SendPending(pending)
  /\ UNCHANGED <<now, multicast_timer, hops, table, slots, sinceSweep>>

-----------------------------------------------------------------------------
(* One RTE of a request. *)

Reportable(r) == r.valid /\ r.port # cur.port /\ ~r.direct

RequestRte(p) ==
  /\ pc = "request" /\ cur.len < MaxRtes
  /\ \E j \in HopIndexes :
       FindOrAddHop(cur.src, cur.port, DefaultHop, spare_nexthop_index, j)
  /\ IF TrieLookup(p) THEN update_memory_rte({rte_map[p]}) ELSE UNCHANGED table
  /\ LET r == memory_rte'[rte_map[p]]
         metric == IF TrieLookup(p) /\ Reportable(r) THEN r.metric ELSE Infinity
     IN  Queue(p, [q \in Ports |-> metric])
  /\ NextRte
  /\ UNCHANGED <<now, multicast_timer, slots, sinceSweep>>

\* The only RTE is ::/0 with metric 16: reply with the whole table.
WholeTableRequest ==
  /\ pc = "request" /\ cur.len = 0
  /\ \E j \in HopIndexes :
       FindOrAddHop(cur.src, cur.port, DefaultHop, spare_nexthop_index, j)
  /\ SendTable(cur.port)
  /\ Done
  /\ UNCHANGED <<pending, now, multicast_timer, slots, sinceSweep>>

-----------------------------------------------------------------------------
(* One RTE of a response: prefix p with metric m, from hop index j. *)

\* Mutant: the metric is not capped at 16.
NewMetricUncapped(m) == m + 1
NewMetric(m) == IF m + 1 > Infinity THEN Infinity ELSE m + 1
\* Mutant: any port may speak for the route.
AnyHop(r) == TRUE
SameHop(r) == r.port = cur.port
Via(r, m) == [r EXCEPT !.metric = m, !.lower_timer = now,
                       !.valid = TRUE, !.direct = FALSE, !.port = cur.port]

\* A direct route, or worse news from a port the route does not use.
IgnoreRte(r, new) ==
  /\ \/ r.direct
     \/ ~SameHop(r) /\ (new = Infinity \/ new > r.metric)
  /\ NextRte /\ NoTrigger
  /\ UNCHANGED table

\* The route's own port reports it unreachable: start the GC timer.
Withdraw(i, r, p, new) ==
  /\ ~r.direct /\ SameHop(r) /\ new = Infinity
  /\ TrieLookup(r.prefix)
  /\ WriteRte(i, [r EXCEPT !.metric = Infinity, !.lower_timer = now], cur.src)
  /\ NextRte /\ Trigger(p, Infinity)
  /\ UNCHANGED <<trie, rte_map>>

\* ... and its prefix is not in the trie: ERR_TRIE.
WithdrawLost(i, r, new) ==
  /\ ~r.direct /\ SameHop(r) /\ new = Infinity
  /\ ~TrieLookup(r.prefix)
  /\ WriteRte(i, [Cleared(r) EXCEPT !.metric = Infinity], NoAddr)
  /\ Done /\ pending' = <<>> /\ sent' = Silent
  /\ UNCHANGED <<trie, rte_map>>

\* The route's own port reports a larger metric.
Worsen(i, r, p, new) ==
  /\ ~r.direct /\ SameHop(r) /\ new # Infinity /\ new > r.metric
  /\ WriteRte(i, [r EXCEPT !.metric = new, !.lower_timer = now], cur.src)
  /\ NextRte /\ Trigger(p, new)
  /\ UNCHANGED <<trie, rte_map>>

\* Another port offers the same metric and the route is half timed out.
SwitchHop(i, r, p, new, j) ==
  /\ ~r.direct /\ ~SameHop(r) /\ new # Infinity /\ new = r.metric
  /\ check_timeout(TIMEOUT_TIME_LIMIT \div 2, r.lower_timer)
  /\ trie' = TrieModified(r.prefix, j)
  /\ WriteRte(i, Via(r, r.metric), cur.src)
  /\ NextRte /\ Trigger(p, new)
  /\ UNCHANGED rte_map

\* The same metric again: restart the timer, whichever port it came from.
Renew(i, r, new) ==
  /\ ~r.direct /\ new # Infinity /\ new = r.metric
  /\ SameHop(r) \/ ~check_timeout(TIMEOUT_TIME_LIMIT \div 2, r.lower_timer)
  /\ WriteRte(i, [r EXCEPT !.lower_timer = now], via[i])
  /\ NextRte /\ NoTrigger
  /\ UNCHANGED <<trie, rte_map>>

\* A smaller metric: the trie's next hop changes only with the port.
Improve(i, r, p, new, j) ==
  /\ ~r.direct /\ new # Infinity /\ new < r.metric
  /\ trie' = IF SameHop(r) THEN trie ELSE TrieModified(r.prefix, j)
  /\ WriteRte(i, Via(r, new), cur.src)
  /\ NextRte /\ Trigger(p, new)
  /\ UNCHANGED rte_map

UpdateRoute(p, m, j) ==
  LET i == rte_map[p]
      r == memory_rte[i]
      new == NewMetric(m)
  IN  /\ TrieLookup(p)
      /\ \/ IgnoreRte(r, new)
         \/ Withdraw(i, r, p, new)
         \/ WithdrawLost(i, r, new)
         \/ Worsen(i, r, p, new)
         \/ SwitchHop(i, r, p, new, j)
         \/ Renew(i, r, new)
         \/ Improve(i, r, p, new, j)
      /\ UNCHANGED slots

SkipUnreachable(p, m) ==
  /\ ~TrieLookup(p) /\ m >= Infinity
  /\ NextRte /\ NoTrigger
  /\ UNCHANGED <<table, slots>>

AddRoute(p, m, j, tier) ==
  /\ ~TrieLookup(p) /\ m < Infinity
  /\ trie' = [trie EXCEPT ![p] = Placed(p, tier, j)]
  /\ rte_map' = [rte_map EXCEPT ![p] = spare_memory_index]
  /\ WriteRte(spare_memory_index,
              [prefix |-> p, metric |-> m + 1, lower_timer |-> now,
               valid |-> TRUE, direct |-> FALSE, port |-> cur.port], cur.src)
  /\ AdvanceSpare(pc)
  /\ cur' = [cur EXCEPT !.len = @ + 1]
  /\ Trigger(p, m + 1)

\* Neither trie has room: ERR_TRIE.
TrieFull(p, m) ==
  /\ ~TrieLookup(p) /\ m < Infinity /\ p # DefaultPrefix
  /\ Done /\ pending' = <<>> /\ sent' = Silent
  /\ UNCHANGED <<table, slots>>

\* The first RTE of an unknown neighbour takes the default hop's entry.
ResponseRte(p, m) ==
  /\ pc = "response" /\ cur.len < MaxRtes
  /\ \E j \in HopIndexes :
       /\ FindOrAddHop(cur.src, cur.port, DefaultHop,
                       IF cur.len = 0 THEN DefaultHop ELSE spare_nexthop_index, j)
       /\ \/ UpdateRoute(p, m, j)
          \/ SkipUnreachable(p, m)
          \/ \E tier \in Tiers : AddRoute(p, m, j, tier)
          \/ TrieFull(p, m)
  /\ UNCHANGED <<now, multicast_timer, sinceSweep>>

-----------------------------------------------------------------------------
Init ==
  /\ pc = "boot"
  /\ cur = [port |-> 0, src |-> NoAddr, len |-> 0]
  /\ pending = <<>> /\ sent = Silent
  /\ now = 0 /\ multicast_timer = 0
  /\ nexthop_table = [j \in HopIndexes |-> [addr |-> NoAddr, port |-> 0]]
  /\ spare_nexthop_index = FirstSpareHop
  /\ trie = [p \in Prefixes |-> NoRoute]
  /\ rte_map = [p \in Prefixes |-> 0]
  /\ memory_rte = [i \in Slots |->
       [prefix |-> DefaultPrefix, metric |-> 0, lower_timer |-> 0,
        valid |-> FALSE, direct |-> FALSE, port |-> 0]]
  /\ spare_memory_index = 1
  /\ age = [i \in Slots |-> 0] /\ via = [i \in Slots |-> NoAddr]
  /\ hopsLapped = FALSE /\ slotsLapped = FALSE
  /\ sinceSweep = 0

Environment ==
  \E n \in Neighbours, cmd \in {"request", "response"} : Receive(n, cmd)

Firmware ==
  \/ config_direct_route
  \/ StartSweep
  \/ SweepPort
  \/ GrantInput
  \/ \E e \in RxRtes : RequestRte(e[1])
  \/ WholeTableRequest
  \/ \E e \in RxRtes : ResponseRte(e[1], e[2])
  \/ RejectPacket
  \/ EndPacket

Next == Tick \/ Environment \/ Firmware

Spec == Init /\ [][Next]_vars

\* The CPU keeps running, its packets end, and time passes.
FairSpec == /\ Spec
            /\ WF_vars(Tick)
            /\ WF_vars(config_direct_route \/ StartSweep \/ SweepPort)
            /\ WF_vars(\E n \in Neighbours, cmd \in {"request", "response"} : Receive(n, cmd))
            /\ WF_vars(EndPacket)

-----------------------------------------------------------------------------
(* Properties. *)

Learned(i) == memory_rte[i].valid /\ ~memory_rte[i].direct
Listed(i) == memory_rte[i].valid /\ i # 0

\* Prefix p is in the trie exactly when it has one record, at rte_map[p].
Consistent(p) ==
  /\ trie[p].tier # "none" =>
       rte_map[p] # 0 /\ Listed(rte_map[p]) /\ memory_rte[rte_map[p]].prefix = p
  /\ \A i \in Slots : Listed(i) /\ memory_rte[i].prefix = p =>
       trie[p].tier # "none" /\ rte_map[p] = i

\* No prefix that is announced or asked for covers another the binary trie may
\* hold: its lookups also find the nodes on the path to one.
NoneCovers ==
  "bt" \in Tiers =>
    \A e, f \in RxRtes : e[1] # DefaultPrefix => e[1] \notin Above[f[1]]

\* The trie, rte_map and memory_rte describe the same set of routes.  ::/0 is
\* left out when a node without a route can be found: its zeroed record can
\* then become a second ::/0.
Tracked(p) == p # DefaultPrefix \/ NoneCovers
MapConsistent == \A p \in Prefixes : Tracked(p) => Consistent(p)

\* Until spare_memory_index wraps, the 8-bit timer of every learned route
\* shows its true age: no route is skipped by the sweeps long enough for the
\* difference in check_timeout to wrap around.
TimerExact ==
  ~slotsLapped =>
    \A i \in Slots \ {0} : Learned(i) => Elapsed(memory_rte[i].lower_timer) = age[i]

\* Until spare_memory_index wraps, a periodic update covers every route.
SweepCoversTable ==
  ~slotsLapped /\ pc # "hung" => \A i \in Slots : Listed(i) => i \in SweepSlots

\* The search for an invalid slot ends as long as there are fewer routes than
\* slots: expired routes give theirs back.
NeverHung == pc # "hung"

LeavesBy(i) == nexthop_table[trie[memory_rte[i].prefix].nh].port = memory_rte[i].port

\* The next hop the datapath uses for a learned route leaves by the port the
\* routing table holds for it, for entries above the default one and until
\* spare_nexthop_index wraps.
HopPortAgrees ==
  ~hopsLapped => \A i \in Slots :
    Listed(i) /\ trie[memory_rte[i].prefix].nh # DefaultHop => LeavesBy(i)

\* The next hop found for any route but ::/0 leaves by the port of the routing
\* table.  It does not: the first RTE of a new neighbour overwrites entry
\* DefaultHop, which an earlier neighbour's routes may point to.
HopAlwaysAgrees ==
  ~hopsLapped => \A i \in Slots :
    Listed(i) /\ memory_rte[i].prefix # DefaultPrefix => LeavesBy(i)

\* When no response comes in any more, every learned route times out, is
\* collected and leaves the trie, as long as the sweeps reach its slot.
RoutesFade ==
  <>[](pc # "response") /\ []~slotsLapped =>
    <>[](\A i \in Slots \ {0} : ~Learned(i))

\* Nothing a neighbour sends changes or removes a direct route.
DirectStays ==
  [][\A i \in Slots : memory_rte[i].direct =>
       /\ memory_rte'[i] = memory_rte[i]
       /\ trie'[memory_rte[i].prefix] = trie[memory_rte[i].prefix]]_vars

\* A learned route gets worse only by a response from its own port or by its
\* timer, never by what another port reports.
OnlyOwnPortWorsens ==
  [][\A i \in Slots :
       Learned(i) /\ memory_rte'[i].valid
       /\ memory_rte'[i].metric > memory_rte[i].metric =>
         \/ pc = "response" /\ cur.port = memory_rte[i].port
         \/ memory_rte'[i].metric = Infinity /\ age[i] >= TIMEOUT_TIME_LIMIT]_vars

\* The route to p as port q may hear it: poisoned where it was learned.
Heard(p, q) ==
  IF trie[p].tier = "none" THEN {Infinity}
  ELSE LET r == memory_rte[rte_map[p]]
       IN  IF r.direct THEN {r.metric, Infinity}
           ELSE IF r.port = q THEN {Infinity} ELSE {r.metric}

\* What leaves a port is what the table says at that moment, with poisoned
\* reverse, however the RTEs of one packet touched the same prefix.
AdvertsTrue ==
  [][\A q \in Ports : \A a \in sent'[q] : a.metric \in Heard(a.prefix, q)']_vars
=============================================================================
