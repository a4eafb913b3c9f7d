------------------------- MODULE RipTableTimerProofs -------------------------
(* The 8-bit timers of learned routes tell their true age.                 *)
(*                                                                         *)
(* A timer is kept modulo TimerMod, so its difference to mtime is the age  *)
(* of the route only if no route grows older than TimerMod ticks.  The     *)
(* inductive invariant bounds the age: a sweep leaves no route older than  *)
(* its limit, because it reaches every slot in use as long as              *)
(* spare_memory_index has not wrapped; afterwards the age grows only with  *)
(* sinceSweep.                                                             *)
EXTENDS RipTableMapProofs

Limit(r) == IF r.metric = Infinity THEN GARBAGE_COLLECTION_TIME_LIMIT ELSE TIMEOUT_TIME_LIMIT

\* Every slot in use lies below the spare one.
Below == ~slotsLapped /\ pc # "hung" =>
           \A i \in Slots \ {0} : memory_rte[i].valid => i < spare_memory_index

\* The timer of a learned route is its age, bounded by its limit.
AgeBounded ==
  ~slotsLapped =>
    \A i \in Slots \ {0} : Learned(i) =>
      /\ Elapsed(memory_rte[i].lower_timer) = age[i]
      /\ age[i] < Limit(memory_rte[i]) + sinceSweep

TimerInv == Below /\ AgeBounded

-----------------------------------------------------------------------------
LEMMA ElapsedNow ==
  ASSUME now \in Clock
  PROVE  Elapsed(now) = 0
BY TimerAssumption DEF Elapsed, Clock

LEMMA LimitPositive ==
  ASSUME NEW r
  PROVE  /\ Limit(r) \in Nat \ {0}
         /\ Limit(r) + MaxGap =< TimerMod
BY TimerAssumption DEF Limit

\* Below the wrap-around a tick makes the difference one larger.
LEMMA ElapsedTick ==
  ASSUME now \in Clock, NEW t \in Clock, Elapsed(t) < TimerMod - 1,
         now' = IF now + 1 = TimerMod THEN 0 ELSE now + 1
  PROVE  Elapsed(t)' = Elapsed(t) + 1
BY TimerAssumption DEF Elapsed, Clock

LEMMA TimerImplies == TimerInv => TimerExact
BY DEF TimerInv, AgeBounded, TimerExact

LEMMA BelowImplies == TypeOK /\ TimerInv => SweepCoversTable
<1> SUFFICES ASSUME TypeOK, TimerInv, ~slotsLapped, pc # "hung",
                    NEW i \in Slots, Listed(i)
             PROVE  i \in SweepSlots
  BY DEF SweepCoversTable
<1>1. i \in 0 .. NUM_MEMORY_RTE - 1 /\ i # 0 /\ memory_rte[i].valid
  BY DEF Listed, Slots
<1>2. i < spare_memory_index /\ spare_memory_index \in 1 .. NUM_MEMORY_RTE - 1
  BY <1>1 DEF TimerInv, Below, TypeOK, SlotType
<1> QED BY <1>1, <1>2, SizeAssumption DEF SweepSlots

LEMMA InitTimer == Init => TimerInv
BY DEF Init, TimerInv, Below, AgeBounded, Learned

\* A step that leaves table, slots and clock alone keeps TimerInv.
LEMMA TimerFixed ==
  ASSUME TimerInv, pc # "hung" \/ pc' = "hung",
         UNCHANGED <<memory_rte, age, now, sinceSweep, spare_memory_index, slotsLapped>>
  PROVE  TimerInv'
BY DEF TimerInv, Below, AgeBounded, Learned, Elapsed, Limit

\* Ageing: a route that neither lapses nor is collected is younger than its limit.
LEMMA TimerUpdate ==
  ASSUME TypeOK, TimerInv, NEW S \in SUBSET Slots, update_memory_rte(S),
         UNCHANGED <<now, spare_memory_index, slotsLapped>>,
         pc # "hung" \/ pc' = "hung",
         sinceSweep' \in Nat,
         \/ sinceSweep' = sinceSweep
         \/ \A i \in Slots \ {0} : ~slotsLapped /\ memory_rte[i].valid => i \in S
  PROVE  TimerInv'
<1> USE DEF TypeOK, TableType
<1>1. \A i \in Slots : /\ memory_rte'[i] = IF i \in S THEN Updated(memory_rte[i]) ELSE memory_rte[i]
                       /\ age'[i] = IF i \in S /\ Updated(memory_rte[i]) # memory_rte[i]
                                    THEN 0 ELSE age[i]
  BY DEF update_memory_rte
<1>2. \A i \in Slots : memory_rte'[i].valid => memory_rte[i].valid
  <2> TAKE i \in Slots
  <2>1. memory_rte[i] \in Rte
    OBVIOUS
  <2> QED BY <1>1, <2>1 DEF Updated, Cleared, Lapses, Rte
<1>3. Below'
  BY <1>2 DEF TimerInv, Below
<1>4. ASSUME ~slotsLapped', NEW i \in Slots \ {0}, Learned(i)'
      PROVE  /\ Elapsed(memory_rte[i].lower_timer)' = age'[i]
             /\ age'[i] < Limit(memory_rte'[i]) + sinceSweep'
  <2> DEFINE r == memory_rte[i]
  <2>1. r \in Rte /\ age[i] \in 0 .. TimerMod /\ now \in Clock
    BY DEF ControlType
  <2>2. \A t : Elapsed(t)' = Elapsed(t)
    BY DEF Elapsed
  <2>3. CASE i \in S /\ Lapses(r)
    <3>1. memory_rte'[i] = [r EXCEPT !.metric = Infinity, !.lower_timer = now] /\ r.metric # Infinity
      BY <1>1, <2>3 DEF Updated, Lapses
    <3>2. memory_rte'[i].lower_timer = now /\ memory_rte'[i] # r
      BY <2>1, <3>1 DEF Rte
    <3>3. age'[i] = 0
      BY <1>1, <2>3, <3>1, <3>2
    <3> QED BY <2>1, <2>2, <3>2, <3>3, ElapsedNow, LimitPositive
  <2>4. CASE i \in S /\ ~Lapses(r) /\ Collected(r)
    <3>1. ~memory_rte'[i].valid
      BY <1>1, <2>1, <2>4 DEF Updated, Cleared, Rte
    <3> QED BY <1>4, <3>1 DEF Learned
  <2>5. CASE i \notin S \/ (~Lapses(r) /\ ~Collected(r))
    <3>1. memory_rte'[i] = r /\ age'[i] = age[i]
      BY <1>1, <2>5 DEF Updated
    <3>2. r.valid /\ ~r.direct /\ ~slotsLapped
      BY <1>4, <3>1 DEF Learned
    <3>3. Elapsed(r.lower_timer) = age[i] /\ age[i] < Limit(r) + sinceSweep
      BY <3>2 DEF TimerInv, AgeBounded, Learned
    <3>4. CASE sinceSweep' = sinceSweep
      BY <2>2, <3>1, <3>3, <3>4
    <3>5. CASE i \in S
      <4>1. ~(Elapsed(r.lower_timer) >= Limit(r))
        BY <2>5, <3>2, <3>5 DEF Lapses, Collected, check_timeout, Limit
      <4>2. age[i] < Limit(r)
        BY <2>1, <3>3, <4>1, LimitPositive
      <4> QED BY <2>1, <2>2, <3>1, <3>3, <4>2, LimitPositive
    <3> QED BY <3>2, <3>4, <3>5
  <2> QED BY <2>3, <2>4, <2>5
<1> QED BY <1>3, <1>4 DEF TimerInv, AgeBounded

\* Restarting the timer of one record, of a slot in use or of slot 0.
LEMMA TimerWrite ==
  ASSUME TypeOK, TimerInv, NEW i \in Slots, NEW r \in Rte, NEW who, WriteRte(i, r, who),
         i # 0 => memory_rte[i].valid,
         r.lower_timer = now \/ ~r.valid,
         UNCHANGED <<now, sinceSweep, spare_memory_index, slotsLapped>>, pc # "hung"
  PROVE  TimerInv'
<1> USE DEF TypeOK, TableType
<1>1. \A k \in Slots : /\ memory_rte'[k] = IF k = i THEN r ELSE memory_rte[k]
                       /\ age'[k] = IF k = i THEN 0 ELSE age[k]
  BY DEF WriteRte
<1>2. Below'
  BY <1>1 DEF TimerInv, Below
<1>3. ASSUME ~slotsLapped', NEW k \in Slots \ {0}, Learned(k)'
      PROVE  /\ Elapsed(memory_rte[k].lower_timer)' = age'[k]
             /\ age'[k] < Limit(memory_rte'[k]) + sinceSweep'
  <2>1. \A t : Elapsed(t)' = Elapsed(t)
    BY DEF Elapsed
  <2>2. CASE k = i
    <3>1. memory_rte'[k].lower_timer = now /\ age'[k] = 0
      BY <1>1, <1>3, <2>2 DEF Learned
    <3> QED BY <2>1, <3>1, ElapsedNow, LimitPositive DEF ControlType
  <2>3. CASE k # i
    BY <1>1, <1>3, <2>1, <2>3 DEF TimerInv, AgeBounded, Learned
  <2> QED BY <2>2, <2>3
<1> QED BY <1>2, <1>3 DEF TimerInv, AgeBounded

\* Taking the spare slot: the next spare one lies above it, or wraps.
LEMMA TimerAdd ==
  ASSUME TypeOK, TimerInv, NEW r \in Rte, r.valid, r.lower_timer = now, NEW who,
         WriteRte(spare_memory_index, r, who), NEW next, AdvanceSpare(next),
         UNCHANGED <<now, sinceSweep>>, pc # "hung"
  PROVE  TimerInv'
<1> DEFINE i == spare_memory_index
<1> USE DEF TypeOK, TableType
<1>0. i \in Slots \ {0} /\ i \in Nat
  BY SizeAssumption DEF SlotType, Slots
<1>1. \A k \in Slots : /\ memory_rte'[k] = IF k = i THEN r ELSE memory_rte[k]
                       /\ age'[k] = IF k = i THEN 0 ELSE age[k]
  BY <1>0 DEF WriteRte
<1>2. ~slotsLapped' => ~slotsLapped
  BY DEF AdvanceSpare, slots
<1>3. Below'
  <2> SUFFICES ASSUME ~slotsLapped', pc' # "hung", NEW k \in Slots \ {0}, memory_rte'[k].valid
               PROVE  k < spare_memory_index'
    BY DEF Below
  <2>1. PICK n \in Slots \ {0} : /\ FirstFree(n) /\ spare_memory_index' = n
                                 /\ slotsLapped' = (slotsLapped \/ n < i)
    BY DEF AdvanceSpare
  <2>2. ~(n < i) /\ n # i
    BY <1>0, <1>1, <2>1 DEF FirstFree, FreeSlots
  <2>3. k =< i
    BY <1>0, <1>1, <1>2 DEF TimerInv, Below, Slots
  <2> QED BY <1>0, <2>1, <2>2, <2>3 DEF Slots
<1>4. ASSUME ~slotsLapped', NEW k \in Slots \ {0}, Learned(k)'
      PROVE  /\ Elapsed(memory_rte[k].lower_timer)' = age'[k]
             /\ age'[k] < Limit(memory_rte'[k]) + sinceSweep'
  <2>1. \A t : Elapsed(t)' = Elapsed(t)
    BY DEF Elapsed
  <2>2. CASE k = i
    BY <1>1, <2>1, <2>2, ElapsedNow, LimitPositive DEF ControlType
  <2>3. CASE k # i
    BY <1>1, <1>2, <1>4, <2>1, <2>3 DEF TimerInv, AgeBounded, Learned
  <2> QED BY <2>2, <2>3
<1> QED BY <1>3, <1>4 DEF TimerInv, AgeBounded

-----------------------------------------------------------------------------
LEMMA TimerTick ==
  ASSUME TypeOK, TimerInv, Tick
  PROVE  TimerInv'
<1> USE DEF TypeOK, TableType
<1>1. Below'
  BY DEF Tick, slots, TimerInv, Below
<1>2. ASSUME ~slotsLapped', NEW i \in Slots \ {0}, Learned(i)'
      PROVE  /\ Elapsed(memory_rte[i].lower_timer)' = age'[i]
             /\ age'[i] < Limit(memory_rte'[i]) + sinceSweep'
  <2>1. memory_rte' = memory_rte /\ ~slotsLapped /\ Learned(i)
    BY <1>2 DEF Tick, slots, Learned
  <2>2. /\ Elapsed(memory_rte[i].lower_timer) = age[i]
        /\ age[i] < Limit(memory_rte[i]) + sinceSweep
    BY <2>1 DEF TimerInv, AgeBounded
  <2>3. memory_rte[i].lower_timer \in Clock /\ age[i] \in 0 .. TimerMod
    BY DEF Rte
  <2>4. age[i] < TimerMod - 1 /\ sinceSweep \in Nat
    BY <2>2, <2>3, LimitPositive, TimerAssumption DEF Tick, ControlType
  <2>5. age'[i] = age[i] + 1
    BY <2>1, <2>4, TimerAssumption DEF Tick, Learned
  <2>6. Elapsed(memory_rte[i].lower_timer)' = Elapsed(memory_rte[i].lower_timer) + 1
    <3> DEFINE t == memory_rte[i].lower_timer
    <3>1. t' = t
      BY <2>1
    <3>2. now \in Clock /\ now' = IF now + 1 = TimerMod THEN 0 ELSE now + 1
      BY DEF Tick, ControlType
    <3>3. t \in Clock /\ Elapsed(t) < TimerMod - 1
      BY <2>2, <2>3, <2>4
    <3> QED BY <3>1, <3>2, <3>3, TimerAssumption DEF Elapsed, Clock
  <2>7. sinceSweep' = sinceSweep + 1
    BY DEF Tick
  <2> QED BY <2>1, <2>2, <2>3, <2>4, <2>5, <2>6, <2>7, LimitPositive
<1> QED BY <1>1, <1>2 DEF TimerInv, AgeBounded

LEMMA TimerUpdateRoute ==
  ASSUME TypeOK, MapInv, TimerInv, pc = "response", cur.len < MaxRtes,
         NEW p, NEW m, <<p, m>> \in RxRtes, NEW j \in HopIndexes, UpdateRoute(p, m, j),
         UNCHANGED <<now, sinceSweep>>
  PROVE  TimerInv'
<1> DEFINE i == rte_map[p]
           r == memory_rte[i]
           new == NewMetric(m)
<1> USE DEF TypeOK
<1>1. p \in Prefixes /\ new \in 0 .. Infinity /\ pc # "hung"
  BY NewMetricType
<1>2. i \in Slots /\ r \in Rte /\ now \in Clock
  BY <1>1 DEF TableType, ControlType
<1>3. spare_memory_index' = spare_memory_index /\ slotsLapped' = slotsLapped
  BY DEF UpdateRoute, slots
<1>4. i # 0 => r.valid
  BY <1>1 DEF MapInv, MapForward
<1>5. \A k \in 0 .. Infinity :
        /\ [r EXCEPT !.metric = k, !.lower_timer = now] \in Rte
        /\ [r EXCEPT !.metric = k, !.lower_timer = now].lower_timer = now
        /\ Via(r, k) \in Rte /\ Via(r, k).lower_timer = now
  BY <1>2, CurType DEF Rte, Via
<1>6. ASSUME NEW t \in Rte, NEW who, WriteRte(i, t, who), t.lower_timer = now \/ ~t.valid
      PROVE  TimerInv'
  BY <1>1, <1>2, <1>3, <1>4, <1>6, TimerWrite
<1> HIDE DEF i, r, new
<1>7. CASE IgnoreRte(r, new)
  BY <1>1, <1>3, <1>7, TimerFixed DEF IgnoreRte, table
<1>8. CASE Withdraw(i, r, p, new) \/ Worsen(i, r, p, new)
  BY <1>1, <1>5, <1>6, <1>8, Literals DEF Withdraw, Worsen
<1>9. CASE WithdrawLost(i, r, new)
  <2>1. /\ [Cleared(r) EXCEPT !.metric = Infinity] \in Rte
        /\ ~[Cleared(r) EXCEPT !.metric = Infinity].valid
    BY <1>2, Literals, ClearedType DEF Cleared, Rte
  <2> QED BY <1>6, <1>9, <2>1 DEF WithdrawLost
<1>10. CASE SwitchHop(i, r, p, new, j) \/ Improve(i, r, p, new, j)
  <2>1. r.metric \in 0 .. Infinity
    BY <1>2 DEF Rte
  <2> QED BY <1>1, <1>5, <1>6, <1>10, <2>1 DEF SwitchHop, Improve
<1>11. CASE Renew(i, r, new)
  <2>1. /\ [r EXCEPT !.lower_timer = now] \in Rte
        /\ [r EXCEPT !.lower_timer = now].lower_timer = now
    BY <1>2 DEF Rte
  <2> QED BY <1>6, <1>11, <2>1 DEF Renew
<1> QED BY <1>7, <1>8, <1>9, <1>10, <1>11 DEF UpdateRoute, i, r, new

LEMMA TimerResponse ==
  ASSUME TypeOK, MapInv, TimerInv, NEW p, NEW m, <<p, m>> \in RxRtes, ResponseRte(p, m)
  PROVE  TimerInv'
<1> USE DEF TypeOK
<1>1. PICK j \in HopIndexes :
        \/ UpdateRoute(p, m, j)
        \/ SkipUnreachable(p, m)
        \/ \E tier \in Tiers : AddRoute(p, m, j, tier)
        \/ TrieFull(p, m)
  BY DEF ResponseRte
<1>2. /\ pc = "response" /\ cur.len < MaxRtes
      /\ UNCHANGED <<now, sinceSweep>>
  BY DEF ResponseRte
<1>3. CASE UpdateRoute(p, m, j)
  BY <1>2, <1>3, TimerUpdateRoute
<1>4. CASE SkipUnreachable(p, m) \/ TrieFull(p, m)
  BY <1>2, <1>4, TimerFixed DEF SkipUnreachable, TrieFull, table, slots
<1>5. ASSUME NEW tier \in Tiers, AddRoute(p, m, j, tier) PROVE TimerInv'
  <2> DEFINE r == [prefix |-> p, metric |-> m + 1, lower_timer |-> now,
                   valid |-> TRUE, direct |-> FALSE, port |-> cur.port]
  <2>1. p \in Prefixes /\ m + 1 \in 0 .. Infinity
    BY <1>5, NewMetricType DEF AddRoute
  <2>2. r \in Rte /\ r.valid /\ r.lower_timer = now
    BY <2>1, CurType DEF Rte, ControlType
  <2>3. WriteRte(spare_memory_index, r, cur.src) /\ AdvanceSpare(pc)
    BY <1>5 DEF AddRoute
  <2> HIDE DEF r
  <2> QED BY <1>2, <2>2, <2>3, TimerAdd
<1> QED BY <1>1, <1>3, <1>4, <1>5

LEMMA TimerBoot ==
  ASSUME TypeOK, TimerInv, config_direct_route
  PROVE  TimerInv'
<1> DEFINE r == [prefix |-> DirectPrefix[cur.port], metric |-> 1, lower_timer |-> now,
                 valid |-> TRUE, direct |-> TRUE, port |-> cur.port]
<1>1. r \in Rte /\ r.valid /\ r.lower_timer = now
  BY PrefixAssumption, CurType, Literals DEF Rte, ControlType, TypeOK
<1>2. /\ WriteRte(spare_memory_index, r, NoAddr) /\ pc = "boot"
      /\ AdvanceSpare(IF cur.port = PORT_NUM - 1 THEN "idle" ELSE "boot")
      /\ UNCHANGED <<now, sinceSweep>>
  BY DEF config_direct_route
<1> HIDE DEF r
<1> QED BY <1>1, <1>2, TimerAdd

LEMMA TimerStep == TypeInv /\ MapInv /\ TimerInv /\ [Next]_vars => TimerInv'
<1> SUFFICES ASSUME TypeInv, MapInv, TimerInv, [Next]_vars PROVE TimerInv'
  OBVIOUS
<1> USE DEF TypeInv, TypeOK
<1>1. SweepSlots \subseteq Slots /\ sinceSweep \in Nat
  BY SizeAssumption DEF SweepSlots, Slots, SlotType, ControlType
<1>2. CASE config_direct_route
  BY <1>2, TimerBoot
<1>3. ASSUME NEW e \in RxRtes, RequestRte(e[1]) PROVE TimerInv'
  <2>1. e[1] \in Prefixes /\ pc = "request"
    BY <1>3, PrefixAssumption DEF RequestRte
  <2>2. UNCHANGED <<now, sinceSweep, spare_memory_index, slotsLapped>>
    BY <1>3 DEF RequestRte, slots
  <2>3. CASE TrieLookup(e[1])
    <3>1. {rte_map[e[1]]} \subseteq Slots
      BY <2>1 DEF TableType
    <3> QED BY <1>1, <1>3, <2>1, <2>2, <2>3, <3>1, TimerUpdate DEF RequestRte
  <2>4. CASE ~TrieLookup(e[1])
    BY <1>3, <2>1, <2>2, <2>4, TimerFixed DEF RequestRte, table
  <2> QED BY <2>3, <2>4
<1>4. CASE WholeTableRequest
  BY <1>1, <1>4, TimerUpdate DEF WholeTableRequest, SendTable, slots
<1>5. CASE SweepPort
  <2>1. \A i \in Slots \ {0} : ~slotsLapped /\ memory_rte[i].valid => i \in SweepSlots
    BY <1>5, BelowImplies DEF SweepCoversTable, Listed, SweepPort
  <2> QED BY <1>1, <1>5, <2>1, TimerUpdate DEF SweepPort, SendTable, slots
<1>6. ASSUME NEW e \in RxRtes, ResponseRte(e[1], e[2]) PROVE TimerInv'
  <2>1. <<e[1], e[2]>> \in RxRtes
    BY PrefixAssumption
  <2> QED BY <1>6, <2>1, TimerResponse
<1>7. CASE StartSweep \/ GrantInput \/ RejectPacket \/ EndPacket
  BY <1>7, TimerFixed DEF StartSweep, GrantInput, RejectPacket, EndPacket, table, slots
<1>8. CASE Environment
  BY <1>8, TimerFixed DEF Environment, Receive, table, slots
<1>9. CASE Tick
  BY <1>9, TimerTick
<1>10. CASE UNCHANGED vars
  BY <1>10, TimerFixed DEF vars
<1> QED BY <1>2, <1>3, <1>4, <1>5, <1>6, <1>7, <1>8, <1>9, <1>10 DEF Next, Firmware

LEMMA TimerInvariant == Spec => [](TypeInv /\ MapInv /\ TimerInv)
<1>1. Init => TypeInv /\ MapInv /\ TimerInv
  BY InitType, InitMap, InitTimer
<1>2. TypeInv /\ MapInv /\ TimerInv /\ [Next]_vars => (TypeInv /\ MapInv /\ TimerInv)'
  BY StepType, MapStep, TimerStep
<1> QED BY <1>1, <1>2, PTL DEF Spec

\* Until spare_memory_index wraps, check_timeout's 8-bit difference is the true
\* age of every learned route, if the table is swept every MaxGap ticks.
THEOREM TimersAlwaysExact == Spec => []TimerExact
<1>1. TypeInv /\ MapInv /\ TimerInv => TimerExact
  BY TimerImplies
<1> QED BY <1>1, TimerInvariant, PTL

\* Until spare_memory_index wraps, send_response's loop over the slots below it
\* meets every route.
THEOREM SweepsAlwaysCover == Spec => []SweepCoversTable
<1>1. TypeInv /\ MapInv /\ TimerInv => SweepCoversTable
  BY BelowImplies DEF TypeInv
<1> QED BY <1>1, TimerInvariant, PTL

-----------------------------------------------------------------------------
(* Who may make a route worse.  A timer that is said to have expired has     *)
(* expired, even after spare_memory_index has wrapped: check_timeout's       *)
(* difference may then be too small, but never too large.                    *)

\* The timer of a learned route shows at most its age.
AgeCovers == \A i \in Slots : Learned(i) => Elapsed(memory_rte[i].lower_timer) =< age[i]

Ages == TypeInv /\ MapInv /\ AgeCovers

\* A step makes no learned route worse but for its own port or its timer.
OwnPortOnly ==
  \A i \in Slots :
    Learned(i) /\ memory_rte'[i].valid
    /\ memory_rte'[i].metric > memory_rte[i].metric =>
      \/ pc = "response" /\ cur.port = memory_rte[i].port
      \/ memory_rte'[i].metric = Infinity /\ age[i] >= TIMEOUT_TIME_LIMIT

LEMMA MetricType ==
  ASSUME TypeOK, NEW i \in Slots
  PROVE  /\ memory_rte[i] \in Rte /\ memory_rte[i].metric \in Int
         /\ memory_rte[i].lower_timer \in Clock
         /\ age[i] \in 0 .. TimerMod /\ now \in Clock
BY DEF TypeOK, TableType, ControlType, Rte

LEMMA AgeFixed ==
  ASSUME TypeOK, AgeCovers, UNCHANGED <<memory_rte, age, now>>
  PROVE  AgeCovers' /\ OwnPortOnly
<1>1. AgeCovers'
  BY DEF AgeCovers, Learned, Elapsed
<1>2. OwnPortOnly
  BY MetricType DEF OwnPortOnly
<1> QED BY <1>1, <1>2

LEMMA AgeUpdate ==
  ASSUME TypeOK, AgeCovers, NEW S, S \subseteq Slots, update_memory_rte(S), UNCHANGED now
  PROVE  AgeCovers' /\ OwnPortOnly
<1>1. \A i \in Slots : /\ memory_rte'[i] = IF i \in S THEN Updated(memory_rte[i]) ELSE memory_rte[i]
                       /\ age'[i] = IF i \in S /\ Updated(memory_rte[i]) # memory_rte[i]
                                    THEN 0 ELSE age[i]
  BY DEF update_memory_rte
<1>2. \A t : Elapsed(t)' = Elapsed(t)
  BY DEF Elapsed
<1>3. ASSUME NEW i \in Slots
      PROVE  /\ Learned(i)' => Elapsed(memory_rte'[i].lower_timer) =< age'[i]
             /\ Learned(i) /\ memory_rte'[i].valid
                /\ memory_rte'[i].metric > memory_rte[i].metric =>
                  memory_rte'[i].metric = Infinity /\ age[i] >= TIMEOUT_TIME_LIMIT
  <2> DEFINE r == memory_rte[i]
  <2>1. /\ r \in Rte /\ r.metric \in Int /\ r.lower_timer \in Clock
        /\ age[i] \in 0 .. TimerMod /\ now \in Clock
    BY MetricType
  <2>2. CASE i \in S /\ Lapses(r)
    <3>1. memory_rte'[i] = [r EXCEPT !.metric = Infinity, !.lower_timer = now] /\ r.metric # Infinity
      BY <1>1, <2>2 DEF Updated, Lapses
    <3>2. memory_rte'[i].lower_timer = now /\ memory_rte'[i].metric = Infinity /\ memory_rte'[i] # r
      BY <2>1, <3>1 DEF Rte
    <3>3. age'[i] = 0 /\ Elapsed(memory_rte'[i].lower_timer) = 0
      BY <1>1, <2>1, <2>2, <3>1, <3>2, ElapsedNow
    <3>4. Learned(i) /\ Elapsed(r.lower_timer) >= TIMEOUT_TIME_LIMIT
      BY <2>2 DEF Lapses, Learned, check_timeout
    <3>5. Elapsed(r.lower_timer) =< age[i]
      BY <3>4 DEF AgeCovers
    <3>6. Elapsed(r.lower_timer) \in Int
      BY <2>1, TimerAssumption DEF Elapsed, Clock
    <3> QED BY <2>1, <3>2, <3>3, <3>4, <3>5, <3>6, TimerAssumption
  <2>3. CASE i \in S /\ ~Lapses(r) /\ Collected(r)
    <3>1. ~memory_rte'[i].valid
      BY <1>1, <2>1, <2>3 DEF Updated, Cleared, Rte
    <3> QED BY <3>1 DEF Learned
  <2>4. CASE i \notin S \/ (~Lapses(r) /\ ~Collected(r))
    <3>1. memory_rte'[i] = r /\ age'[i] = age[i]
      BY <1>1, <2>4 DEF Updated
    <3> QED BY <2>1, <3>1 DEF AgeCovers, Learned
  <2> QED BY <2>2, <2>3, <2>4
<1>4. AgeCovers'
  BY <1>2, <1>3 DEF AgeCovers
<1>5. OwnPortOnly
  BY <1>3 DEF OwnPortOnly
<1> QED BY <1>4, <1>5

LEMMA AgeWrite ==
  ASSUME TypeOK, AgeCovers, NEW i \in Slots, NEW r \in Rte, NEW who, WriteRte(i, r, who),
         UNCHANGED now, r.lower_timer = now \/ ~r.valid,
         Learned(i) /\ r.valid /\ r.metric > memory_rte[i].metric =>
           pc = "response" /\ cur.port = memory_rte[i].port
  PROVE  AgeCovers' /\ OwnPortOnly
<1>1. \A k \in Slots : /\ memory_rte'[k] = IF k = i THEN r ELSE memory_rte[k]
                       /\ age'[k] = IF k = i THEN 0 ELSE age[k]
  BY DEF WriteRte, TypeOK, TableType
<1>2. \A t : Elapsed(t)' = Elapsed(t)
  BY DEF Elapsed
<1>3. AgeCovers'
  <2> SUFFICES ASSUME NEW k \in Slots, Learned(k)'
               PROVE  Elapsed(memory_rte'[k].lower_timer) =< age'[k]
    BY <1>2 DEF AgeCovers
  <2>1. CASE k = i
    <3>1. memory_rte'[k].lower_timer = now /\ age'[k] = 0
      BY <1>1, <2>1 DEF Learned
    <3> QED BY <3>1, ElapsedNow, MetricType
  <2>2. CASE k # i
    BY <1>1, <2>2 DEF AgeCovers, Learned
  <2> QED BY <2>1, <2>2
<1>4. OwnPortOnly
  <2> SUFFICES ASSUME NEW k \in Slots, Learned(k), memory_rte'[k].valid,
                      memory_rte'[k].metric > memory_rte[k].metric
               PROVE  pc = "response" /\ cur.port = memory_rte[k].port
    BY DEF OwnPortOnly
  <2>1. k = i
    BY <1>1, MetricType
  <2> QED BY <1>1, <2>1
<1> QED BY <1>3, <1>4

LEMMA AgeTick ==
  ASSUME TypeOK, AgeCovers, Tick
  PROVE  AgeCovers' /\ OwnPortOnly
<1>1. memory_rte' = memory_rte
  BY DEF Tick
<1>2. ASSUME NEW i \in Slots, Learned(i)' PROVE Elapsed(memory_rte[i].lower_timer)' =< age'[i]
  <2> DEFINE t == memory_rte[i].lower_timer
  <2>1. t \in Clock /\ now \in Clock /\ age[i] \in 0 .. TimerMod /\ t' = t
    BY <1>1, MetricType
  <2>2. now' = IF now + 1 = TimerMod THEN 0 ELSE now + 1
    BY DEF Tick
  <2>3. Learned(i) /\ Elapsed(t) =< age[i]
    BY <1>1, <1>2 DEF Learned, AgeCovers
  <2>4. age'[i] = IF age[i] < TimerMod THEN age[i] + 1 ELSE age[i]
    BY <2>3 DEF Tick, Learned
  <2> QED BY <2>1, <2>2, <2>3, <2>4, TimerAssumption DEF Elapsed, Clock
<1>3. AgeCovers'
  BY <1>2 DEF AgeCovers
<1>4. OwnPortOnly
  BY <1>1, MetricType DEF OwnPortOnly
<1> QED BY <1>3, <1>4

LEMMA AgeUpdateRoute ==
  ASSUME Ages, pc = "response", NEW p, NEW m, <<p, m>> \in RxRtes, NEW j \in HopIndexes,
         UpdateRoute(p, m, j), UNCHANGED now
  PROVE  AgeCovers' /\ OwnPortOnly
<1> DEFINE i == rte_map[p]
           r == memory_rte[i]
           new == NewMetric(m)
<1> USE DEF Ages, TypeInv
<1>1. p \in Prefixes /\ new \in 0 .. Infinity
  BY NewMetricType
<1>2. i \in Slots /\ r \in Rte /\ now \in Clock
  BY <1>1, MetricType DEF TypeOK, TableType
<1>3. r.metric \in 0 .. Infinity
  BY <1>2 DEF Rte
<1>4. \A k \in 0 .. Infinity :
        /\ [r EXCEPT !.metric = k, !.lower_timer = now] \in Rte
        /\ [r EXCEPT !.metric = k, !.lower_timer = now].lower_timer = now
        /\ Via(r, k) \in Rte /\ Via(r, k).lower_timer = now /\ Via(r, k).metric = k
  BY <1>2, CurType DEF Rte, Via, TypeOK
<1>5. ASSUME NEW t \in Rte, NEW who, WriteRte(i, t, who), t.lower_timer = now \/ ~t.valid,
             t.metric > r.metric => ~t.valid \/ SameHop(r)
      PROVE  AgeCovers' /\ OwnPortOnly
  BY <1>2, <1>5, AgeWrite DEF SameHop
<1> HIDE DEF i, r, new
<1>6. CASE IgnoreRte(r, new)
  BY <1>6, AgeFixed DEF IgnoreRte, table
<1>7. CASE Withdraw(i, r, p, new) \/ Worsen(i, r, p, new)
  BY <1>1, <1>4, <1>5, <1>7, Literals DEF Withdraw, Worsen
<1>8. CASE WithdrawLost(i, r, new)
  <2>1. /\ [Cleared(r) EXCEPT !.metric = Infinity] \in Rte
        /\ ~[Cleared(r) EXCEPT !.metric = Infinity].valid
    BY <1>2, Literals, ClearedType DEF Cleared, Rte
  <2> QED BY <1>5, <1>8, <2>1 DEF WithdrawLost
<1>9. CASE SwitchHop(i, r, p, new, j) \/ Improve(i, r, p, new, j)
  <2>1. PICK k \in 0 .. Infinity : k =< r.metric /\ WriteRte(i, Via(r, k), cur.src)
    BY <1>1, <1>3, <1>9 DEF SwitchHop, Improve
  <2>2. ~(Via(r, k).metric > r.metric)
    <3>1. Via(r, k).metric = k
      BY <1>4
    <3>2. k \in Int /\ r.metric \in Int
      BY <1>3
    <3> QED BY <2>1, <3>1, <3>2
  <2> QED BY <1>4, <1>5, <2>1, <2>2
<1>10. CASE Renew(i, r, new)
  <2>1. /\ [r EXCEPT !.lower_timer = now] \in Rte
        /\ [r EXCEPT !.lower_timer = now].lower_timer = now
        /\ [r EXCEPT !.lower_timer = now].metric = r.metric
    BY <1>2 DEF Rte
  <2>2. ~([r EXCEPT !.lower_timer = now].metric > r.metric)
    BY <1>3, <2>1
  <2> QED BY <1>5, <1>10, <2>1, <2>2 DEF Renew
<1> QED BY <1>6, <1>7, <1>8, <1>9, <1>10 DEF UpdateRoute, i, r, new

LEMMA AgeStep ==
  ASSUME Ages, [Next]_vars
  PROVE  AgeCovers' /\ OwnPortOnly
<1> USE DEF Ages, TypeInv
<1>1. SweepSlots \subseteq Slots
  BY SizeAssumption DEF SweepSlots, Slots, TypeOK, SlotType
<1>2. ASSUME pc # "hung", NEW r \in Rte, r.lower_timer = now, NEW who,
             WriteRte(spare_memory_index, r, who), UNCHANGED now
      PROVE  AgeCovers' /\ OwnPortOnly
  <2>1. spare_memory_index \in Slots /\ ~Learned(spare_memory_index)
    BY <1>2, SizeAssumption DEF TypeOK, SlotType, Slots, MapInv, SpareFree, Learned
  <2> QED BY <1>2, <2>1, AgeWrite
<1>3. CASE config_direct_route
  <2> DEFINE r == [prefix |-> DirectPrefix[cur.port], metric |-> 1, lower_timer |-> now,
                   valid |-> TRUE, direct |-> TRUE, port |-> cur.port]
  <2>1. r \in Rte /\ r.lower_timer = now
    BY PrefixAssumption, CurType, Literals DEF Rte, ControlType, TypeOK
  <2>2. WriteRte(spare_memory_index, r, NoAddr) /\ pc = "boot" /\ UNCHANGED now
    BY <1>3 DEF config_direct_route
  <2> HIDE DEF r
  <2> QED BY <1>2, <2>1, <2>2
<1>4. ASSUME NEW e \in RxRtes, RequestRte(e[1]) PROVE AgeCovers' /\ OwnPortOnly
  <2>1. rte_map[e[1]] \in Slots /\ UNCHANGED now
    BY <1>4, PrefixAssumption DEF TypeOK, TableType, RequestRte
  <2>2. CASE TrieLookup(e[1])
    BY <1>4, <2>1, <2>2, AgeUpdate DEF RequestRte
  <2>3. CASE ~TrieLookup(e[1])
    BY <1>4, <2>1, <2>3, AgeFixed DEF RequestRte, table
  <2> QED BY <2>2, <2>3
<1>5. CASE WholeTableRequest \/ SweepPort
  BY <1>1, <1>5, AgeUpdate DEF WholeTableRequest, SweepPort, SendTable
<1>6. ASSUME NEW e \in RxRtes, ResponseRte(e[1], e[2]) PROVE AgeCovers' /\ OwnPortOnly
  <2> DEFINE p == e[1]
             m == e[2]
  <2>1. <<p, m>> \in RxRtes
    BY PrefixAssumption
  <2>2. pc = "response" /\ UNCHANGED now
    BY <1>6 DEF ResponseRte
  <2>3. ASSUME NEW j \in HopIndexes, UpdateRoute(p, m, j) PROVE AgeCovers' /\ OwnPortOnly
    BY <2>1, <2>2, <2>3, AgeUpdateRoute
  <2>4. CASE SkipUnreachable(p, m) \/ TrieFull(p, m)
    BY <2>2, <2>4, AgeFixed DEF SkipUnreachable, TrieFull, table
  <2>5. ASSUME NEW j, NEW tier, AddRoute(p, m, j, tier) PROVE AgeCovers' /\ OwnPortOnly
    <3> DEFINE r == [prefix |-> p, metric |-> m + 1, lower_timer |-> now,
                     valid |-> TRUE, direct |-> FALSE, port |-> cur.port]
    <3>1. p \in Prefixes /\ m + 1 \in 0 .. Infinity
      BY <2>1, <2>5, NewMetricType DEF AddRoute
    <3>2. r \in Rte /\ r.lower_timer = now
      BY <3>1, CurType DEF Rte, ControlType, TypeOK
    <3>3. WriteRte(spare_memory_index, r, cur.src)
      BY <2>5 DEF AddRoute
    <3> HIDE DEF r
    <3> QED BY <1>2, <2>2, <3>2, <3>3
  <2> QED BY <1>6, <2>3, <2>4, <2>5 DEF ResponseRte
<1>7. CASE StartSweep \/ GrantInput \/ RejectPacket \/ EndPacket
  BY <1>7, AgeFixed DEF StartSweep, GrantInput, RejectPacket, EndPacket, table
<1>8. CASE Environment
  BY <1>8, AgeFixed DEF Environment, Receive, table
<1>9. CASE Tick
  BY <1>9, AgeTick
<1>10. CASE UNCHANGED vars
  BY <1>10, AgeFixed DEF vars
<1> QED BY <1>3, <1>4, <1>5, <1>6, <1>7, <1>8, <1>9, <1>10 DEF Next, Firmware

\* A learned route gets worse only by a response from its own port or because
\* it is older than the time-out, even when spare_memory_index has wrapped and
\* sweeps no longer meet every route (disassemble, update_memory_rte).
THEOREM OnlyOwnPortsWorsen == Spec => OnlyOwnPortWorsens
<1>1. Init => Ages
  <2>1. Init => AgeCovers
    BY DEF Init, AgeCovers, Learned
  <2> QED BY <2>1, InitType, InitMap DEF Ages
<1>2. Ages /\ [Next]_vars => Ages'
  BY StepType, MapStep, AgeStep DEF Ages
<1>3. Ages /\ [Next]_vars =>
        [\A i \in Slots :
           Learned(i) /\ memory_rte'[i].valid
           /\ memory_rte'[i].metric > memory_rte[i].metric =>
             \/ pc = "response" /\ cur.port = memory_rte[i].port
             \/ memory_rte'[i].metric = Infinity /\ age[i] >= TIMEOUT_TIME_LIMIT]_vars
  BY AgeStep DEF OwnPortOnly
<1> QED BY <1>1, <1>2, <1>3, PTL DEF Spec, OnlyOwnPortWorsens
=============================================================================
