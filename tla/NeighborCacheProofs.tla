------------------------- MODULE NeighborCacheProofs -------------------------
(* Theorems about NeighborCache, for every value of its constants: keys are *)
(* unique, the cache implements NeighborMap, and a port that is full while  *)
(* no other is gives up its oldest address.                                 *)
EXTENDS NeighborCache, FiniteSetTheorems, FunctionTheorems, WellFoundedInduction,
        TLAPS

-----------------------------------------------------------------------------
(* The facts about entries are stated for any value e of them, so that they *)
(* serve before and after a write.                                          *)

MatchesIn(e, p, a) == {i \in Slots : e[p][i].valid /\ e[p][i].addr = a}

ReadIn(e, p, a) ==
  IF MatchesIn(e, p, a) = {} THEN NoMac
  ELSE e[p][Highest(MatchesIn(e, p, a))].mac

TypedIn(e) ==
  /\ e \in [Ports -> [Slots -> Entry]]
  /\ \A p \in Ports : \A i \in Slots : e[p][i].valid =>
       e[p][i].addr \in Addrs /\ e[p][i].mac \in Macs

UniqueIn(e) ==
  \A p \in Ports : \A i, j \in Slots :
    e[p][i].valid /\ e[p][j].valid /\ e[p][i].addr = e[p][j].addr => i = j

MapOf(e) == [p \in Ports |-> [a \in Addrs |-> ReadIn(e, p, a)]]

\* The one match of a unique key is what a lookup reads.
LEMMA ReadMatch ==
  ASSUME NEW e, UniqueIn(e), NEW p \in Ports, NEW i \in Slots, e[p][i].valid
  PROVE  /\ Highest(MatchesIn(e, p, e[p][i].addr)) = i
         /\ ReadIn(e, p, e[p][i].addr) = e[p][i].mac
<1>1. MatchesIn(e, p, e[p][i].addr) = {i}
  BY DEF MatchesIn, UniqueIn
<1>2. Highest({i}) = i
  BY DEF Highest, Slots
<1> QED BY <1>1, <1>2 DEF ReadIn

\* A lookup finds nothing exactly when no valid entry has the address.
LEMMA ReadNothing ==
  ASSUME NEW e, TypedIn(e), UniqueIn(e), NEW p \in Ports, NEW a
  PROVE  ReadIn(e, p, a) = NoMac <=> \A i \in Slots : e[p][i].valid => e[p][i].addr # a
<1>1. CASE MatchesIn(e, p, a) = {}
  BY <1>1 DEF ReadIn, MatchesIn
<1>2. CASE MatchesIn(e, p, a) # {}
  <2>1. PICK i \in Slots : e[p][i].valid /\ e[p][i].addr = a
    BY <1>2 DEF MatchesIn
  <2>2. ReadIn(e, p, a) = e[p][i].mac
    BY <2>1, ReadMatch
  <2>3. ReadIn(e, p, a) # NoMac
    BY <2>1, <2>2, ZeroAssumption DEF TypedIn
  <2> QED BY <2>1, <2>3
<1> QED BY <1>1, <1>2

Taught(w) == [valid |-> TRUE, addr |-> w.addr, mac |-> w.mac]

Written(e, w, i) == [e EXCEPT ![w.port][i] = Taught(w)]

\* Writing an entry whose address no other entry of the port has keeps the
\* keys unique and changes what is read for that address and for the one that
\* was there.
LEMMA WrittenIs ==
  ASSUME NEW e, TypedIn(e), NEW w \in Write, NEW i \in Slots
  PROVE  \A q \in Ports : \A j \in Slots :
           Written(e, w, i)[q][j] = IF q = w.port /\ j = i THEN Taught(w) ELSE e[q][j]
BY DEF TypedIn, Written, Write

LEMMA WrittenTyped ==
  ASSUME NEW e, TypedIn(e), NEW w \in Write, NEW i \in Slots
  PROVE  TypedIn(Written(e, w, i))
<1>1. Taught(w) \in Entry /\ w.port \in Ports /\ w.addr \in Addrs /\ w.mac \in Macs
  BY DEF Taught, Entry, Write
<1>2. Written(e, w, i) \in [Ports -> [Slots -> Entry]]
  BY <1>1 DEF Written, TypedIn
<1>3. ASSUME NEW q \in Ports, NEW j \in Slots, Written(e, w, i)[q][j].valid
      PROVE  /\ Written(e, w, i)[q][j].addr \in Addrs
             /\ Written(e, w, i)[q][j].mac \in Macs
  BY <1>1, <1>3, WrittenIs DEF Taught, TypedIn
<1> QED BY <1>2, <1>3 DEF TypedIn

LEMMA WrittenUnique ==
  ASSUME NEW e, TypedIn(e), UniqueIn(e), NEW w \in Write, NEW i \in Slots,
         \A j \in Slots \ {i} : e[w.port][j].valid => e[w.port][j].addr # w.addr
  PROVE  UniqueIn(Written(e, w, i))
<1> DEFINE f == Written(e, w, i)
<1> SUFFICES ASSUME NEW q \in Ports, NEW j \in Slots, NEW k \in Slots,
                    f[q][j].valid, f[q][k].valid, f[q][j].addr = f[q][k].addr
             PROVE  j = k
  BY DEF UniqueIn
<1>1. /\ f[q][j] = IF q = w.port /\ j = i THEN Taught(w) ELSE e[q][j]
      /\ f[q][k] = IF q = w.port /\ k = i THEN Taught(w) ELSE e[q][k]
  BY WrittenIs
<1> QED BY <1>1 DEF Taught, UniqueIn

LEMMA WrittenRead ==
  ASSUME NEW e, TypedIn(e), UniqueIn(e), NEW w \in Write, NEW i \in Slots,
         \A j \in Slots \ {i} : e[w.port][j].valid => e[w.port][j].addr # w.addr,
         NEW q \in Ports, NEW b \in Addrs
  PROVE  ReadIn(Written(e, w, i), q, b) =
           IF q # w.port THEN ReadIn(e, q, b)
           ELSE IF b = w.addr THEN w.mac
           ELSE IF e[q][i].valid /\ e[q][i].addr = b THEN NoMac
           ELSE ReadIn(e, q, b)
<1> DEFINE f == Written(e, w, i)
<1>1. TypedIn(f) /\ UniqueIn(f)
  BY WrittenTyped, WrittenUnique
<1>2. \A j \in Slots : f[q][j] = IF q = w.port /\ j = i THEN Taught(w) ELSE e[q][j]
  BY WrittenIs
<1> HIDE DEF f
<1>0. e[q][i].valid \in BOOLEAN
  BY DEF TypedIn, Entry
<1>3. CASE q = w.port /\ b = w.addr
  <2>1. f[q][i] = Taught(w)
    BY <1>2, <1>3
  <2> QED BY <1>1, <1>3, <2>1, ReadMatch DEF Taught, f
<1>4. CASE q = w.port /\ b # w.addr /\ e[q][i].valid /\ e[q][i].addr = b
  <2>1. \A j \in Slots : f[q][j].valid => f[q][j].addr # b
    BY <1>2, <1>4 DEF Taught, UniqueIn
  <2> QED BY <1>1, <1>4, <2>1, ReadNothing DEF f
<1>5. CASE q # w.port \/ (b # w.addr /\ ~(e[q][i].valid /\ e[q][i].addr = b))
  <2>1. MatchesIn(f, q, b) = MatchesIn(e, q, b)
    BY <1>2, <1>5 DEF MatchesIn, Taught
  <2>2. CASE MatchesIn(e, q, b) = {}
    BY <1>5, <2>1, <2>2 DEF ReadIn, f
  <2>3. CASE MatchesIn(e, q, b) # {}
    <3>1. PICK j \in Slots : e[q][j].valid /\ e[q][j].addr = b
      BY <2>3 DEF MatchesIn
    <3>2. f[q][j] = e[q][j]
      BY <1>2, <1>5, <3>1
    <3>3. ReadIn(f, q, b) = e[q][j].mac /\ ReadIn(e, q, b) = e[q][j].mac
      BY <1>1, <3>1, <3>2, ReadMatch
    <3> QED BY <1>5, <3>3 DEF f
  <2> QED BY <2>2, <2>3
<1> QED BY <1>0, <1>3, <1>4, <1>5

-----------------------------------------------------------------------------
(* A port knows NUM_ENTRIES addresses exactly when it has no empty entry. *)

LEMMA FullIsFull ==
  ASSUME NEW e, TypedIn(e), UniqueIn(e), NEW p \in Ports
  PROVE  Cardinality({a \in Addrs : ReadIn(e, p, a) # NoMac}) = NUM_ENTRIES
           <=> {i \in Slots : ~e[p][i].valid} = {}
<1> DEFINE V == {i \in Slots : e[p][i].valid}
           K == {a \in Addrs : ReadIn(e, p, a) # NoMac}
           key == [i \in V |-> e[p][i].addr]
<1>1. IsFiniteSet(Slots) /\ Cardinality(Slots) = NUM_ENTRIES
  BY FS_Interval, EntriesAssumption DEF Slots
<1>2. IsFiniteSet(V) /\ (Cardinality(V) = Cardinality(Slots) => V = Slots)
  BY <1>1, FS_Subset
<1>3. key \in [V -> K]
  <2>1. ASSUME NEW i \in V PROVE e[p][i].addr \in K
    BY ReadNothing DEF TypedIn
  <2> QED BY <2>1
<1>4. \A a \in K : \E i \in V : key[i] = a
  BY ReadNothing
<1>5. \A i, j \in V : key[i] = key[j] => i = j
  BY DEF UniqueIn
<1> HIDE DEF V, K, key
<1>6. ExistsBijection(V, K)
  <2>1. key \in Bijection(V, K)
    BY <1>3, <1>4, <1>5, Fun_IsBij
  <2> QED BY <2>1 DEF ExistsBijection
<1>7. Cardinality(K) = Cardinality(V)
  BY <1>2, <1>6, FS_Bijection
<1> QED BY <1>1, <1>2, <1>7 DEF V, K

-----------------------------------------------------------------------------
(* One step of the write controller. *)

CacheInv == CacheType /\ KeysUnique

LEMMA InvIn == CacheInv => TypedIn(entries) /\ UniqueIn(entries)
BY DEF CacheInv, CacheType, KeysUnique, TypedIn, UniqueIn

\* Every set of slots that is not empty has a lowest one.
LEMMA LowestLeast ==
  ASSUME NEW S \in SUBSET Slots, S # {}
  PROVE  Lowest(S) \in S /\ \A y \in S : Lowest(S) =< y
<1> DEFINE R == OpToRel(<, Nat)
<1>1. IsWellFoundedOn(R, Nat)
  BY NatLessThanWellFounded
<1>2. S \subseteq Nat
  BY EntriesAssumption DEF Slots
<1>3. \A x, y \in Nat : y < x => <<y, x>> \in R
  BY DEF OpToRel
<1> HIDE DEF R
<1>4. PICK x \in S : \A y \in S : ~(<<y, x>> \in R)
  BY <1>1, <1>2, WFMin
<1>5. ASSUME NEW y \in S PROVE x =< y
  <2>1. ~(y < x)
    BY <1>2, <1>3, <1>4
  <2>2. x \in Nat /\ y \in Nat
    BY <1>2
  <2> QED BY <2>1, <2>2
<1> QED BY <1>5 DEF Lowest

LEMMA LowestIn == ASSUME NEW S \in SUBSET Slots, S # {} PROVE Lowest(S) \in S
BY LowestLeast

\* Each write puts an entry where no other one has its address.
LEMMA WriteIsPut ==
  ASSUME CacheInv, NEW w \in Write, Update(w) \/ Insert(w) \/ Replace(w)
  PROVE  \E i \in Slots :
           /\ entries' = Written(entries, w, i)
           /\ \A j \in Slots \ {i} : entries[w.port][j].valid => entries[w.port][j].addr # w.addr
           /\ \/ entries[w.port][i].valid /\ entries[w.port][i].addr = w.addr
              \/ ~entries[w.port][i].valid /\ Matches(w.port, w.addr) = {}
              \/ Empty(w.port) = {} /\ Matches(w.port, w.addr) = {}
<1> w.port \in Ports
  BY DEF Write
<1>1. CASE Update(w)
  <2>1. PICK i \in Slots : entries[w.port][i].valid /\ entries[w.port][i].addr = w.addr
    BY <1>1 DEF Update, Matches
  <2>2. Highest(Matches(w.port, w.addr)) = i
    BY <2>1, InvIn, ReadMatch DEF Matches, MatchesIn
  <2>3. entries' = Written(entries, w, i)
    BY <1>1, <2>2 DEF Update, Put, Written, Taught
  <2>4. \A j \in Slots \ {i} : entries[w.port][j].valid => entries[w.port][j].addr # w.addr
    BY <2>1 DEF CacheInv, KeysUnique
  <2> QED BY <2>1, <2>3, <2>4
<1>2. CASE Insert(w)
  <2> DEFINE i == Lowest(Empty(w.port))
  <2>1. i \in Empty(w.port)
    BY <1>2, LowestIn DEF Insert, Empty
  <2>2. entries' = Written(entries, w, i)
    BY <1>2 DEF Insert, Put, Written, Taught
  <2>3. \A j \in Slots : entries[w.port][j].valid => entries[w.port][j].addr # w.addr
    BY <1>2 DEF Insert, Matches
  <2> QED BY <1>2, <2>1, <2>2, <2>3 DEF Insert, Empty
<1>3. CASE Replace(w)
  <2>1. entries' = Written(entries, w, next_replace_addr)
    BY <1>3 DEF Replace, Put, Written, Taught
  <2>2. \A j \in Slots : entries[w.port][j].valid => entries[w.port][j].addr # w.addr
    BY <1>3 DEF Replace, Matches
  <2> QED BY <1>3, <2>1, <2>2 DEF Replace, CacheInv, CacheType
<1> QED BY <1>1, <1>2, <1>3

-----------------------------------------------------------------------------
(* The invariant: every step keeps the types and the keys unique. *)

LEMMA InitInv == Init => CacheInv
<1> SUFFICES ASSUME Init PROVE CacheInv
  OBVIOUS
<1>1. \A p \in Ports : \A i \in Slots :
        entries[p][i] = [valid |-> FALSE, addr |-> NoAddr, mac |-> NoMac]
  BY DEF Init
<1>2. entries \in [Ports -> [Slots -> Entry]]
  BY DEF Init, Entry
<1>3. next_replace_addr \in Slots
  BY EntriesAssumption DEF Init, Slots
<1> QED BY <1>1, <1>2, <1>3 DEF Init, CacheInv, CacheType, KeysUnique

\* Idle, and every step of no cycle at all, leaves the entries alone.
LEMMA WriteControllerInv ==
  ASSUME CacheInv, WriteController
  PROVE  TypedIn(entries') /\ UniqueIn(entries') /\ next_replace_addr' \in Slots
<1>1. CASE Idle
  BY <1>1, InvIn DEF Idle, CacheInv, CacheType
<1>2. CASE buffer # NoWrite /\ (Update(buffer) \/ Insert(buffer) \/ Replace(buffer))
  <2>1. buffer \in Write
    BY <1>2 DEF CacheInv, CacheType
  <2>2. PICK i \in Slots :
          /\ entries' = Written(entries, buffer, i)
          /\ \A j \in Slots \ {i} :
               entries[buffer.port][j].valid => entries[buffer.port][j].addr # buffer.addr
    BY <1>2, <2>1, WriteIsPut
  <2>3. TypedIn(entries') /\ UniqueIn(entries')
    BY <2>1, <2>2, InvIn, WrittenTyped, WrittenUnique
  <2>4. next_replace_addr' \in Slots
    <3>1. next_replace_addr \in Slots /\ NextReplaceAddr \in Slots
      BY EntriesAssumption DEF CacheInv, CacheType, NextReplaceAddr, Slots
    <3> QED BY <1>2, <3>1 DEF Update, Insert, Replace
  <2> QED BY <2>3, <2>4
<1> QED BY <1>1, <1>2 DEF WriteController

LEMMA StepInv == CacheInv /\ [Next]_vars => CacheInv'
<1> SUFFICES ASSUME CacheInv, [Next]_vars PROVE CacheInv'
  OBVIOUS
<1>1. CASE Next
  <2>1. TypedIn(entries') /\ UniqueIn(entries') /\ next_replace_addr' \in Slots
    BY <1>1, WriteControllerInv DEF Next
  <2>2. buffer' \in Write \cup {NoWrite}
    BY <1>1 DEF Next, CACHE_W_BUFFER, cache_w, CacheInv, CacheType
  <2>3. ns' \in Write \cup {NoWrite}
    BY <1>1 DEF Next, NsStep
  <2>4. na_state' \in {"IDLE", "WAIT", "CHECK", "CACHE"} /\ na' \in Write \cup {NoWrite}
    BY <1>1 DEF Next, NaStep, NaStays, NaFirstBeat, NaSecondBeat, NaChecksumGood,
                NaChecksumBad, NaCached, CacheInv, CacheType
  <2> QED BY <2>1, <2>2, <2>3, <2>4
          DEF CacheInv, CacheType, KeysUnique, TypedIn, UniqueIn
<1>2. CASE UNCHANGED vars
  BY <1>2 DEF vars, CacheInv, CacheType, KeysUnique
<1> QED BY <1>1, <1>2

\* No address ever has two entries on a port, in whatever order the NS and NA
\* pipelines write (neighbor_cache, cache_arbiter).
THEOREM KeysAlwaysUnique == Spec => []KeysUnique
<1>1. CacheInv => KeysUnique
  BY DEF CacheInv
<1> QED BY <1>1, InitInv, StepInv, PTL DEF Spec

-----------------------------------------------------------------------------
(* The refinement. *)

LEMMA MapIs ==
  /\ [p \in Ports |-> [a \in Addrs |-> r_MAC_addr_0(p, a)]] = MapOf(entries)
  /\ [p \in Ports |-> [a \in Addrs |-> r_MAC_addr_0(p, a)]]' = MapOf(entries')
BY DEF MapOf, ReadIn, r_MAC_addr_0, Matches, MatchesIn

LEMMA InitMaps == Init => Map!Init
<1> SUFFICES ASSUME Init PROVE Map!Init
  OBVIOUS
<1>1. \A p \in Ports : \A i \in Slots : ~entries[p][i].valid
  BY DEF Init
<1>2. \A p \in Ports : \A a \in Addrs : r_MAC_addr_0(p, a) = NoMac
  BY <1>1 DEF r_MAC_addr_0, Matches
<1> QED BY <1>2 DEF Map!Init

\* What a write does to the map.
LEMMA WriteMaps ==
  ASSUME CacheInv, NEW w \in Write, Update(w) \/ Insert(w) \/ Replace(w)
  PROVE  Map!Next
<1>1. TypedIn(entries) /\ UniqueIn(entries)
  BY InvIn
<1>2. w.port \in Ports /\ w.addr \in Addrs /\ w.mac \in Macs
  BY DEF Write
<1>3. PICK i \in Slots :
        /\ entries' = Written(entries, w, i)
        /\ \A j \in Slots \ {i} : entries[w.port][j].valid => entries[w.port][j].addr # w.addr
        /\ \/ entries[w.port][i].valid /\ entries[w.port][i].addr = w.addr
           \/ ~entries[w.port][i].valid /\ Matches(w.port, w.addr) = {}
           \/ Empty(w.port) = {} /\ Matches(w.port, w.addr) = {}
  BY WriteIsPut
<1> DEFINE old == MapOf(entries)
           new == MapOf(entries')
<1>4. \A q \in Ports, b \in Addrs :
        new[q][b] = IF q # w.port THEN old[q][b]
                    ELSE IF b = w.addr THEN w.mac
                    ELSE IF entries[q][i].valid /\ entries[q][i].addr = b THEN NoMac
                    ELSE old[q][b]
  BY <1>1, <1>3, WrittenRead DEF MapOf
<1>5. /\ old[w.port][w.addr] = NoMac <=> Matches(w.port, w.addr) = {}
      /\ Map!Full(w.port) <=> Empty(w.port) = {}
  <2>1. old[w.port][w.addr] = NoMac <=> Matches(w.port, w.addr) = {}
    BY <1>1, <1>2, ReadNothing DEF MapOf, Matches
  <2>2. Map!Known(w.port) = {a \in Addrs : ReadIn(entries, w.port, a) # NoMac}
    BY <1>2, MapIs DEF Map!Known, MapOf
  <2>3. \A S : Map!Cardinality(S) = Cardinality(S)
    BY DEF Map!Cardinality, Cardinality
  <2> QED BY <1>1, <1>2, <2>1, <2>2, <2>3, FullIsFull DEF Map!Full, Empty
<1> DEFINE gone == IF Matches(w.port, w.addr) = {} /\ Empty(w.port) = {}
                   THEN {entries[w.port][i].addr} ELSE {}
<1>6. \A q \in Ports, b \in Addrs :
        new[q][b] = IF q # w.port THEN old[q][b]
                    ELSE IF b = w.addr THEN w.mac
                    ELSE IF b \in gone THEN NoMac
                    ELSE old[w.port][b]
  <2>1. \A b \in Addrs \ {w.addr} :
          b \in gone <=> entries[w.port][i].valid /\ entries[w.port][i].addr = b
    BY <1>2, <1>3 DEF Matches, Empty
  <2> HIDE DEF old, new, gone
  <2> QED BY <1>2, <1>4, <2>1
<1>7. Map!Learn(w.port, w.addr, w.mac, gone)
  <2>1. MapOf(entries') =
          [q \in Ports |-> [b \in Addrs |->
             IF q # w.port THEN MapOf(entries)[q][b]
             ELSE IF b = w.addr THEN w.mac
             ELSE IF b \in gone THEN NoMac
             ELSE MapOf(entries)[w.port][b]]]
    <3>1. MapOf(entries') = [q \in Ports |-> [b \in Addrs |-> MapOf(entries')[q][b]]]
      BY DEF MapOf
    <3> QED BY <1>6, <3>1
  <2> QED BY <2>1, MapIs DEF Map!Learn
<1>8. CASE Matches(w.port, w.addr) # {}
  <2>1. gone = {}
    BY <1>8
  <2>2. Map!Update(w.port, w.addr, w.mac)
    BY <1>5, <1>7, <1>8, <2>1, MapIs DEF Map!Update
  <2> QED BY <1>2, <2>2 DEF Map!Next
<1>9. CASE Matches(w.port, w.addr) = {} /\ Empty(w.port) # {}
  <2>1. gone = {}
    BY <1>9
  <2>2. Map!Insert(w.port, w.addr, w.mac)
    BY <1>5, <1>7, <1>9, <2>1, MapIs DEF Map!Insert
  <2> QED BY <1>2, <2>2 DEF Map!Next
<1>10. CASE Matches(w.port, w.addr) = {} /\ Empty(w.port) = {}
  <2> DEFINE b == entries[w.port][i].addr
  <2>1. gone = {b}
    BY <1>10
  <2>2. entries[w.port][i].valid
    BY <1>3, <1>10 DEF Empty, Matches
  <2>3. b \in Map!Known(w.port)
    <3>1. b \in Addrs /\ MapOf(entries)[w.port][b] # NoMac
      BY <1>1, <1>2, <2>2, ReadNothing DEF TypedIn, MapOf
    <3> QED BY <3>1, MapIs DEF Map!Known
  <2>4. Map!Replace(w.port, w.addr, w.mac)
    BY <1>5, <1>7, <1>10, <2>1, <2>3, MapIs DEF Map!Replace
  <2> QED BY <1>2, <2>4 DEF Map!Next
<1> QED BY <1>8, <1>9, <1>10

LEMMA StepMaps ==
  CacheInv /\ [Next]_vars =>
    [Map!Next]_([p \in Ports |-> [a \in Addrs |-> r_MAC_addr_0(p, a)]])
<1> SUFFICES ASSUME CacheInv, [Next]_vars
             PROVE  Map!Next \/ UNCHANGED [p \in Ports |-> [a \in Addrs |-> r_MAC_addr_0(p, a)]]
  OBVIOUS
<1>1. CASE entries' = entries
  BY <1>1, MapIs
<1>2. CASE buffer # NoWrite /\ (Update(buffer) \/ Insert(buffer) \/ Replace(buffer))
  BY <1>2, WriteMaps DEF CacheInv, CacheType
<1> QED BY <1>1, <1>2 DEF Next, WriteController, Idle, vars

\* Read port 0 always shows a map that holds the last MAC address learned for
\* each address and loses one only to a new address on a full port
\* (neighbor_cache), for any number of ports, addresses and entries.
THEOREM CacheImplementsMap == Spec => ImplementsMap
<1> QED BY InitMaps, InitInv, StepInv, StepMaps, PTL DEF Spec, ImplementsMap, Map!Spec

\* An NA with a good checksum reaches the write port in the cycle after the one
\* in which the NS pipeline has none to write; until then the NA pipeline holds
\* it (cache_arbiter, pipeline_na).
THEOREM NaAlwaysLearned == Spec => NaLearned
<1>1. [Next]_vars =>
        [na_valid => buffer' = na \/ (na_valid' /\ na' = na /\ na_ready')]_vars
  <2> SUFFICES ASSUME Next, na_state = "CACHE"
               PROVE  buffer' = na \/ (na_valid' /\ na' = na /\ na_ready')
    BY DEF na_valid
  <2>1. CASE ns = NoWrite
    BY <2>1 DEF Next, CACHE_W_BUFFER, cache_w, na_valid
  <2>2. CASE ns # NoWrite
    <3>1. ns' = NoWrite
      BY <2>2 DEF Next, NsStep
    <3>2. UNCHANGED <<na_state, na>>
      BY <2>2 DEF Next, NaStep, NaStays, NaFirstBeat, NaSecondBeat, NaChecksumGood,
                  NaChecksumBad, NaCached, na_ready
    <3> QED BY <3>1, <3>2 DEF na_valid, na_ready
  <2> QED BY <2>1, <2>2
<1> QED BY <1>1, PTL DEF Spec, NaLearned

-----------------------------------------------------------------------------
(* The replace address and the order in which a port learned its addresses. *)

\* How many entries of a full port are older than entry i, when every
\* replacement was on this port.
Age(n, i) == IF i >= n THEN i - n ELSE i - n + NUM_ENTRIES

\* A port is filled from the bottom; while no port is full the replace address
\* has not moved; and on a port that alone may be full the entries are as old
\* as their distance from it.
Filled(e) == \A p \in Ports : \A i, j \in Slots : e[p][i].valid /\ j < i => e[p][j].valid
HasEmpty(e, p) == \E i \in Slots : ~e[p][i].valid
Unmoved(e, n) == (\A p \in Ports : HasEmpty(e, p)) => n = 0
Aged(e, n, o, p) ==
  \A i, j \in Slots : e[p][i].valid /\ e[p][j].valid /\ Age(n, i) < Age(n, j) =>
    <<e[p][i].addr, e[p][j].addr>> \in o[p]
AgedAlone(e, n, o) ==
  \A p \in Ports : (\A q \in Ports \ {p} : HasEmpty(e, q)) => Aged(e, n, o, p)

OrderInv ==
  /\ order \in [Ports -> SUBSET (Addrs \X Addrs)]
  /\ Filled(entries) /\ Unmoved(entries, next_replace_addr)
  /\ AgedAlone(entries, next_replace_addr, order)

LEMMA InitOrder == Init => OrderInv
BY DEF Init, OrderInv, Filled, Unmoved, AgedAlone, Aged, HasEmpty

\* What the history says after a write.
LEMMA LearnedIs ==
  ASSUME CacheInv, OrderInv, NEW p \in Ports, NEW a \in Addrs, NEW gone, Learned(p, a, gone)
  PROVE  /\ order' \in [Ports -> SUBSET (Addrs \X Addrs)]
         /\ \A q \in Ports \ {p} : order'[q] = order[q]
         /\ \A x \in Known(p) \ gone : <<x, a>> \in order'[p]
         /\ \A x, y : <<x, y>> \in order[p] /\ x \notin gone /\ y \notin gone =>
              <<x, y>> \in order'[p]
<1>1. Known(p) \subseteq Addrs
  BY DEF Known, CacheInv, CacheType
<1> DEFINE new == {x \in order[p] : {x[1], x[2]} \cap gone = {}} \cup ((Known(p) \ gone) \X {a})
<1>2. order' = [order EXCEPT ![p] = new] /\ order \in [Ports -> SUBSET (Addrs \X Addrs)]
  BY DEF Learned, OrderInv
<1>3. new \in SUBSET (Addrs \X Addrs)
  BY <1>1, <1>2
<1>4. \A x \in Known(p) \ gone : <<x, a>> \in new
  OBVIOUS
<1>5. \A x, y : <<x, y>> \in order[p] /\ x \notin gone /\ y \notin gone => <<x, y>> \in new
  OBVIOUS
<1> HIDE DEF new
<1> QED BY <1>2, <1>3, <1>4, <1>5

LEMMA IdleOrder ==
  ASSUME OrderInv, UNCHANGED <<entries, next_replace_addr, order>> PROVE OrderInv'
BY DEF OrderInv

LEMMA UpdateOrder ==
  ASSUME CacheInv, OrderInv, NEW w \in Write, Update(w) PROVE OrderInv'
<1>1. PICK i \in Slots :
        /\ entries' = Written(entries, w, i)
        /\ entries[w.port][i].valid /\ entries[w.port][i].addr = w.addr
  <2>1. PICK i \in Slots : entries[w.port][i].valid /\ entries[w.port][i].addr = w.addr
    BY DEF Update, Matches
  <2>2. Highest(Matches(w.port, w.addr)) = i
    BY <2>1, InvIn, ReadMatch DEF Matches, MatchesIn, Write
  <2> QED BY <2>1, <2>2 DEF Update, Put, Written, Taught
<1>2. \A q \in Ports : \A j \in Slots :
        /\ entries'[q][j].valid <=> entries[q][j].valid
        /\ entries'[q][j].addr = entries[q][j].addr
  <2>1. \A q \in Ports : \A j \in Slots :
          entries'[q][j] = IF q = w.port /\ j = i THEN Taught(w) ELSE entries[q][j]
    BY <1>1, InvIn, WrittenIs
  <2>2. Taught(w).valid /\ Taught(w).addr = w.addr
    BY DEF Taught
  <2> QED BY <1>1, <2>1, <2>2
<1>3. next_replace_addr' = next_replace_addr /\ order' = order
  BY DEF Update
<1> QED BY <1>2, <1>3 DEF OrderInv, Filled, Unmoved, AgedAlone, Aged, HasEmpty

LEMMA InsertOrder ==
  ASSUME CacheInv, OrderInv, NEW w \in Write, Insert(w) PROVE OrderInv'
<1> DEFINE i == Lowest(Empty(w.port))
<1>0. w.port \in Ports /\ w.addr \in Addrs /\ Slots \subseteq Nat
  BY EntriesAssumption DEF Write, Slots
<1>1. i \in Slots /\ ~entries[w.port][i].valid /\ \A j \in Slots : j < i => entries[w.port][j].valid
  <2>1. i \in Empty(w.port)
    BY LowestIn DEF Insert, Empty
  <2>2. \A j \in Empty(w.port) : i =< j
    BY LowestLeast DEF Insert, Empty
  <2>3. ASSUME NEW j \in Slots, j < i, ~entries[w.port][j].valid PROVE FALSE
    <3>1. j \in Empty(w.port) /\ i \in Slots
      BY <2>1, <2>3 DEF Empty
    <3> QED BY <1>0, <2>2, <2>3, <3>1
  <2> QED BY <2>1, <2>3 DEF Empty
<1>2. entries' = Written(entries, w, i) /\ next_replace_addr' = next_replace_addr
      /\ Learned(w.port, w.addr, {})
  BY DEF Insert, Put, Written, Taught
<1> HIDE DEF i
<1>3. \A q \in Ports : \A j \in Slots :
        entries'[q][j] = IF q = w.port /\ j = i THEN Taught(w) ELSE entries[q][j]
  BY <1>1, <1>2, InvIn, WrittenIs
<1>4. Taught(w).valid /\ Taught(w).addr = w.addr
  BY DEF Taught
<1>5. Filled(entries')
  BY <1>0, <1>1, <1>3, <1>4 DEF OrderInv, Filled
<1>6. \A q \in Ports : HasEmpty(entries', q) => HasEmpty(entries, q)
  BY <1>1, <1>3 DEF HasEmpty
<1>7. HasEmpty(entries, w.port)
  BY <1>1 DEF HasEmpty
<1>8. Unmoved(entries', next_replace_addr')
  BY <1>2, <1>6 DEF OrderInv, Unmoved
<1>9. ASSUME NEW p \in Ports, \A q \in Ports \ {p} : HasEmpty(entries', q)
      PROVE  Aged(entries', next_replace_addr', order', p)
  <2>1. Aged(entries, next_replace_addr, order, p)
    BY <1>6, <1>9 DEF OrderInv, AgedAlone
  <2>2. CASE p # w.port
    <3>1. \A j \in Slots : entries'[p][j] = entries[p][j]
      BY <1>3, <2>2
    <3>2. order'[p] = order[p]
      BY <1>0, <1>2, <2>2, LearnedIs
    <3> QED BY <1>2, <2>1, <3>1, <3>2 DEF Aged
  <2>3. CASE p = w.port
    <3>1. next_replace_addr = 0
      BY <1>6, <1>7, <1>9, <2>3 DEF OrderInv, Unmoved
    <3>2. \A j \in Slots : Age(0, j) = j
      BY <1>0 DEF Age
    <3>3. ASSUME NEW j \in Slots, NEW k \in Slots, entries'[p][j].valid, entries'[p][k].valid,
                 Age(0, j) < Age(0, k)
          PROVE  <<entries'[p][j].addr, entries'[p][k].addr>> \in order'[p]
      <4>1. j < k
        BY <3>2, <3>3
      <4>2. j # i
        <5> SUFFICES ASSUME j = i PROVE FALSE
          OBVIOUS
        <5>1. k # i /\ entries[p][k].valid
          BY <1>0, <1>1, <1>3, <2>3, <3>3, <4>1
        <5> QED BY <1>1, <2>3, <4>1, <5>1 DEF OrderInv, Filled
      <4>3. entries'[p][j] = entries[p][j] /\ entries[p][j].valid
        BY <1>3, <3>3, <4>2
      <4>4. CASE k = i
        <5>1. entries[p][j].addr \in Known(p)
          BY <4>3 DEF Known
        <5>2. entries'[p][k].addr = w.addr
          BY <1>3, <1>4, <2>3, <4>4
        <5> QED BY <1>0, <1>2, <2>3, <4>3, <5>1, <5>2, LearnedIs
      <4>5. CASE k # i
        <5>1. entries'[p][k] = entries[p][k]
          BY <1>3, <4>5
        <5>2. <<entries[p][j].addr, entries[p][k].addr>> \in order[p]
          BY <2>1, <3>1, <3>3, <4>3, <5>1 DEF Aged
        <5> QED BY <1>0, <1>2, <2>3, <4>3, <5>1, <5>2, LearnedIs
      <4> QED BY <4>4, <4>5
    <3> QED BY <1>2, <3>1, <3>3 DEF Aged
  <2> QED BY <2>2, <2>3
<1>10. order' \in [Ports -> SUBSET (Addrs \X Addrs)]
  BY <1>0, <1>2, LearnedIs
<1> QED BY <1>5, <1>8, <1>9, <1>10 DEF OrderInv, AgedAlone

\* The replace address moves on by one, and every entry but the new one is one
\* replacement nearer to its turn.
LEMMA AgesMove ==
  ASSUME NEW n \in Slots, NEW j \in Slots, NEW k \in Slots,
         NEW m, m = IF n >= NUM_ENTRIES - 1 THEN 0 ELSE n + 1
  PROVE  /\ j # n => Age(n, n) < Age(n, j)
         /\ Age(m, j) < Age(m, k) => j # n
         /\ Age(m, j) < Age(m, k) /\ k # n => Age(n, j) < Age(n, k)
<1>1. n \in Nat /\ j \in Nat /\ k \in Nat /\ n < NUM_ENTRIES /\ j < NUM_ENTRIES /\ k < NUM_ENTRIES
      /\ NUM_ENTRIES \in Nat
  BY EntriesAssumption DEF Slots
<1>2. CASE n >= NUM_ENTRIES - 1
  <2>1. m = 0 /\ n = NUM_ENTRIES - 1
    BY <1>1, <1>2
  <2>2. Age(m, j) = j /\ Age(m, k) = k
    BY <1>1, <2>1 DEF Age
  <2> QED BY <1>1, <2>1, <2>2 DEF Age
<1>3. CASE ~(n >= NUM_ENTRIES - 1)
  <2>1. m = n + 1
    BY <1>3
  <2> QED BY <1>1, <2>1 DEF Age
<1> QED BY <1>2, <1>3

LEMMA ReplaceOrder ==
  ASSUME CacheInv, OrderInv, NEW w \in Write, Replace(w) PROVE OrderInv'
<1> DEFINE n == next_replace_addr
           victim == entries[w.port][n].addr
<1>0. w.port \in Ports /\ w.addr \in Addrs /\ n \in Slots
  BY DEF Write, CacheInv, CacheType
<1>1. /\ \A j \in Slots : entries[w.port][j].valid /\ entries[w.port][j].addr # w.addr
      /\ entries' = Written(entries, w, n) /\ Learned(w.port, w.addr, {victim})
      /\ next_replace_addr' = IF n >= NUM_ENTRIES - 1 THEN 0 ELSE n + 1
  BY DEF Replace, Empty, Matches, Put, Written, Taught, NextReplaceAddr
<1>2. \A q \in Ports : \A j \in Slots :
        entries'[q][j] = IF q = w.port /\ j = n THEN Taught(w) ELSE entries[q][j]
  BY <1>0, <1>1, InvIn, WrittenIs
<1>3. Taught(w).valid /\ Taught(w).addr = w.addr
  BY DEF Taught
<1>4. \A j \in Slots : entries'[w.port][j].valid
  BY <1>0, <1>1, <1>2, <1>3
<1>5. Filled(entries')
  BY <1>0, <1>2, <1>4 DEF OrderInv, Filled
<1>6. ~HasEmpty(entries', w.port)
  BY <1>4 DEF HasEmpty
<1>7. Unmoved(entries', next_replace_addr')
  BY <1>0, <1>6 DEF Unmoved
<1>8. ASSUME NEW p \in Ports, \A q \in Ports \ {p} : HasEmpty(entries', q)
      PROVE  Aged(entries', next_replace_addr', order', p)
  <2>1. p = w.port
    BY <1>0, <1>6, <1>8
  <2>2. \A q \in Ports \ {p} : HasEmpty(entries, q)
    BY <1>2, <1>8, <2>1 DEF HasEmpty
  <2>3. Aged(entries, n, order, p)
    BY <2>2 DEF OrderInv, AgedAlone
  <2>4. ASSUME NEW j \in Slots, NEW k \in Slots, entries'[p][j].valid, entries'[p][k].valid,
               Age(next_replace_addr', j) < Age(next_replace_addr', k)
        PROVE  <<entries'[p][j].addr, entries'[p][k].addr>> \in order'[p]
    <3>1. j # n
      BY <1>0, <1>1, <2>4, AgesMove
    <3>2. entries'[p][j] = entries[p][j] /\ entries[p][j].valid /\ entries[p][j].addr # victim
      BY <1>0, <1>1, <1>2, <2>1, <3>1 DEF CacheInv, KeysUnique
    <3>3. CASE k = n
      <4>1. entries[p][j].addr \in Known(p) \ {victim}
        BY <3>2 DEF Known
      <4>2. entries'[p][k].addr = w.addr
        BY <1>0, <1>2, <1>3, <2>1, <3>3
      <4> QED BY <1>0, <1>1, <2>1, <3>2, <4>1, <4>2, LearnedIs
    <3>4. CASE k # n
      <4>1. entries'[p][k] = entries[p][k] /\ entries[p][k].valid /\ entries[p][k].addr # victim
        BY <1>0, <1>1, <1>2, <2>1, <3>4 DEF CacheInv, KeysUnique
      <4>2. Age(n, j) < Age(n, k)
        BY <1>0, <1>1, <2>4, <3>1, <3>4, AgesMove
      <4>3. <<entries[p][j].addr, entries[p][k].addr>> \in order[p]
        BY <2>3, <3>2, <4>1, <4>2 DEF Aged
      <4> QED BY <1>0, <1>1, <2>1, <3>2, <4>1, <4>3, LearnedIs
    <3> QED BY <3>3, <3>4
  <2> QED BY <2>4 DEF Aged
<1>9. order' \in [Ports -> SUBSET (Addrs \X Addrs)]
  BY <1>0, <1>1, LearnedIs
<1> QED BY <1>5, <1>7, <1>8, <1>9 DEF OrderInv, AgedAlone

LEMMA StepOrder == CacheInv /\ OrderInv /\ [Next]_vars => OrderInv'
<1> SUFFICES ASSUME CacheInv, OrderInv, [Next]_vars PROVE OrderInv'
  OBVIOUS
<1>1. CASE UNCHANGED <<entries, next_replace_addr, order>>
  BY <1>1, IdleOrder
<1>2. CASE buffer # NoWrite /\ (Update(buffer) \/ Insert(buffer) \/ Replace(buffer))
  BY <1>2, UpdateOrder, InsertOrder, ReplaceOrder DEF CacheInv, CacheType
<1> QED BY <1>1, <1>2 DEF Next, WriteController, Idle, vars

\* Every register of the cache and of its writers holds a value of its type.
THEOREM TypeCorrect == Spec => []TypeOK
<1>1. CacheInv /\ OrderInv => TypeOK
  BY DEF CacheInv, OrderInv, TypeOK
<1> QED BY <1>1, InitInv, InitOrder, StepInv, StepOrder, PTL DEF Spec

\* Only a replacement makes a port forget, and it forgets the entry at the
\* replace address.
LEMMA ForgetsVictim ==
  ASSUME CacheInv, [Next]_vars, NEW p \in Ports, NEW a \in Addrs, Forgets(p, a)
  PROVE  /\ \A j \in Slots : entries[p][j].valid
         /\ a = entries[p][next_replace_addr].addr
<1>1. TypedIn(entries) /\ UniqueIn(entries)
  BY InvIn
<1>2. ReadIn(entries, p, a) # NoMac /\ ReadIn(entries', p, a) = NoMac
  BY MapIs DEF Forgets, MapOf
<1>3. entries' # entries
  BY <1>2
<1>4. buffer \in Write /\ (Update(buffer) \/ Insert(buffer) \/ Replace(buffer))
  BY <1>3 DEF Next, WriteController, Idle, vars, CacheInv, CacheType
<1>5. PICK w \in Write : w = buffer
  BY <1>4
<1>6. w.port \in Ports /\ w.addr \in Addrs /\ w.mac \in Macs /\ NoMac \notin Macs
  BY ZeroAssumption DEF Write
<1>7. ASSUME NEW i \in Slots, entries' = Written(entries, w, i),
             \A j \in Slots \ {i} : entries[w.port][j].valid => entries[w.port][j].addr # w.addr
      PROVE  p = w.port /\ entries[p][i].valid /\ entries[p][i].addr = a /\ a # w.addr
  BY <1>1, <1>2, <1>6, <1>7, WrittenRead
<1>8. CASE Update(w)
  <2>1. PICK i \in Slots : entries[w.port][i].valid /\ entries[w.port][i].addr = w.addr
    BY <1>8 DEF Update, Matches
  <2>2. Highest(Matches(w.port, w.addr)) = i
    BY <1>1, <1>6, <2>1, ReadMatch DEF Matches, MatchesIn
  <2>3. entries' = Written(entries, w, i)
    BY <1>8, <2>2 DEF Update, Put, Written, Taught
  <2>4. \A j \in Slots \ {i} : entries[w.port][j].valid => entries[w.port][j].addr # w.addr
    BY <1>6, <2>1 DEF CacheInv, KeysUnique
  <2> QED BY <1>7, <2>1, <2>3, <2>4
<1>9. CASE Insert(w)
  <2> DEFINE i == Lowest(Empty(w.port))
  <2>1. i \in Slots /\ ~entries[w.port][i].valid
    BY <1>9, LowestIn DEF Insert, Empty
  <2>2. entries' = Written(entries, w, i)
    BY <1>9 DEF Insert, Put, Written, Taught
  <2>3. \A j \in Slots : entries[w.port][j].valid => entries[w.port][j].addr # w.addr
    BY <1>9 DEF Insert, Matches
  <2> QED BY <1>7, <2>1, <2>2, <2>3
<1>10. CASE Replace(w)
  <2>1. entries' = Written(entries, w, next_replace_addr) /\ next_replace_addr \in Slots
    BY <1>10 DEF Replace, Put, Written, Taught, CacheInv, CacheType
  <2>2. \A j \in Slots : entries[w.port][j].valid /\ entries[w.port][j].addr # w.addr
    BY <1>10 DEF Replace, Matches, Empty
  <2> QED BY <1>7, <2>1, <2>2
<1> QED BY <1>4, <1>5, <1>8, <1>9, <1>10

\* A full port replaces the address it learned first as long as no other port
\* is full: the one replace address of all ports then points at its oldest
\* entry (neighbor_cache.sv:181-189).
THEOREM OldestGoesAlone == Spec => FifoAlone
<1>1. CacheInv /\ OrderInv /\ [Next]_vars =>
        [\A p \in Ports : (\A q \in Ports \ {p} : Empty(q) # {}) => OldestGoes(p)]_vars
  <2> SUFFICES ASSUME CacheInv, OrderInv, [Next]_vars,
                      NEW p \in Ports, \A q \in Ports \ {p} : Empty(q) # {},
                      NEW a \in Addrs, Forgets(p, a), NEW b \in Known(p) \ {a}
               PROVE  <<a, b>> \in order[p]
    BY DEF OldestGoes
  <2>1. a = entries[p][next_replace_addr].addr /\ \A j \in Slots : entries[p][j].valid
    BY ForgetsVictim
  <2>2. PICK j \in Slots : entries[p][j].valid /\ entries[p][j].addr = b
    BY DEF Known
  <2>3. Aged(entries, next_replace_addr, order, p)
    BY DEF OrderInv, AgedAlone, HasEmpty, Empty
  <2>4. next_replace_addr \in Slots /\ j # next_replace_addr
    BY <2>1, <2>2 DEF CacheInv, CacheType
  <2>5. Age(next_replace_addr, next_replace_addr) < Age(next_replace_addr, j)
    BY <2>4, AgesMove
  <2> QED BY <2>1, <2>2, <2>3, <2>4, <2>5 DEF Aged
<1> QED BY <1>1, InitInv, InitOrder, StepInv, StepOrder, PTL DEF Spec, FifoAlone

=============================================================================
