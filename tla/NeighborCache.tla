---------------------------- MODULE NeighborCache ----------------------------
(***************************************************************************)
(* The neighbour cache (dataStructures/neighbor_cache.sv) with all that    *)
(* writes to it: the NA pipeline, the write pulse of the NS pipeline, the  *)
(* cache arbiter and the register in front of the write port.  One step is *)
(* one clock cycle of all of them.                                         *)
(*                                                                         *)
(* Abstractions.  An NA is the entry it teaches, chosen when its checksum  *)
(* is found right, which takes any number of cycles.  The NS pipeline is   *)
(* its write pulse: one cycle long, and never in two successive cycles.    *)
(* The reachability timer and the probe are commented out in the source,   *)
(* so an entry never becomes invalid.                                      *)
(***************************************************************************)
EXTENDS Integers, FiniteSets

CONSTANTS
  Ports,                \* 0..3 in the code
  Addrs,                \* IPv6 addresses of neighbours
  Macs,                 \* MAC addresses
  NoMac, NoAddr,        \* what a reset leaves in an entry; NoMac is also
                        \* r_MAC_addr when the key does not exist
  NUM_ENTRIES           \* entries per port, 8 in the code

ASSUME EntriesAssumption == NUM_ENTRIES \in Nat \ {0}
ASSUME ZeroAssumption == NoMac \notin Macs /\ NoAddr \notin Addrs

VARIABLES
  entries,              \* neighbor_cache_entries
  next_replace_addr,
  buffer,               \* cache_w_buffer, with cache_wea_p_buffer
  ns,                   \* what the NS pipeline writes in this cycle
  na_state, na,         \* the NA pipeline and its output register
  order                 \* history: port -> the pairs of its addresses of which
                        \* the first was learned before the second

vars == <<entries, next_replace_addr, buffer, ns, na_state, na, order>>

Slots == 0 .. NUM_ENTRIES - 1
Write == [port : Ports, addr : Addrs, mac : Macs]
NoWrite == [port |-> "none"]     \* wea_p is low
Entry == [valid : BOOLEAN, addr : Addrs \cup {NoAddr}, mac : Macs \cup {NoMac}]

\* The entries and what is on its way to them have their types.
CacheType ==
  /\ entries \in [Ports -> [Slots -> Entry]]
  /\ \A p \in Ports : \A i \in Slots : entries[p][i].valid =>
       entries[p][i].addr \in Addrs /\ entries[p][i].mac \in Macs
  /\ next_replace_addr \in Slots
  /\ buffer \in Write \cup {NoWrite}
  /\ ns \in Write \cup {NoWrite}
  /\ na_state \in {"IDLE", "WAIT", "CHECK", "CACHE"}
  /\ na \in Write \cup {NoWrite}

\* Every variable has its type; a valid entry has an address and a MAC address.
TypeOK == CacheType /\ order \in [Ports -> SUBSET (Addrs \X Addrs)]

-----------------------------------------------------------------------------
(* The CAM. *)

\* Mutant: the addresses are not compared.
MatchAnyAddress(p, a) == {i \in Slots : entries[p][i].valid}
Matches(p, a) == {i \in Slots : entries[p][i].valid /\ entries[p][i].addr = a}
Empty(p) == {i \in Slots : ~entries[p][i].valid}

Known(p) == {entries[p][i].addr : i \in {i \in Slots : entries[p][i].valid}}

Highest(S) == CHOOSE i \in S : \A k \in S : k =< i
Lowest(S) == CHOOSE i \in S : \A k \in S : i =< k

\* Read port 0.
r_MAC_addr_0(p, a) ==
  IF Matches(p, a) = {} THEN NoMac ELSE entries[p][Highest(Matches(p, a))].mac

-----------------------------------------------------------------------------
(* The write port, one cycle after the arbiter. *)

Put(w, i) ==
  entries' = [entries EXCEPT ![w.port][i] =
                [valid |-> TRUE, addr |-> w.addr, mac |-> w.mac]]

\* History: port p learns a and forgets gone.
Learned(p, a, gone) ==
  order' = [order EXCEPT ![p] = {x \in @ : {x[1], x[2]} \cap gone = {}}
                                  \cup ((Known(p) \ gone) \X {a})]

Idle == buffer = NoWrite /\ UNCHANGED <<entries, next_replace_addr, order>>

Update(w) ==
  /\ Matches(w.port, w.addr) # {}
  /\ Put(w, Highest(Matches(w.port, w.addr)))
  /\ UNCHANGED <<next_replace_addr, order>>

\* Mutant: an empty entry is taken although the address is known.
InsertFirst(w) ==
  /\ Empty(w.port) # {}
  /\ Put(w, Lowest(Empty(w.port)))
  /\ Learned(w.port, w.addr, {})
  /\ UNCHANGED next_replace_addr
Insert(w) ==
  /\ Matches(w.port, w.addr) = {} /\ Empty(w.port) # {}
  /\ Put(w, Lowest(Empty(w.port)))
  /\ Learned(w.port, w.addr, {})
  /\ UNCHANGED next_replace_addr

\* Mutants: the replace address does not move, or does not wrap.
StuckReplaceAddr == next_replace_addr
EndlessReplaceAddr == next_replace_addr + 1
NextReplaceAddr ==
  IF next_replace_addr >= NUM_ENTRIES - 1 THEN 0 ELSE next_replace_addr + 1

Replace(w) ==
  /\ Matches(w.port, w.addr) = {} /\ Empty(w.port) = {}
  /\ Learned(w.port, w.addr, {entries[w.port][next_replace_addr].addr})
  /\ Put(w, next_replace_addr)
  /\ next_replace_addr' = NextReplaceAddr

WriteController ==
  \/ Idle
  \/ buffer # NoWrite /\ (Update(buffer) \/ Insert(buffer) \/ Replace(buffer))

-----------------------------------------------------------------------------
(* The arbiter: NS first.  Then the register in front of the cache. *)

na_valid == na_state = "CACHE"

\* Mutant: the NA pipeline is always told that its entry is taken.
AlwaysReady == TRUE
na_ready == ns = NoWrite

cache_w == IF ns # NoWrite THEN ns ELSE IF na_valid THEN na ELSE NoWrite

CACHE_W_BUFFER == buffer' = cache_w

-----------------------------------------------------------------------------
(* The writers. *)

\* The write pulse of the NS pipeline lasts one cycle.
NsStep == ns' \in IF ns = NoWrite THEN Write \cup {NoWrite} ELSE {NoWrite}

NaStays == na_state # "CACHE" /\ UNCHANGED <<na_state, na>>
NaFirstBeat == na_state = "IDLE" /\ na_state' = "WAIT" /\ UNCHANGED na
NaSecondBeat == na_state = "WAIT" /\ na_state' = "CHECK" /\ UNCHANGED na
NaChecksumGood == na_state = "CHECK" /\ na_state' = "CACHE" /\ na' \in Write
NaChecksumBad == na_state = "CHECK" /\ na_state' = "IDLE" /\ UNCHANGED na
NaCached ==
  /\ na_state = "CACHE"
  /\ IF na_ready THEN na_state' = "IDLE" /\ na' = NoWrite
                 ELSE UNCHANGED <<na_state, na>>

NaStep ==
  \/ NaStays \/ NaFirstBeat \/ NaSecondBeat
  \/ NaChecksumGood \/ NaChecksumBad \/ NaCached

-----------------------------------------------------------------------------
Init ==
  /\ entries = [p \in Ports |-> [i \in Slots |->
                  [valid |-> FALSE, addr |-> NoAddr, mac |-> NoMac]]]
  /\ next_replace_addr = 0
  /\ buffer = NoWrite /\ ns = NoWrite
  /\ na_state = "IDLE" /\ na = NoWrite
  /\ order = [p \in Ports |-> {}]

Next == WriteController /\ CACHE_W_BUFFER /\ NsStep /\ NaStep

Spec == Init /\ [][Next]_vars

-----------------------------------------------------------------------------
(* Properties. *)

\* No address has two entries on a port, although two pipelines teach the
\* cache and a write sees the entries one cycle after it was granted.
KeysUnique ==
  \A p \in Ports : \A i, j \in Slots :
    /\ entries[p][i].valid /\ entries[p][j].valid
    /\ entries[p][i].addr = entries[p][j].addr
    => i = j

\* Read port 0 shows a map that holds the last MAC address learned and
\* forgets one only for a new address on a full port.
Map == INSTANCE NeighborMap WITH
         map <- [p \in Ports |-> [a \in Addrs |-> r_MAC_addr_0(p, a)]]
ImplementsMap == Map!Spec

\* What an NA with a good checksum teaches reaches the cache, at the latest a
\* cycle after the NS pipeline has taken its turn.
NaLearned ==
  [][na_valid => buffer' = na \/ (na_valid' /\ na' = na /\ na_ready')]_vars

Forgets(p, a) == r_MAC_addr_0(p, a) # NoMac /\ r_MAC_addr_0(p, a)' = NoMac
OldestGoes(p) ==
  \A a \in Addrs : Forgets(p, a) => \A b \in Known(p) \ {a} : <<a, b>> \in order[p]

\* A full port replaces its oldest entry as long as no other port is full.
FifoAlone ==
  [][\A p \in Ports : (\A q \in Ports \ {p} : Empty(q) # {}) => OldestGoes(p)]_vars
=============================================================================
