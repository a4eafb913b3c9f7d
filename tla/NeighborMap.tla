----------------------------- MODULE NeighborMap -----------------------------
(***************************************************************************)
(* What the neighbour cache promises its readers: per port a map from      *)
(* addresses to MAC addresses that holds the last one learned, for at most *)
(* NUM_ENTRIES addresses; a new address makes a full port forget another.  *)
(***************************************************************************)
EXTENDS Naturals, FiniteSets

CONSTANTS Ports, Addrs, Macs, NoMac, NUM_ENTRIES

VARIABLE map

Known(p) == {a \in Addrs : map[p][a] # NoMac}

Full(p) == Cardinality(Known(p)) = NUM_ENTRIES

\* Learning a from port p makes it forget the addresses in gone.
Learn(p, a, m, gone) ==
  map' = [q \in Ports |-> [b \in Addrs |->
            IF q # p THEN map[q][b]
            ELSE IF b = a THEN m ELSE IF b \in gone THEN NoMac ELSE map[p][b]]]

Update(p, a, m) == map[p][a] # NoMac /\ Learn(p, a, m, {})
Insert(p, a, m) == map[p][a] = NoMac /\ ~Full(p) /\ Learn(p, a, m, {})
Replace(p, a, m) ==
  /\ map[p][a] = NoMac /\ Full(p)
  /\ \E b \in Known(p) : Learn(p, a, m, {b})

Init == map = [p \in Ports |-> [a \in Addrs |-> NoMac]]

Next == \E p \in Ports, a \in Addrs, m \in Macs :
          Update(p, a, m) \/ Insert(p, a, m) \/ Replace(p, a, m)

Spec == Init /\ [][Next]_map
=============================================================================
