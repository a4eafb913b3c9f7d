------------------------------ MODULE RouteMap ------------------------------
(***************************************************************************)
(* What the tries promise the rest of the firmware: a partial map from     *)
(* prefixes to next hop indexes, changed by one call at a time, each call  *)
(* taking effect in one step or not at all.                                *)
(***************************************************************************)
CONSTANTS Keys, Hops, None

VARIABLES
  map,       \* prefix -> next hop index, None where there is no route
  call,      \* the call that has not taken effect yet
  trusted    \* FALSE once a reset has left routes of an earlier life behind

mapVars == <<map, call, trusted>>

NoCall == [kind |-> "none"]
Calls == [kind : {"put"}, key : Keys, hop : Hops] \cup [kind : {"drop"}, key : Keys]
Nothing == [k \in Keys |-> None]

Init == map = Nothing /\ call = NoCall /\ trusted = TRUE

Call == call = NoCall /\ call' \in Calls /\ UNCHANGED map

Put == /\ call.kind = "put"
       /\ map' = [map EXCEPT ![call.key] = call.hop]
       /\ call' = NoCall

Drop == /\ call.kind = "drop"
        /\ map' = [map EXCEPT ![call.key] = None]
        /\ call' = NoCall

\* A new route may find no room, a deletion may find no route; a route that is
\* there is never refused a new next hop.
Refuse == /\ call # NoCall /\ map[call.key] = None
          /\ call' = NoCall
          /\ UNCHANGED map

Reset == map' = Nothing /\ call' = NoCall

Next == \/ trusted /\ trusted' /\ (Call \/ Put \/ Drop \/ Refuse \/ Reset)
        \/ ~trusted'

Spec == Init /\ [][Next]_mapVars
=============================================================================
