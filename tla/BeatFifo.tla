------------------------------ MODULE BeatFifo ------------------------------
(***************************************************************************)
(* What the forwarding pipeline promises: the beats it takes in leave      *)
(* once, in order, each by the port of its frame.  One step is one cycle.  *)
(***************************************************************************)
EXTENDS Sequences

CONSTANT Beat

VARIABLES
  queue,                \* the beats inside, oldest first
  entering, leaving     \* in this cycle: <<>> or one beat

Init == queue = <<>> /\ entering = <<>> /\ leaving = <<>>

AtMostOne == {<<>>} \cup {<<b>> : b \in Beat}

Next ==
  /\ leaving \o queue' = queue \o entering
  /\ entering' \in AtMostOne /\ leaving' \in AtMostOne

Spec == Init /\ [][Next]_<<queue, entering, leaving>>
=============================================================================
