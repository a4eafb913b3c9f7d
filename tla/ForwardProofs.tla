--------------------------- MODULE ForwardProofs ---------------------------
(***************************************************************************)
(* Theorems about the forwarding pipeline, for every number of trie stages *)
(* of PERIOD >= MaxWait + 3 cycles each: no beat is lost or doubled, and   *)
(* the pipeline implements BeatFifo.                                       *)
(***************************************************************************)
EXTENDS Forward, WellFoundedInduction, SequenceTheorems, TLAPS

USE DEF Stages, LAST

LEMMA EmptyIsSlot == Empty \in Slot /\ NoBeat \in AnyBeat
BY DEF Empty, NoBeat, Slot, AnyBeat

LEMMA ShownIsSlot ==
  ASSUME NEW b \in AnyBeat
  PROVE  Shown(b) \in Slot
BY DEF Shown, Slot

LEMMA HeldBackIsSlot ==
  ASSUME NEW s \in Slot
  PROVE  [s EXCEPT !.valid = FALSE] \in Slot /\ s.beat \in AnyBeat
BY DEF Slot

LEMMA NextInTyped ==
  ASSUME TypeOK
  PROVE  NextIn \subseteq Slot
<1>1. in \in Slot
  BY DEF TypeOK
<1>2. \A b \in Beat : Shown(b) \in Slot
  BY ShownIsSlot DEF Beat, AnyBeat
<1> QED BY <1>1, <1>2, HeldBackIsSlot DEF NextIn

\* What stage i is offered is a beat.
LEMMA OfferedTyped ==
  ASSUME TypeOK, NEW i \in Stages
  PROVE  Offered(i) \in Slot
<1>1. CASE i = 1
  BY <1>1 DEF Offered, TypeOK
<1>2. CASE i # 1
  <2>1. i - 1 \in Stages
    BY <1>2, StagesAssumption
  <2> QED BY <1>2, <2>1 DEF Offered, TypeOK, Slot
<1> QED BY <1>1, <1>2

LEMMA FwtOutTyped ==
  ASSUME TypeOK
  PROVE  fwt_out \in Slot
<1>1. STAGES \in Stages
  BY StagesAssumption
<1> QED BY <1>1 DEF fwt_out, TypeOK, Slot, AnyBeat

\* The states of the trie stages stay in their range.
LEMMA Trie128Typed ==
  ASSUME TypeOK, Trie128
  PROVE  /\ state' \in [Stages -> 0 .. LAST]
         /\ out_valid' \in [Stages -> BOOLEAN]
         /\ frame_beat' \in [Stages -> AnyBeat]
<1>1. \A i \in Stages : Offered(i).beat \in AnyBeat
  BY OfferedTyped DEF Slot
<1>2. state' \in [Stages -> 0 .. LAST]
  BY PeriodAssumption DEF TypeOK, Trie128, next_state
<1>3. out_valid' \in [Stages -> BOOLEAN]
  BY DEF Trie128, next_state
<1>4. frame_beat' \in [Stages -> AnyBeat]
  BY <1>1, EmptyIsSlot DEF TypeOK, Trie128
<1> QED BY <1>2, <1>3, <1>4

LEMMA TypeStep ==
  ASSUME TypeOK, [Next]_vars
  PROVE  TypeOK'
<1>1. CASE Next
  <2> USE <1>1 DEF Next
  <2>1. in' \in Slot
    BY NextInTyped DEF Input, TypeOK
  <2>2. in_buffer' \in Slot /\ fwt_in' \in Slot
    BY EmptyIsSlot DEF FW_IN_REG, FW_FWT_IN_REG, TypeOK
  <2>3. nexthop_beat' \in Slot
    BY FwtOutTyped DEF NEXTHOP_BEAT, TypeOK
  <2>4. nc_beat' \in Slot /\ nc_beat_buffer' \in Slot
    BY DEF NC_BEAT, NC_BEAT_BUFFER, TypeOK
  <2>5. cache_beat_comb \in Slot
    BY DEF cache_beat_comb, TypeOK
  <2>6. cache_beat_comb.beat \in AnyBeat
    BY <2>5, HeldBackIsSlot
  <2>7. WithPort(cache_beat_comb.beat) \in AnyBeat
    BY <2>6 DEF WithPort, AnyBeat, TypeOK
  <2>8. cache_beat' \in Slot
    BY <2>7, ShownIsSlot, EmptyIsSlot DEF FW_CACHE_REG, TypeOK
  <2>9. cache_r_port_id_reg' \in Ports \cup {NoPort}
    BY <2>6 DEF FW_CACHE_R_PORT_REG, AnyBeat, TypeOK
  <2>10. out' \in Slot
    BY DEF FW_OUT_REG, TypeOK
  <2>11. nc_ready' \in BOOLEAN /\ nc_used' \in BOOLEAN
    BY DEF NC_READY, cache_ready, out_ready, History
  <2>12. wait' \in 0 .. MaxWait
    BY WaitAssumption DEF Downstream, TypeOK
  <2> QED BY <2>1, <2>2, <2>3, <2>4, <2>8, <2>9, <2>10, <2>11, <2>12, Trie128Typed
          DEF TypeOK
<1>2. CASE UNCHANGED vars
  BY <1>2 DEF TypeOK, vars
<1> QED BY <1>1, <1>2

LEMMA InitTyped ==
  ASSUME Init
  PROVE  TypeOK
<1>1. state \in [Stages -> 0 .. LAST]
  BY PeriodAssumption DEF Init
<1>2. out_valid \in [Stages -> BOOLEAN] /\ frame_beat \in [Stages -> AnyBeat]
  BY EmptyIsSlot DEF Init
<1> QED BY <1>1, <1>2, EmptyIsSlot DEF Init, TypeOK

\* Every register of the pipeline is well typed, for every number of stages.
THEOREM TypeCorrect == Spec => []TypeOK
<1>1. Init => TypeOK
  BY InitTyped
<1>2. TypeOK /\ [Next]_vars => TypeOK'
  BY TypeStep
<1> QED BY <1>1, <1>2, PTL DEF Spec

-----------------------------------------------------------------------------
(* No beat is lost or doubled when out_ready is low for at most PERIOD - 3  *)
(* cycles at a time.                                                        *)

\* A stage never works on a beat for longer than the stage after it, so a
\* stage that finishes finds the next one idle.
ChainInv ==
  /\ \A i \in Stages : out_valid[i] => state[i] = 0
  /\ \A i \in Stages : i + 1 \in Stages =>
       /\ out_valid[i] => state[i + 1] = 0
       /\ state[i] # 0 /\ state[i + 1] # 0 => state[i] =< state[i + 1]

\* Behind the tries a beat finds the registers empty: one that waits in
\* nexthop_beat gets on before the last stage can finish the next, and none is
\* in nc_beat when its ready is low.
TailInv ==
  /\ nexthop_beat.valid =>
       /\ ~out_valid[STAGES]
       /\ IF nc_ready THEN state[STAGES] =< MaxWait + 1 /\ ~cache_beat.valid
          ELSE state[STAGES] + wait =< MaxWait /\ cache_beat.valid
  /\ nc_beat.valid =>
       /\ nc_ready /\ ~nc_used /\ ~out_valid[STAGES]
       /\ ~nexthop_beat.valid /\ ~cache_beat.valid
  /\ nc_beat_buffer = nc_beat

MoveInv == TypeOK /\ ChainInv /\ TailInv

\* What a trie stage does in one cycle.
LEMMA StageStep ==
  ASSUME TypeOK, Trie128, NEW i \in Stages
  PROVE  /\ state[i] = 0 => state'[i] \in {0, 1}
         /\ state[i] = 0 /\ state'[i] # 0 => Offered(i).valid
         /\ state[i] = LAST => state'[i] = 0
         /\ state[i] # 0 /\ state[i] # LAST => state'[i] = state[i] + 1
         /\ out_valid'[i] <=> (state[i] = LAST)
         /\ state[i] \in 0 .. LAST /\ LAST \in Nat /\ LAST >= 2
<1>1. out_valid'[i] = (state[i] = LAST)
  BY DEF Trie128, next_state
<1>2. state'[i] = IF state[i] = 0 THEN (IF Takes(i) THEN 1 ELSE 0)
                  ELSE IF state[i] = LAST THEN 0 ELSE state[i] + 1
  BY DEF Trie128, next_state
<1>3. state[i] \in 0 .. LAST /\ LAST \in Nat /\ LAST >= 2
  BY PeriodAssumption DEF TypeOK
<1>4. out_valid'[i] <=> (state[i] = LAST)
  BY <1>1
<1> QED BY <1>2, <1>3, <1>4 DEF Takes

LEMMA ChainStep ==
  ASSUME MoveInv, Next
  PROVE  ChainInv'
<1> TypeOK /\ Trie128 /\ ChainInv
  BY DEF MoveInv, Next
<1>1. \A i \in Stages : out_valid'[i] => state'[i] = 0
  BY StageStep
<1>2. ASSUME NEW i \in Stages, i + 1 \in Stages
      PROVE  /\ out_valid'[i] => state'[i + 1] = 0
             /\ state'[i] # 0 /\ state'[i + 1] # 0 => state'[i] =< state'[i + 1]
  <2>1. state[i + 1] = 0 /\ state'[i + 1] # 0 => out_valid[i]
    <3>1. i + 1 # 1 /\ (i + 1) - 1 = i
      OBVIOUS
    <3>2. Offered(i + 1).valid = out_valid[i]
      BY <3>1 DEF Offered
    <3> QED BY <1>2, <3>2, StageStep
  <2>2. out_valid[i] => state[i] = 0
    BY DEF ChainInv
  <2>3. state[i] # 0 /\ state[i + 1] # 0 => state[i] =< state[i + 1]
    BY <1>2 DEF ChainInv
  <2>4. /\ state[i] = 0 => state'[i] \in {0, 1}
        /\ state[i] = LAST => state'[i] = 0
        /\ state[i] # 0 /\ state[i] # LAST => state'[i] = state[i] + 1
        /\ out_valid'[i] <=> (state[i] = LAST)
        /\ state[i] \in 0 .. LAST /\ LAST \in Nat /\ LAST >= 2
    BY StageStep
  <2>5. /\ state[i + 1] = 0 => state'[i + 1] \in {0, 1}
        /\ state[i + 1] = LAST => state'[i + 1] = 0
        /\ state[i + 1] # 0 /\ state[i + 1] # LAST => state'[i + 1] = state[i + 1] + 1
        /\ state[i + 1] \in 0 .. LAST
    BY <1>2, StageStep
  <2>6. CASE state[i] = 0
    BY <2>4, <2>5, <2>6
  <2>7. CASE state[i] = LAST
    <3>1. state[i + 1] # 0 => state[i + 1] = LAST
      BY <2>3, <2>4, <2>5, <2>7
    <3>2. state[i + 1] = 0 => state'[i + 1] = 0
      BY <2>1, <2>2, <2>4, <2>7
    <3> QED BY <2>4, <2>5, <2>7, <3>1, <3>2
  <2>8. CASE state[i] # 0 /\ state[i] # LAST
    <3>1. state[i + 1] = 0 => state'[i + 1] = 0
      BY <2>1, <2>2, <2>8
    <3> QED BY <2>3, <2>4, <2>5, <2>8, <3>1
  <2> QED BY <2>6, <2>7, <2>8
<1> QED BY <1>1, <1>2 DEF ChainInv

LEMMA TailStep ==
  ASSUME MoveInv, Next, PERIOD >= MaxWait + 3
  PROVE  TailInv'
<1> DEFINE s == state[STAGES]
<1>1. STAGES \in Stages /\ TypeOK /\ Trie128 /\ ChainInv /\ TailInv
  BY StagesAssumption DEF MoveInv, Next
<1>2. /\ s = 0 => s' \in {0, 1}
      /\ s # 0 /\ s # LAST => s' = s + 1
      /\ out_valid'[STAGES] <=> (s = LAST)
      /\ s \in 0 .. LAST /\ LAST \in Nat /\ LAST >= 2
  BY <1>1, StageStep
<1>3. out_valid[STAGES] => s = 0
  BY <1>1 DEF ChainInv
<1>4. /\ wait \in 0 .. MaxWait /\ MaxWait \in Nat /\ PERIOD \in Nat
      /\ wait # 0 => wait' = wait - 1
  BY <1>1, WaitAssumption, PeriodAssumption DEF TypeOK, Next, Downstream
<1>5. /\ nc_ready' <=> (wait = 0 \/ ~cache_beat.valid)
      /\ nc_used' <=> (~nc_ready /\ (nc_used \/ cache_ready))
  BY DEF Next, NC_READY, History, cache_ready, out_ready
<1>6. /\ nc_ready \/ ~nexthop_beat.valid => nexthop_beat' = fwt_out
      /\ ~(nc_ready \/ ~nexthop_beat.valid) => nexthop_beat' = nexthop_beat
      /\ fwt_out.valid = out_valid[STAGES]
  BY DEF Next, NEXTHOP_BEAT, nexthop_ready, fwt_out
<1>7. /\ nc_ready => nc_beat' = nexthop_beat
      /\ ~nc_ready => nc_beat' = nc_beat
      /\ nc_beat_buffer' = nc_beat'
  BY <1>1 DEF Next, NC_BEAT, NC_BEAT_BUFFER, TailInv
<1>8. /\ ~(wait = 0 \/ ~cache_beat.valid) => cache_beat' = cache_beat
      /\ (wait = 0 \/ ~cache_beat.valid) => cache_beat'.valid = nc_beat.valid
  <2>1. cache_beat_comb = nc_beat
    BY <1>1 DEF cache_beat_comb, TailInv
  <2>2. nc_beat \in Slot
    BY <1>1 DEF TypeOK
  <2>3. CASE nc_beat.valid
    BY <2>1, <2>3 DEF Next, FW_CACHE_REG, cache_ready, out_ready, Shown
  <2>4. CASE ~nc_beat.valid
    BY <2>1, <2>2, <2>4 DEF Next, FW_CACHE_REG, cache_ready, out_ready, Empty, Slot
  <2> QED BY <2>3, <2>4
<1>9. ASSUME nexthop_beat'.valid
      PROVE  /\ ~out_valid'[STAGES]
             /\ IF nc_ready' THEN s' =< MaxWait + 1 /\ ~cache_beat'.valid
                ELSE s' + wait' =< MaxWait /\ cache_beat'.valid
  <2>1. CASE nc_ready \/ ~nexthop_beat.valid
    <3>1. out_valid[STAGES] /\ s = 0 /\ ~nc_beat.valid
      BY <1>1, <1>3, <1>6, <1>9, <2>1 DEF TailInv
    <3>2. s' \in {0, 1} /\ ~out_valid'[STAGES]
      BY <1>2, <3>1
    <3>3. CASE wait = 0 \/ ~cache_beat.valid
      BY <1>4, <1>5, <1>8, <3>1, <3>2, <3>3
    <3>4. CASE ~(wait = 0 \/ ~cache_beat.valid)
      BY <1>4, <1>5, <1>8, <3>2, <3>4
    <3> QED BY <3>3, <3>4
  <2>2. CASE ~(nc_ready \/ ~nexthop_beat.valid)
    <3>1. ~nc_beat.valid /\ s + wait =< MaxWait /\ cache_beat.valid
      BY <1>1, <2>2 DEF TailInv
    <3>2. s' =< s + 1 /\ s' \in Nat /\ ~out_valid'[STAGES]
      BY <1>2, <1>4, <3>1
    <3>3. CASE wait = 0
      BY <1>2, <1>4, <1>5, <1>8, <3>1, <3>2, <3>3
    <3>4. CASE wait # 0
      BY <1>2, <1>4, <1>5, <1>8, <3>1, <3>2, <3>4
    <3> QED BY <3>3, <3>4
  <2> QED BY <2>1, <2>2
<1>10. ASSUME nc_beat'.valid
       PROVE  /\ nc_ready' /\ ~nc_used' /\ ~out_valid'[STAGES]
              /\ ~nexthop_beat'.valid /\ ~cache_beat'.valid
  <2>1. nc_ready /\ nexthop_beat.valid
    BY <1>1, <1>7, <1>10 DEF TailInv
  <2>2. /\ ~out_valid[STAGES] /\ s =< MaxWait + 1
        /\ ~cache_beat.valid /\ ~nc_beat.valid
    BY <1>1, <2>1 DEF TailInv
  <2>3. ~out_valid'[STAGES]
    BY <1>2, <1>4, <2>2
  <2> QED BY <1>5, <1>6, <1>8, <2>1, <2>2, <2>3
<1> QED BY <1>7, <1>9, <1>10 DEF TailInv

\* The invariant says what is claimed.
LEMMA MovesOnce ==
  ASSUME MoveInv
  PROVE  BeatsMoveOnce
<1>1. STAGES \in Stages /\ ChainInv /\ TailInv
  BY StagesAssumption DEF MoveInv
<1>2. fwt_out_ready
  BY <1>1 DEF fwt_out_ready, fwt_out, nexthop_ready, TailInv
<1>3. ASSUME NEW i \in Stages, out_valid[i], i # STAGES
      PROVE  stage_ready(i + 1)
  <2>1. ASSUME NEW k \in i + 1 .. STAGES, \A j \in i + 1 .. k - 1 : out_valid[j]
        PROVE  state[k] = 0
    <3>1. k - 1 \in Stages /\ (k - 1) + 1 = k /\ k \in Stages
      BY StagesAssumption
    <3>2. out_valid[k - 1]
      BY <1>3, <2>1
    <3> QED BY <1>1, <3>1, <3>2 DEF ChainInv
  <2> QED BY <1>2, <2>1 DEF stage_ready
<1>4. nc_ready /\ ~cache_ready => ~nc_beat.valid
  BY <1>1 DEF TailInv, cache_ready
<1>5. cache_ready /\ nc_used => ~cache_beat_comb.valid
  BY <1>1 DEF TailInv, cache_beat_comb
<1> QED BY <1>2, <1>3, <1>4, <1>5 DEF BeatsMoveOnce

LEMMA InitMoveInv ==
  ASSUME Init
  PROVE  MoveInv
<1>1. TypeOK
  BY InitTyped
<1>2. ChainInv /\ TailInv
  BY StagesAssumption DEF Init, ChainInv, TailInv, Empty
<1> QED BY <1>1, <1>2 DEF MoveInv

LEMMA MoveStep ==
  ASSUME MoveInv, [Next]_vars, PERIOD >= MaxWait + 3
  PROVE  MoveInv'
<1>1. TypeOK'
  BY TypeStep DEF MoveInv
<1>2. CASE Next
  BY <1>1, <1>2, ChainStep, TailStep DEF MoveInv
<1>3. CASE UNCHANGED vars
  BY <1>1, <1>3 DEF MoveInv, ChainInv, TailInv, vars
<1> QED BY <1>2, <1>3

\* When out_ready is never low for more than PERIOD - 3 cycles at a time, every
\* trie stage is relieved of its beat at once and no beat is overwritten or
\* doubled at the neighbour cache, for every number of stages.
THEOREM NothingLostOrDoubled ==
  PERIOD >= MaxWait + 3 => (Spec => []BeatsMoveOnce)
<1> SUFFICES ASSUME PERIOD >= MaxWait + 3
             PROVE  Spec => []BeatsMoveOnce
  OBVIOUS
<1>1. Init => MoveInv
  BY InitMoveInv
<1>2. MoveInv /\ [Next]_vars => MoveInv'
  BY MoveStep
<1>3. MoveInv => BeatsMoveOnce
  BY MovesOnce
<1> QED BY <1>1, <1>2, <1>3, PTL DEF Spec
-----------------------------------------------------------------------------
(* The pipeline is a queue.  Each part of it hands on, at the front, what it *)
(* takes in behind: with what leaves the part in front of what stays, the    *)
(* parts fit together.                                                       *)

Beats == Seq(AnyBeat)

\* A set of naturals that is not empty has a least element.
LEMMA LeastNat ==
  ASSUME NEW S, S \subseteq Nat, S # {} PROVE \E x \in S : \A y \in S : x =< y
<1> DEFINE R == OpToRel(<, Nat)
<1>1. IsWellFoundedOn(R, Nat)
  BY NatLessThanWellFounded
<1>2. \A x, y \in Nat : y < x => <<y, x>> \in R
  BY DEF OpToRel
<1> HIDE DEF R
<1>3. PICK x \in S : \A y \in S : ~(<<y, x>> \in R)
  BY <1>1, WFMin
<1>4. ASSUME NEW y \in S PROVE x =< y
  <2>1. ~(y < x) /\ x \in Nat /\ y \in Nat
    BY <1>2, <1>3
  <2> QED BY <2>1
<1> QED BY <1>4

LEMMA Nil ==
  <<>> \in Beats /\ (\A s \in Beats : s \o <<>> = s /\ <<>> \o s = s)
<1>1. \A s \in Seq(AnyBeat) : s \o <<>> = s /\ <<>> \o s = s
  BY ConcatEmptySeq
<1> QED BY <1>1 DEF Beats

LEMMA Joined ==
  /\ \A s, t \in Beats : s \o t \in Beats
  /\ \A s, t, u \in Beats : (s \o t) \o u = s \o (t \o u)
<1>1. \A s, t \in Seq(AnyBeat) : s \o t \in Seq(AnyBeat)
  BY ConcatProperties
<1>2. \A s, t, u \in Seq(AnyBeat) : (s \o t) \o u = s \o (t \o u)
  BY ConcatAssociative
<1> QED BY <1>1, <1>2 DEF Beats

\* Part a of the pipeline lets x go, takes in y and is then a1.
HandsOn(x, a, y, a1) ==
  x \in Beats /\ a \in Beats /\ y \in Beats /\ a1 \in Beats /\ x \o a1 = a \o y

\* Two parts, one behind the other, are one part.
LEMMA Pass ==
  ASSUME NEW x, NEW a, NEW y, NEW a1, NEW b, NEW z, NEW b1,
         HandsOn(x, a, y, a1), HandsOn(y, b, z, b1)
  PROVE  HandsOn(x, a \o b, z, a1 \o b1)
<1>1. /\ x \in Beats /\ a \in Beats /\ y \in Beats /\ a1 \in Beats /\ b \in Beats
      /\ z \in Beats /\ b1 \in Beats
      /\ x \o a1 = a \o y /\ y \o b1 = b \o z
  BY DEF HandsOn
<1>2. x \o (a1 \o b1) = (x \o a1) \o b1
  BY <1>1, Joined
<1>3. (a \o y) \o b1 = a \o (y \o b1)
  BY <1>1, Joined
<1>4. a \o (b \o z) = (a \o b) \o z
  BY <1>1, Joined
<1>5. a \o b \in Beats /\ a1 \o b1 \in Beats
  BY <1>1, Joined
<1> QED BY <1>1, <1>2, <1>3, <1>4, <1>5 DEF HandsOn

LEMMA HeldTyped == ASSUME NEW s \in Slot PROVE Held(s) \in Beats
<1>1. s.beat \in AnyBeat
  BY HeldBackIsSlot
<1>2. <<s.beat>> \in Beats /\ <<>> \in Beats
  BY <1>1, Nil DEF Beats
<1> QED BY <1>2 DEF Held

-----------------------------------------------------------------------------
(* The tries.  The sequence of their beats is defined by recursion over the *)
(* stages: what holds of it is shown for the least stage at which it fails. *)

AtStage(i) == IF state[i] # 0 \/ out_valid[i] THEN <<frame_beat[i]>> ELSE <<>>
IsUpTo(f) ==
  f = [i \in 0 .. STAGES |-> IF i = 0 THEN <<>> ELSE AtStage(i) \o f[i - 1]]
SomeUpTo == \E f : IsUpTo(f) /\ InTrie = f[STAGES]

LEMMA UpToExists == SomeUpTo
<1> DEFINE F(n, f) ==
      f = [i \in 0 .. n |-> IF i = 0 THEN <<>> ELSE AtStage(i) \o f[i - 1]]
           S == {n \in 0 .. STAGES : ~ \E f : F(n, f)}
<1>1. STAGES \in Nat
  BY StagesAssumption
<1>2. S = {}
  <2> SUFFICES ASSUME S # {} PROVE FALSE
    OBVIOUS
  <2>1. PICK n \in S : \A m \in S : n =< m
    <3>1. S \subseteq Nat
      OBVIOUS
    <3> HIDE DEF S
    <3> QED BY <3>1, LeastNat
  <2>2. n \in 0 .. STAGES /\ ~ \E f : F(n, f)
    OBVIOUS
  <2>3. n # 0
    <3> DEFINE f == [i \in 0 .. 0 |-> <<>>]
    <3>1. n = 0 => F(n, f)
      OBVIOUS
    <3> HIDE DEF F, f
    <3> QED BY <2>2, <3>1
  <2>4. n - 1 \in 0 .. STAGES /\ ~(n =< n - 1)
    BY <1>1, <2>2, <2>3
  <2>5. PICK g : F(n - 1, g)
    <3> HIDE DEF F
    <3> QED BY <2>1, <2>4
  <2> DEFINE f == [i \in 0 .. n |-> IF i = n THEN AtStage(n) \o g[n - 1] ELSE g[i]]
  <2>6. ASSUME NEW i \in 0 .. n
        PROVE  f[i] = IF i = 0 THEN <<>> ELSE AtStage(i) \o f[i - 1]
    <3>1. CASE i = n
      <4>1. f[i] = AtStage(n) \o g[n - 1] /\ f[n - 1] = g[n - 1]
        BY <1>1, <2>2, <2>3, <3>1
      <4> QED BY <2>3, <3>1, <4>1
    <3>2. CASE i # n
      <4>1. i \in 0 .. n - 1 /\ f[i] = g[i]
        BY <1>1, <2>2, <3>2
      <4>2. g[i] = IF i = 0 THEN <<>> ELSE AtStage(i) \o g[i - 1]
        BY <2>5, <4>1
      <4>3. i # 0 => i - 1 \in 0 .. n /\ i - 1 # n
        BY <1>1, <2>2, <4>1
      <4>4. i # 0 => f[i - 1] = g[i - 1]
        BY <4>3
      <4> HIDE DEF f
      <4> QED BY <4>1, <4>2, <4>4
    <3> QED BY <3>1, <3>2
  <2>7. F(n, f)
    <3>1. DOMAIN f = 0 .. n /\ f = [i \in DOMAIN f |-> f[i]]
      OBVIOUS
    <3> HIDE DEF f
    <3> QED BY <2>6, <3>1
  <2> HIDE DEF F, f
  <2> QED BY <2>2, <2>7
<1>3. \E f : F(STAGES, f)
  <2> HIDE DEF F
  <2> QED BY <1>1, <1>2
<1>4. \E f : IsUpTo(f)
  BY <1>3 DEF IsUpTo
<1> DEFINE c == CHOOSE f :
             f = [i \in 0 .. STAGES |-> IF i = 0 THEN <<>> ELSE AtStage(i) \o f[i - 1]]
<1>5. IsUpTo(c)
  BY <1>4 DEF IsUpTo
<1>6. InTrie = c[STAGES]
  BY DEF InTrie, AtStage
<1> QED BY <1>5, <1>6 DEF SomeUpTo

LEMMA UpToExistsNext == SomeUpTo'
BY UpToExists, PTL

\* What leaves the first i stages, i = 0 for what they take in.
Out(i) ==
  IF i = 0 THEN (IF Takes(1) THEN <<fwt_in.beat>> ELSE <<>>)
  ELSE IF out_valid[i] THEN <<frame_beat[i]>> ELSE <<>>

LEMMA StagesTyped ==
  ASSUME TypeOK
  PROVE  /\ \A i \in Stages : AtStage(i) \in Beats
         /\ \A i \in 0 .. STAGES : Out(i) \in Beats
<1>1. \A b \in AnyBeat : <<b>> \in Beats
  BY DEF Beats
<1>2. \A i \in Stages : frame_beat[i] \in AnyBeat
  BY DEF TypeOK
<1>3. fwt_in.beat \in AnyBeat
  BY HeldBackIsSlot DEF TypeOK
<1>4. \A i \in 0 .. STAGES : i = 0 \/ i \in Stages
  BY StagesAssumption
<1> QED BY <1>1, <1>2, <1>3, <1>4, Nil DEF AtStage, Out

StagesShowBeats == \A i \in Stages : AtStage(i) \in Beats

LEMMA StagesTypedNext == TypeOK' => StagesShowBeats'
<1>1. TypeOK => StagesShowBeats
  BY StagesTyped DEF StagesShowBeats
<1> QED BY <1>1, PTL

\* A stage hands on what it shows and has then what it takes.
LEMMA StageMoves ==
  ASSUME MoveInv, Next, NEW i \in Stages
  PROVE  Out(i) \o AtStage(i)' = AtStage(i) \o Out(i - 1)
<1>1. TypeOK /\ Trie128 /\ ChainInv /\ BeatsMoveOnce
  BY MovesOnce DEF MoveInv, Next
<1>2. /\ state[i] = 0 => state'[i] = IF Takes(i) THEN 1 ELSE 0
      /\ state[i] # 0 => state'[i] # 0 \/ out_valid'[i]
      /\ state[i] = 0 => ~out_valid'[i]
      /\ out_valid[i] => state[i] = 0
  <2>1. state'[i] = next_state(i) /\ out_valid'[i] = (state[i] = LAST)
    BY <1>1 DEF Trie128
  <2>2. state[i] \in 0 .. LAST /\ LAST \in Nat /\ LAST >= 2
    BY <1>1, StageStep
  <2>3. state[i] = 0 => state'[i] = IF Takes(i) THEN 1 ELSE 0
    BY <2>1 DEF next_state
  <2>4. state[i] # 0 => state'[i] # 0 \/ out_valid'[i]
    BY <1>1, <2>2, StageStep
  <2>5. state[i] = 0 => ~out_valid'[i]
    BY <1>1, <2>2, StageStep
  <2>6. out_valid[i] => state[i] = 0
    BY <1>1 DEF ChainInv
  <2> QED BY <2>3, <2>4, <2>5, <2>6
<1>3. Takes(i) => frame_beat'[i] = Offered(i).beat
  BY <1>1 DEF Trie128
<1>4. Takes(i) => state[i] = 0
  <2>1. i \in i .. STAGES /\ i .. i - 1 = {}
    BY StagesAssumption
  <2> QED BY <2>1 DEF Takes, stage_ready
<1>5. state[i] # 0 => frame_beat'[i] = frame_beat[i]
  BY <1>1, <1>4 DEF Trie128
<1>6. Out(i - 1) = IF Takes(i) THEN <<Offered(i).beat>> ELSE <<>>
  <2>1. CASE i = 1
    BY <2>1 DEF Out, Offered
  <2>2. CASE i # 1
    <3>1. i - 1 \in Stages /\ i - 1 # STAGES /\ (i - 1) + 1 = i /\ i - 1 # 0
      BY <2>2, StagesAssumption
    <3>2. out_valid[i - 1] => stage_ready(i)
      BY <1>1, <3>1 DEF BeatsMoveOnce
    <3>3. Offered(i).valid = out_valid[i - 1] /\ Offered(i).beat = frame_beat[i - 1]
      BY <2>2 DEF Offered
    <3>4. Takes(i) <=> out_valid[i - 1]
      BY <3>2, <3>3 DEF Takes
    <3> QED BY <3>1, <3>3, <3>4 DEF Out
  <2> QED BY <2>1, <2>2
<1>7. Out(i) = IF out_valid[i] THEN <<frame_beat[i]>> ELSE <<>>
  BY DEF Out
<1>8. /\ Out(i) \in Beats /\ Out(i - 1) \in Beats /\ AtStage(i) \in Beats
  BY <1>1, StagesTyped, StagesAssumption
<1>9. CASE state[i] # 0
  <2>1. Out(i) = <<>> /\ Out(i - 1) = <<>>
    BY <1>2, <1>4, <1>6, <1>7, <1>9
  <2>2. AtStage(i) = <<frame_beat[i]>> /\ AtStage(i)' = <<frame_beat[i]>>
    BY <1>2, <1>5, <1>9 DEF AtStage
  <2> QED BY <1>8, <2>1, <2>2, Nil
<1>10. CASE state[i] = 0
  <2>1. AtStage(i)' = Out(i - 1)
    BY <1>2, <1>3, <1>6, <1>10 DEF AtStage
  <2>2. AtStage(i) = Out(i)
    BY <1>7, <1>10 DEF AtStage
  <2> QED BY <2>1, <2>2
<1> QED BY <1>9, <1>10

\* So do all stages together.
LEMMA TrieMoves ==
  ASSUME MoveInv, Next, TypeOK'
  PROVE  /\ Out(STAGES) \o InTrie' = InTrie \o Out(0)
         /\ InTrie \in Beats /\ InTrie' \in Beats
         /\ \E s \in Beats : InTrie = AtStage(STAGES) \o s
<1>1. PICK f : IsUpTo(f) /\ InTrie = f[STAGES]
  BY UpToExists DEF SomeUpTo
<1>2. PICK g : /\ g = [i \in 0 .. STAGES |->
                        IF i = 0 THEN <<>> ELSE AtStage(i)' \o g[i - 1]]
               /\ InTrie' = g[STAGES]
  BY UpToExistsNext DEF SomeUpTo, IsUpTo
<1> DEFINE Good(n) == /\ f[n] \in Beats /\ g[n] \in Beats
                      /\ Out(n) \o g[n] = f[n] \o Out(0)
           S == {n \in 0 .. STAGES : ~Good(n)}
<1>3. STAGES \in Nat /\ STAGES # 0 /\ TypeOK
  BY StagesAssumption DEF MoveInv
<1>4. S = {}
  <2> SUFFICES ASSUME S # {} PROVE FALSE
    OBVIOUS
  <2>1. PICK n \in S : \A m \in S : n =< m
    <3>1. S \subseteq Nat
      OBVIOUS
    <3> HIDE DEF S
    <3> QED BY <3>1, LeastNat
  <2>2. n \in 0 .. STAGES /\ ~Good(n)
    OBVIOUS
  <2>3. CASE n = 0
    <3>1. f[0] = <<>> /\ g[0] = <<>>
      BY <1>1, <1>2, <1>3 DEF IsUpTo
    <3>2. Out(0) \in Beats
      BY <1>3, StagesTyped
    <3>3. Good(0)
      BY <3>1, <3>2, Nil
    <3> HIDE DEF Good
    <3> QED BY <2>2, <2>3, <3>3
  <2>4. CASE n # 0
    <3>1. n - 1 \in 0 .. STAGES /\ n \in Stages /\ ~(n =< n - 1)
      BY <1>3, <2>2, <2>4
    <3>2. Good(n - 1)
      <4> HIDE DEF Good
      <4> QED BY <2>1, <3>1
    <3>3. f[n] = AtStage(n) \o f[n - 1]
      BY <1>1, <2>2, <2>4 DEF IsUpTo
    <3>4. g[n] = AtStage(n)' \o g[n - 1]
      <4> HIDE DEF Good, S
      <4> QED BY <1>2, <2>2, <2>4
    <3>5. PICK a, a1 : a = AtStage(n) /\ a1 = AtStage(n)'
      OBVIOUS
    <3>6. PICK x, y, z : x = Out(n) /\ y = Out(n - 1) /\ z = Out(0)
      OBVIOUS
    <3>7. a \in Beats /\ a1 \in Beats /\ x \in Beats /\ y \in Beats /\ z \in Beats
      BY <1>3, <3>1, <3>5, <3>6, StagesTyped, StagesTypedNext DEF StagesShowBeats
    <3>8. x \o a1 = a \o y
      BY <3>1, <3>5, <3>6, StageMoves
    <3>9. HandsOn(x, a, y, a1)
      BY <3>7, <3>8 DEF HandsOn
    <3>10. HandsOn(y, f[n - 1], z, g[n - 1])
      BY <3>2, <3>6, <3>7 DEF HandsOn
    <3>11. HandsOn(x, f[n], z, g[n])
      BY <3>3, <3>4, <3>5, <3>9, <3>10, Pass
    <3>12. Good(n)
      BY <3>6, <3>11 DEF HandsOn
    <3> HIDE DEF Good
    <3> QED BY <2>2, <3>12
  <2> QED BY <2>3, <2>4
<1>5. Good(STAGES) /\ Good(STAGES - 1)
  <2>1. STAGES \in 0 .. STAGES /\ STAGES - 1 \in 0 .. STAGES
    BY <1>3
  <2> HIDE DEF Good
  <2> QED BY <1>4, <2>1
<1>6. f[STAGES] = AtStage(STAGES) \o f[STAGES - 1]
  <2>1. STAGES \in 0 .. STAGES /\ STAGES # 0
    BY <1>3
  <2> HIDE DEF Good, S
  <2> QED BY <1>1, <2>1 DEF IsUpTo
<1> QED BY <1>1, <1>2, <1>5, <1>6

-----------------------------------------------------------------------------
(* The registers before and behind the tries. *)

Unused == IF nc_used THEN <<>> ELSE Held(nc_beat)
\* What each part lets go in a cycle.
OutOfPipeline == IF out_ready THEN Held(out) ELSE <<>>
OutOfCache == IF out_ready THEN Held(cache_beat) ELSE <<>>
OutOfNc == Unused
OutOfNexthop == IF nc_ready THEN Held(nexthop_beat) ELSE <<>>
OutOfBuffer == IF fwt_in_ready THEN Held(in_buffer) ELSE <<>>
Entering == IF buffer_ready THEN Held(in) ELSE <<>>

\* A beat that is not the first of its frame carries the port that the register
\* of the port holds when it comes to the neighbour cache.
NcFlows == nc_beat.valid => nc_beat.beat.first \/ nc_beat.beat.port = cache_r_port_id_reg

\* Each register hands on what it lets go.
LEMMA RegistersHandOn ==
  ASSUME MoveInv, NcFlows, Next, TypeOK'
  PROVE  /\ HandsOn(OutOfPipeline, Held(out), OutOfCache, Held(out)')
         /\ HandsOn(OutOfCache, Held(cache_beat), OutOfNc, Held(cache_beat)')
         /\ HandsOn(OutOfNc, Unused, OutOfNexthop, Unused')
         /\ HandsOn(OutOfNexthop, Held(nexthop_beat), Out(STAGES), Held(nexthop_beat)')
         /\ HandsOn(Out(STAGES), InTrie, Out(0), InTrie')
         /\ HandsOn(Out(0), Held(fwt_in), OutOfBuffer, Held(fwt_in)')
         /\ HandsOn(OutOfBuffer, Held(in_buffer), Entering, Held(in_buffer)')
<1>1. /\ TypeOK /\ TailInv /\ ChainInv /\ BeatsMoveOnce
      /\ STAGES \in Stages /\ STAGES # 0 /\ STAGES \in 0 .. STAGES /\ 0 \in 0 .. STAGES
  BY MovesOnce, StagesAssumption DEF MoveInv
<1>2. \A s \in {in, in_buffer, fwt_in, nexthop_beat, nc_beat, cache_beat, out} :
        s \in Slot /\ Held(s) \in Beats
  BY <1>1, HeldTyped DEF TypeOK
<1>3. /\ in_buffer' \in Slot /\ fwt_in' \in Slot /\ nexthop_beat' \in Slot
      /\ nc_beat' \in Slot /\ cache_beat' \in Slot /\ out' \in Slot
  BY DEF TypeOK
<1>4. \A s : Held(s) = IF s.valid THEN <<s.beat>> ELSE <<>>
  BY DEF Held
<1>5. /\ Out(STAGES) = IF out_valid[STAGES] THEN <<frame_beat[STAGES]>> ELSE <<>>
      /\ Out(0) = IF fwt_in.valid /\ fwt_in_ready THEN <<fwt_in.beat>> ELSE <<>>
      /\ Out(STAGES) \in Beats /\ Out(0) \in Beats
  <2>1. Out(STAGES) \in Beats /\ Out(0) \in Beats
    BY <1>1, StagesTyped
  <2>2. Out(STAGES) = IF out_valid[STAGES] THEN <<frame_beat[STAGES]>> ELSE <<>>
    BY <1>1 DEF Out
  <2>3. Out(0) = IF fwt_in.valid /\ fwt_in_ready THEN <<fwt_in.beat>> ELSE <<>>
    BY DEF Out, Takes, Offered, fwt_in_ready
  <2> QED BY <2>1, <2>2, <2>3
<1>6. \A x, y, a, a1 :
        a \in Beats /\ x \in Beats /\ y \in Beats /\ a1 \in Beats =>
          /\ x = a /\ a1 = y => HandsOn(x, a, y, a1)
          /\ x = <<>> /\ y = <<>> /\ a1 = a => HandsOn(x, a, y, a1)
  BY Nil DEF HandsOn
<1>7. HandsOn(OutOfPipeline, Held(out), OutOfCache, Held(out)')
  <2>1. Held(out)' = Held(out')
    BY DEF Held
  <2>2. out' = IF out_ready THEN cache_beat ELSE out
    BY DEF Next, FW_OUT_REG
  <2> QED BY <1>2, <1>6, <2>1, <2>2, Nil DEF OutOfPipeline, OutOfCache
<1>8. HandsOn(OutOfCache, Held(cache_beat), OutOfNc, Held(cache_beat)')
  <2>1. Held(cache_beat)' = Held(cache_beat') /\ Held(cache_beat') \in Beats
    BY <1>3, HeldTyped DEF Held
  <2>2. Unused \in Beats /\ OutOfCache \in Beats
    BY <1>2, Nil DEF Unused, OutOfCache
  <2>3. cache_beat_comb = nc_beat
    BY <1>1 DEF cache_beat_comb, TailInv
  <2>4. CASE nc_beat.valid
    <3>1. ~cache_beat.valid /\ ~nc_used /\ cache_ready
      BY <1>1, <2>4 DEF TailInv, cache_ready
    <3>2. nc_beat.beat \in AnyBeat
      BY <1>2, HeldBackIsSlot
    <3>3. WithPort(nc_beat.beat) = nc_beat.beat
      <4>1. CASE nc_beat.beat.first
        BY <4>1 DEF WithPort
      <4>2. CASE ~nc_beat.beat.first
        <5>1. cache_r_port_id_reg = nc_beat.beat.port
          BY <2>4, <4>2 DEF NcFlows
        <5>2. [nc_beat.beat EXCEPT !.port = nc_beat.beat.port] = nc_beat.beat
          BY <3>2 DEF AnyBeat
        <5> QED BY <4>2, <5>1, <5>2 DEF WithPort
      <4> QED BY <4>1, <4>2
    <3>4. cache_beat' = Shown(nc_beat.beat)
      BY <2>3, <2>4, <3>1, <3>3 DEF Next, FW_CACHE_REG
    <3>5. Held(cache_beat') = <<nc_beat.beat>>
      BY <3>4 DEF Held, Shown
    <3>6. Unused = <<nc_beat.beat>> /\ Held(cache_beat) = <<>> /\ OutOfCache = <<>>
      BY <2>4, <3>1 DEF Held, Unused, OutOfCache
    <3> QED BY <1>2, <1>6, <2>1, <2>2, <3>5, <3>6 DEF OutOfNc
  <2>5. CASE ~nc_beat.valid
    <3>1. Unused = <<>>
      BY <2>5 DEF Unused, Held
    <3>2. CASE cache_ready
      <4>1. cache_beat' = Empty
        BY <2>3, <2>5, <3>2 DEF Next, FW_CACHE_REG
      <4>2. Held(cache_beat') = <<>>
        BY <4>1 DEF Held, Empty
      <4>3. OutOfCache = Held(cache_beat)
        BY <3>2 DEF OutOfCache, cache_ready, Held
      <4> QED BY <1>2, <1>6, <2>1, <2>2, <3>1, <4>2, <4>3 DEF OutOfNc
    <3>3. CASE ~cache_ready
      <4>1. cache_beat' = cache_beat
        BY <3>3 DEF Next, FW_CACHE_REG
      <4>2. OutOfCache = <<>>
        BY <3>3 DEF OutOfCache, cache_ready
      <4> QED BY <1>2, <1>6, <2>1, <2>2, <3>1, <4>1, <4>2 DEF OutOfNc
    <3> QED BY <3>2, <3>3
  <2> QED BY <2>4, <2>5
<1>9. HandsOn(OutOfNc, Unused, OutOfNexthop, Unused')
  <2>1. Unused' = IF nc_used' THEN <<>> ELSE Held(nc_beat')
    BY DEF Unused, Held
  <2>2. Unused \in Beats /\ OutOfNexthop \in Beats /\ Unused' \in Beats
    BY <1>2, <1>3, <2>1, HeldTyped, Nil DEF Unused, OutOfNexthop
  <2>3. CASE nc_ready
    <3>1. nc_beat' = nexthop_beat /\ ~nc_used'
      BY <2>3 DEF Next, NC_BEAT, History
    <3>2. Unused' = OutOfNexthop
      BY <2>1, <2>3, <3>1 DEF OutOfNexthop
    <3> QED BY <1>6, <2>2, <3>2 DEF OutOfNc
  <2>4. CASE ~nc_ready
    <3>1. nc_beat' = nc_beat /\ ~nc_beat.valid
      BY <1>1, <2>4 DEF Next, NC_BEAT, TailInv
    <3>2. Unused = <<>> /\ Unused' = <<>> /\ OutOfNexthop = <<>>
      BY <2>1, <2>4, <3>1 DEF Unused, Held, OutOfNexthop
    <3> QED BY <1>6, <2>2, <3>2 DEF OutOfNc
  <2> QED BY <2>3, <2>4
<1>10. HandsOn(OutOfNexthop, Held(nexthop_beat), Out(STAGES), Held(nexthop_beat)')
  <2>1. Held(nexthop_beat)' = Held(nexthop_beat') /\ Held(nexthop_beat') \in Beats
    BY <1>3, HeldTyped DEF Held
  <2>2. OutOfNexthop \in Beats
    BY <1>2, Nil DEF OutOfNexthop
  <2>3. Held(fwt_out) = Out(STAGES)
    BY <1>1, <1>5 DEF Held, fwt_out, ChainInv
  <2>4. CASE nexthop_ready
    <3>1. nexthop_beat' = fwt_out
      BY <2>4 DEF Next, NEXTHOP_BEAT
    <3>2. OutOfNexthop = Held(nexthop_beat)
      BY <2>4 DEF nexthop_ready, OutOfNexthop, Held
    <3> QED BY <1>2, <1>5, <1>6, <2>1, <2>2, <2>3, <3>1, <3>2
  <2>5. CASE ~nexthop_ready
    <3>1. nexthop_beat' = nexthop_beat /\ ~out_valid[STAGES]
      BY <1>1, <2>5 DEF Next, NEXTHOP_BEAT, nexthop_ready, TailInv
    <3>2. OutOfNexthop = <<>> /\ Out(STAGES) = <<>>
      BY <1>5, <2>5, <3>1 DEF nexthop_ready, OutOfNexthop
    <3> QED BY <1>2, <1>5, <1>6, <2>1, <2>2, <3>1, <3>2
  <2> QED BY <2>4, <2>5
<1>11. HandsOn(Out(STAGES), InTrie, Out(0), InTrie')
  BY <1>5, TrieMoves DEF HandsOn
<1>12. HandsOn(Out(0), Held(fwt_in), OutOfBuffer, Held(fwt_in)')
  <2>1. Held(fwt_in)' = Held(fwt_in') /\ Held(fwt_in') \in Beats /\ OutOfBuffer \in Beats
    BY <1>2, <1>3, HeldTyped, Nil DEF Held, OutOfBuffer
  <2>2. fwt_in' = IF fwt_in_ready THEN in_buffer ELSE fwt_in
    BY DEF Next, FW_FWT_IN_REG
  <2>3. Out(0) = IF fwt_in_ready THEN Held(fwt_in) ELSE <<>>
    BY <1>5 DEF Held
  <2> QED BY <1>2, <1>5, <1>6, <2>1, <2>2, <2>3 DEF OutOfBuffer
<1>13. HandsOn(OutOfBuffer, Held(in_buffer), Entering, Held(in_buffer)')
  <2>1. Held(in_buffer)' = Held(in_buffer') /\ Held(in_buffer') \in Beats
    BY <1>3, HeldTyped DEF Held
  <2>2. OutOfBuffer \in Beats /\ Entering \in Beats
    BY <1>2, Nil DEF OutOfBuffer, Entering
  <2>3. in_buffer' = IF ~buffer_ready THEN in_buffer ELSE IF in.valid THEN in ELSE Empty
    BY DEF Next, FW_IN_REG
  <2>4. CASE buffer_ready
    <3>1. Held(in_buffer') = Held(in)
      BY <2>3, <2>4 DEF Held, Empty
    <3>2. OutOfBuffer = Held(in_buffer)
      BY <2>4 DEF OutOfBuffer, buffer_ready, Held
    <3>3. Entering = Held(in)
      BY <2>4 DEF Entering
    <3> QED BY <1>2, <1>6, <2>1, <2>2, <3>1, <3>2, <3>3
  <2>5. CASE ~buffer_ready
    <3>1. OutOfBuffer = <<>> /\ Entering = <<>> /\ in_buffer' = in_buffer
      BY <2>3, <2>5 DEF OutOfBuffer, Entering, buffer_ready
    <3> QED BY <1>2, <1>6, <2>1, <2>2, <3>1
  <2> QED BY <2>4, <2>5
<1> QED BY <1>7, <1>8, <1>9, <1>10, <1>11, <1>12, <1>13

\* What leaves in front of what is left is what was inside before what enters.
LEMMA QueueMoves ==
  ASSUME MoveInv, NcFlows, Next, TypeOK'
  PROVE  HandsOn(OutOfPipeline, InFlight, Entering, InFlight')
<1> DEFINE o == Held(out)              o1 == Held(out)'
           c == Held(cache_beat)       c1 == Held(cache_beat)'
           n == Unused                 n1 == Unused'
           h == Held(nexthop_beat)     h1 == Held(nexthop_beat)'
           t == InTrie                 t1 == InTrie'
           f == Held(fwt_in)           f1 == Held(fwt_in)'
           b == Held(in_buffer)        b1 == Held(in_buffer)'
<1>1. /\ HandsOn(OutOfPipeline, o, OutOfCache, o1)
      /\ HandsOn(OutOfCache, c, OutOfNc, c1)
      /\ HandsOn(OutOfNc, n, OutOfNexthop, n1)
      /\ HandsOn(OutOfNexthop, h, Out(STAGES), h1)
      /\ HandsOn(Out(STAGES), t, Out(0), t1)
      /\ HandsOn(Out(0), f, OutOfBuffer, f1)
      /\ HandsOn(OutOfBuffer, b, Entering, b1)
  BY RegistersHandOn
<1>2. /\ InFlight = o \o c \o n \o h \o t \o f \o b
      /\ InFlight' = o1 \o c1 \o n1 \o h1 \o t1 \o f1 \o b1
  BY DEF InFlight, Unused
<1> HIDE DEF o, o1, c, c1, n, n1, h, h1, t, t1, f, f1, b, b1
<1>3. HandsOn(OutOfPipeline, o \o c, OutOfNc, o1 \o c1)
  BY <1>1, Pass
<1>4. HandsOn(OutOfPipeline, o \o c \o n, OutOfNexthop, o1 \o c1 \o n1)
  BY <1>1, <1>3, Pass
<1>5. HandsOn(OutOfPipeline, o \o c \o n \o h, Out(STAGES), o1 \o c1 \o n1 \o h1)
  BY <1>1, <1>4, Pass
<1>6. HandsOn(OutOfPipeline, o \o c \o n \o h \o t, Out(0), o1 \o c1 \o n1 \o h1 \o t1)
  BY <1>1, <1>5, Pass
<1>7. HandsOn(OutOfPipeline, o \o c \o n \o h \o t \o f, OutOfBuffer,
              o1 \o c1 \o n1 \o h1 \o t1 \o f1)
  BY <1>1, <1>6, Pass
<1> QED BY <1>1, <1>2, <1>7, Pass

-----------------------------------------------------------------------------
(* The port of a frame.  The register of the port follows every beat that    *)
(* says it is the first of its frame, the invalid ones too: what an empty    *)
(* register still shows must not lead it astray.                             *)

\* The port after nc_beat, after nexthop_beat, and after the beats of s.
PortNc == IF nc_beat.valid THEN nc_beat.beat.port ELSE cache_r_port_id_reg
PortNexthop == IF nexthop_beat.valid THEN nexthop_beat.beat.port ELSE PortNc
LastPort(r, s) == IF s = <<>> THEN r ELSE s[Len(s)].port
\* From port r on, s is a sequence of frames, each on one port.
Flows(r, s) ==
  \A i \in 1 .. Len(s) : s[i].first \/ s[i].port = IF i = 1 THEN r ELSE s[i - 1].port

LastBeat == frame_beat[STAGES]
Busy == state[STAGES] # 0 \/ out_valid[STAGES]
Upstream == InTrie \o Held(fwt_in) \o Held(in_buffer) \o Held(in)
Arriving == IF in.valid /\ ~buffer_ready THEN <<>> ELSE Held(in')

\* What an empty register shows as a first beat is the port of the beat before
\* it, or the first beat of a frame is right behind.
GhostsTrue ==
  /\ ~nc_beat.valid /\ nc_beat.beat.first =>
       \/ nc_beat.beat.port = cache_r_port_id_reg
       \/ nexthop_beat.valid /\ nexthop_beat.beat.first
       \/ ~nexthop_beat.valid /\ Busy /\ LastBeat.first
  /\ ~nexthop_beat.valid /\ nexthop_beat.beat.first =>
       nexthop_beat.beat.port = PortNc \/ (Busy /\ LastBeat.first)
  /\ ~Busy /\ LastBeat.first => LastBeat.port = PortNexthop

PortInv ==
  /\ GhostsTrue /\ NcFlows
  /\ nexthop_beat.valid => nexthop_beat.beat.first \/ nexthop_beat.beat.port = PortNc
  /\ Flows(PortNexthop, Upstream)
  /\ in.beat.port = LastPort(PortNexthop, Upstream)

LEMMA BeatAndRest ==
  ASSUME NEW b \in AnyBeat, NEW s \in Beats
  PROVE  /\ <<b>> \o s \in Beats /\ <<b>> \o s # <<>>
         /\ Len(s) \in Nat /\ Len(<<b>> \o s) = Len(s) + 1
         /\ (<<b>> \o s)[1] = b
         /\ \A i \in 1 .. Len(s) : (<<b>> \o s)[i + 1] = s[i]
<1>1. <<b>> \in Beats /\ Len(<<b>>) = 1 /\ <<b>>[1] = b /\ Len(s) \in Nat
  BY DEF Beats
<1>2. /\ Len(<<b>> \o s) = 1 + Len(s)
      /\ \A i \in 1 .. 1 + Len(s) : (<<b>> \o s)[i] = IF i <= 1 THEN <<b>>[i] ELSE s[i - 1]
  BY <1>1, ConcatProperties DEF Beats
<1>3. \A i \in 1 .. Len(s) : (<<b>> \o s)[i + 1] = s[i]
  <2> TAKE i \in 1 .. Len(s)
  <2>1. i + 1 \in 1 .. 1 + Len(s) /\ ~(i + 1 <= 1) /\ (i + 1) - 1 = i
    BY <1>1
  <2> QED BY <1>2, <2>1
<1>4. (<<b>> \o s)[1] = b
  BY <1>1, <1>2
<1>5. <<b>> \o s # <<>>
  BY <1>1, <1>2
<1> QED BY <1>1, <1>2, <1>3, <1>4, <1>5, Joined

\* The first beat goes on: the frames that are left start from its port.
LEMMA FlowsTail ==
  ASSUME NEW r, NEW b \in AnyBeat, NEW s \in Beats, Flows(r, <<b>> \o s)
  PROVE  /\ b.first \/ b.port = r
         /\ Flows(b.port, s)
         /\ LastPort(b.port, s) = LastPort(r, <<b>> \o s)
<1> DEFINE t == <<b>> \o s
<1>1. /\ t # <<>> /\ Len(s) \in Nat /\ Len(t) = Len(s) + 1 /\ t[1] = b
      /\ \A i \in 1 .. Len(s) : t[i + 1] = s[i]
  BY BeatAndRest
<1>2. \A i \in 1 .. Len(t) : t[i].first \/ t[i].port = IF i = 1 THEN r ELSE t[i - 1].port
  BY DEF Flows
<1> HIDE DEF t
<1>3. 1 \in 1 .. Len(t)
  BY <1>1
<1>4. b.first \/ b.port = r
  BY <1>1, <1>2, <1>3
<1>5. ASSUME NEW i \in 1 .. Len(s)
      PROVE  s[i].first \/ s[i].port = IF i = 1 THEN b.port ELSE s[i - 1].port
  <2>1. i + 1 \in 1 .. Len(t) /\ i + 1 # 1 /\ (i + 1) - 1 = i
    BY <1>1
  <2>2. t[i + 1].first \/ t[i + 1].port = t[i].port
    BY <1>2, <2>1
  <2>3. t[i + 1] = s[i]
    BY <1>1
  <2>4. i # 1 => t[i] = s[i - 1]
    <3>1. i # 1 => i - 1 \in 1 .. Len(s) /\ (i - 1) + 1 = i
      BY <1>1
    <3> QED BY <1>1, <3>1
  <2> QED BY <1>1, <2>2, <2>3, <2>4
<1>6. LastPort(b.port, s) = LastPort(r, t)
  <2>1. CASE s = <<>>
    <3>1. Len(t) = 1
      BY <1>1, <2>1
    <3> QED BY <1>1, <2>1, <3>1 DEF LastPort
  <2>2. CASE s # <<>>
    <3>1. Len(s) \in 1 .. Len(s)
      BY <1>1, <2>2 DEF Beats
    <3>2. t[Len(t)] = s[Len(s)]
      BY <1>1, <3>1
    <3> QED BY <1>1, <2>2, <3>2 DEF LastPort
  <2> QED BY <2>1, <2>2
<1> QED BY <1>4, <1>5, <1>6 DEF Flows, t

\* A first beat starts a frame, whatever the port before it.
LEMMA FlowsFirst ==
  ASSUME NEW r, NEW q, NEW b \in AnyBeat, NEW s \in Beats, b.first, Flows(r, <<b>> \o s)
  PROVE  Flows(q, <<b>> \o s) /\ LastPort(q, <<b>> \o s) = LastPort(r, <<b>> \o s)
<1> DEFINE t == <<b>> \o s
<1>1. t # <<>> /\ t[1] = b
  BY BeatAndRest
<1>2. Flows(r, t)
  OBVIOUS
<1> HIDE DEF t
<1>3. Flows(q, t) /\ LastPort(q, t) = LastPort(r, t)
  BY <1>1, <1>2 DEF Flows, LastPort
<1> QED BY <1>3 DEF t

\* A beat that comes in behind is of the last frame, or the first of its own.
LEMMA FlowsAppend ==
  ASSUME NEW r, NEW s \in Beats, NEW b \in AnyBeat, Flows(r, s),
         b.first \/ b.port = LastPort(r, s)
  PROVE  Flows(r, s \o <<b>>) /\ LastPort(r, s \o <<b>>) = b.port
<1> DEFINE t == s \o <<b>>
<1>1. <<b>> \in Beats /\ Len(<<b>>) = 1 /\ <<b>>[1] = b /\ Len(s) \in Nat
  BY DEF Beats
<1>2. /\ Len(t) = Len(s) + 1
      /\ \A i \in 1 .. Len(s) + 1 : t[i] = IF i <= Len(s) THEN s[i] ELSE <<b>>[i - Len(s)]
  BY <1>1, ConcatProperties DEF Beats
<1> HIDE DEF t
<1>3. t[Len(s) + 1] = b
  <2>1. Len(s) + 1 \in 1 .. Len(s) + 1 /\ ~(Len(s) + 1 <= Len(s))
        /\ (Len(s) + 1) - Len(s) = 1
    BY <1>1
  <2> QED BY <1>1, <1>2, <2>1
<1>4. \A i \in 1 .. Len(s) : t[i] = s[i] /\ i \in 1 .. Len(s) + 1
  BY <1>1, <1>2
<1>5. ASSUME NEW i \in 1 .. Len(t)
      PROVE  t[i].first \/ t[i].port = IF i = 1 THEN r ELSE t[i - 1].port
  <2>1. CASE i = Len(s) + 1
    <3>1. CASE s = <<>>
      <4>1. i = 1
        BY <2>1, <3>1
      <4> QED BY <1>3, <2>1, <3>1, <4>1 DEF LastPort
    <3>2. CASE s # <<>>
      <4>1. i - 1 = Len(s) /\ Len(s) \in 1 .. Len(s) /\ i # 1
        BY <1>1, <2>1, <3>2 DEF Beats
      <4>2. t[i - 1] = s[Len(s)]
        BY <1>4, <4>1
      <4> QED BY <1>3, <2>1, <3>2, <4>1, <4>2 DEF LastPort
    <3> QED BY <3>1, <3>2
  <2>2. CASE i # Len(s) + 1
    <3>1. i \in 1 .. Len(s)
      BY <1>1, <1>2, <2>2
    <3>2. s[i].first \/ s[i].port = IF i = 1 THEN r ELSE s[i - 1].port
      BY <3>1 DEF Flows
    <3>3. i # 1 => i - 1 \in 1 .. Len(s)
      BY <1>1, <3>1
    <3> QED BY <1>4, <3>1, <3>2, <3>3
  <2> QED BY <2>1, <2>2
<1>6. LastPort(r, t) = b.port
  <2>1. t # <<>>
    BY <1>1, <1>2
  <2> QED BY <1>2, <1>3, <2>1 DEF LastPort
<1> QED BY <1>5, <1>6 DEF Flows, t

Starts(x, y) == \E r \in Beats : y = x \o r

LEMMA StartsLonger ==
  ASSUME NEW x \in Beats, NEW y, NEW u \in Beats, Starts(x, y)
  PROVE  Starts(x, y \o u)
<1>1. PICK r \in Beats : y = x \o r
  BY DEF Starts
<1>2. (x \o r) \o u = x \o (r \o u) /\ r \o u \in Beats
  BY Joined
<1> QED BY <1>1, <1>2 DEF Starts

\* The beats before nexthop_beat and the one the arbiter shows, from one cycle
\* to the next.
LEMMA UpstreamMoves ==
  ASSUME MoveInv, Next, TypeOK', NcFlows
  PROVE  /\ HandsOn(Out(STAGES), Upstream, Arriving, Upstream')
         /\ Busy => Starts(<<LastBeat>>, Upstream \o Arriving)
<1> DEFINE t == InTrie                 t1 == InTrie'
           f == Held(fwt_in)           f1 == Held(fwt_in)'
           b == Held(in_buffer)        b1 == Held(in_buffer)'
           i == Held(in)               i1 == Held(in)'
<1>1. /\ HandsOn(Out(STAGES), t, Out(0), t1)
      /\ HandsOn(Out(0), f, OutOfBuffer, f1)
      /\ HandsOn(OutOfBuffer, b, Entering, b1)
  BY RegistersHandOn
<1>2. /\ Upstream = t \o f \o b \o i
      /\ Upstream' = t1 \o f1 \o b1 \o i1
  BY DEF Upstream
<1>3. i \in Beats /\ i1 \in Beats /\ i1 = Held(in') /\ Entering \in Beats /\ Arriving \in Beats
  <2>1. in \in Slot /\ in' \in Slot
    BY DEF TypeOK, MoveInv
  <2>2. i1 = Held(in')
    BY DEF Held
  <2> QED BY <2>1, <2>2, HeldTyped, Nil DEF Entering, Arriving
<1>4. HandsOn(Entering, i, Arriving, i1)
  <2>1. CASE in.valid /\ ~buffer_ready
    <3>1. in' = in
      BY <2>1 DEF Next, Input
    <3>2. Entering = <<>> /\ Arriving = <<>> /\ i1 = i
      BY <1>3, <2>1, <3>1 DEF Entering, Arriving
    <3> QED BY <1>3, <3>2, Nil DEF HandsOn
  <2>2. CASE ~(in.valid /\ ~buffer_ready)
    <3>1. Entering = i /\ Arriving = i1
      BY <1>3, <2>2 DEF Entering, Arriving, Held
    <3> QED BY <1>3, <3>1 DEF HandsOn
  <2> QED BY <2>1, <2>2
<1>5. ASSUME Busy
      PROVE  Starts(<<LastBeat>>, t)
  <2>1. AtStage(STAGES) = <<LastBeat>>
    BY <1>5 DEF Busy, AtStage, LastBeat
  <2> QED BY <2>1, TrieMoves DEF Starts
<1>6. LastBeat \in AnyBeat /\ <<LastBeat>> \in Beats
  BY StagesAssumption DEF MoveInv, TypeOK, LastBeat, Beats
<1> HIDE DEF t, t1, f, f1, b, b1, i, i1
<1>7. HandsOn(Out(STAGES), t \o f, OutOfBuffer, t1 \o f1)
  BY <1>1, Pass
<1>8. HandsOn(Out(STAGES), t \o f \o b, Entering, t1 \o f1 \o b1)
  BY <1>1, <1>7, Pass
<1>9. HandsOn(Out(STAGES), Upstream, Arriving, Upstream')
  BY <1>2, <1>4, <1>8, Pass
<1>10. ASSUME Busy
       PROVE  Starts(<<LastBeat>>, Upstream \o Arriving)
  <2>1. f \in Beats /\ b \in Beats /\ i \in Beats
    BY <1>1, <1>3 DEF HandsOn
  <2>2. Starts(<<LastBeat>>, t \o f)
    BY <1>5, <1>6, <1>10, <2>1, StartsLonger
  <2>3. Starts(<<LastBeat>>, t \o f \o b)
    BY <1>6, <2>1, <2>2, StartsLonger
  <2>4. Starts(<<LastBeat>>, Upstream)
    BY <1>2, <1>6, <2>1, <2>3, StartsLonger
  <2> QED BY <1>3, <1>6, <2>4, StartsLonger
<1> QED BY <1>9, <1>10

\* With the beat that arrives, the frames stay frames.
LEMMA ArrivingFlows ==
  ASSUME MoveInv, Next, TypeOK', PortInv
  PROVE  /\ Flows(PortNexthop, Upstream \o Arriving)
         /\ in'.beat.port = LastPort(PortNexthop, Upstream \o Arriving)
<1>1. Upstream \in Beats /\ in \in Slot
  BY UpstreamMoves DEF HandsOn, PortInv, MoveInv, TypeOK
<1>2. Flows(PortNexthop, Upstream) /\ in.beat.port = LastPort(PortNexthop, Upstream)
  BY DEF PortInv
<1>3. CASE Arriving = <<>> /\ in'.beat = in.beat
  <2>1. Upstream \o Arriving = Upstream
    BY <1>1, <1>3, Nil
  <2> QED BY <1>2, <1>3, <2>1
<1>4. CASE \E c \in Beat : in' = Shown(c) /\ Arriving = <<c>>
                           /\ (c.first \/ c.port = in.beat.port)
  <2>1. PICK c \in Beat : in' = Shown(c) /\ Arriving = <<c>>
                          /\ (c.first \/ c.port = in.beat.port)
    BY <1>4
  <2>2. c \in AnyBeat /\ in'.beat = c
    BY <2>1 DEF Beat, AnyBeat, Shown
  <2>3. /\ Flows(PortNexthop, Upstream \o <<c>>)
        /\ LastPort(PortNexthop, Upstream \o <<c>>) = c.port
    BY <1>1, <1>2, <2>1, <2>2, FlowsAppend
  <2> QED BY <2>1, <2>2, <2>3
<1>5. CASE in.valid /\ ~buffer_ready
  BY <1>3, <1>5 DEF Next, Input, Arriving
<1>6. CASE ~(in.valid /\ ~buffer_ready)
  <2>1. in' \in NextIn /\ Arriving = Held(in')
    BY <1>6 DEF Next, Input, Arriving
  <2>2. CASE in' = [in EXCEPT !.valid = FALSE]
    <3>1. ~in'.valid /\ in'.beat = in.beat
      BY <1>1, <2>2 DEF Slot
    <3> QED BY <1>3, <2>1, <3>1 DEF Held
  <2>3. CASE \E c \in Beat : in' = Shown(c) /\ (c.first \/ c.port = in.beat.port)
    <3>1. PICK c \in Beat : in' = Shown(c) /\ (c.first \/ c.port = in.beat.port)
      BY <2>3
    <3>2. Arriving = <<c>>
      BY <2>1, <3>1 DEF Held, Shown
    <3> QED BY <1>4, <3>1, <3>2
  <2> QED BY <2>1, <2>2, <2>3 DEF NextIn
<1> QED BY <1>5, <1>6

\* What the registers behind the tries do with valid and first.
LEMMA TailMoves ==
  ASSUME MoveInv, Next
  PROVE  /\ cache_r_port_id_reg' =
              IF nc_beat.beat.first THEN nc_beat.beat.port ELSE cache_r_port_id_reg
         /\ nc_beat' = IF nc_ready THEN nexthop_beat ELSE nc_beat
         /\ nc_ready \/ ~nexthop_beat.valid =>
              /\ nexthop_beat'.valid <=> out_valid[STAGES]
              /\ nexthop_beat'.beat.first <=> LastBeat.first
              /\ state[STAGES] = 0 => nexthop_beat'.beat.port = LastBeat.port
         /\ ~nc_ready /\ nexthop_beat.valid => nexthop_beat' = nexthop_beat
         /\ state[STAGES] # 0 => Busy' /\ LastBeat' = LastBeat
         /\ ~Busy' => LastBeat' = LastBeat
         /\ ~Busy' /\ state[STAGES] # 0 => FALSE
         /\ out_valid[STAGES] => state[STAGES] = 0
<1> DEFINE l == frame_beat[STAGES]
<1>1. /\ STAGES \in Stages /\ TypeOK /\ ChainInv /\ TailInv /\ Trie128 /\ l \in AnyBeat
  BY StagesAssumption DEF MoveInv, Next, TypeOK
<1>2. cache_r_port_id_reg' =
        IF nc_beat.beat.first THEN nc_beat.beat.port ELSE cache_r_port_id_reg
  BY <1>1 DEF Next, FW_CACHE_R_PORT_REG, cache_beat_comb, TailInv
<1>3. nc_beat' = IF nc_ready THEN nexthop_beat ELSE nc_beat
  BY DEF Next, NC_BEAT
<1>4. ~nc_ready /\ nexthop_beat.valid => nexthop_beat' = nexthop_beat
  BY DEF Next, NEXTHOP_BEAT, nexthop_ready
<1>5. nc_ready \/ ~nexthop_beat.valid => nexthop_beat' = fwt_out
  BY DEF Next, NEXTHOP_BEAT, nexthop_ready
<1>6. /\ fwt_out.valid <=> out_valid[STAGES]
      /\ fwt_out.beat = IF state[STAGES] = 0 THEN l ELSE [l EXCEPT !.port = NoPort]
  BY DEF fwt_out
<1>7. [l EXCEPT !.port = NoPort].first = l.first
  BY <1>1 DEF AnyBeat
<1>8. fwt_out.beat.first = l.first
  BY <1>6, <1>7
<1>9. Takes(STAGES) => state[STAGES] = 0
  <2>1. STAGES \in STAGES .. STAGES /\ STAGES .. STAGES - 1 = {}
    BY StagesAssumption
  <2> QED BY <2>1 DEF Takes, stage_ready
<1>10. ~Takes(STAGES) => LastBeat' = LastBeat
  <2>1. STAGES \in Stages /\ ~(STAGES < STAGES)
    BY <1>1
  <2> QED BY <1>1, <2>1 DEF Trie128, LastBeat
<1>11. /\ state[STAGES] # 0 => state'[STAGES] # 0 \/ out_valid'[STAGES]
       /\ state[STAGES] = 0 => state'[STAGES] = IF Takes(STAGES) THEN 1 ELSE 0
  <2>1. state'[STAGES] = next_state(STAGES)
    BY <1>1 DEF Trie128
  <2>2. state[STAGES] # 0 => state'[STAGES] # 0 \/ out_valid'[STAGES]
    BY <1>1, StageStep
  <2> QED BY <2>1, <2>2 DEF next_state
<1>12. state[STAGES] # 0 => Busy' /\ LastBeat' = LastBeat
  BY <1>9, <1>10, <1>11 DEF Busy
<1>13. ~Busy' => LastBeat' = LastBeat
  BY <1>10, <1>11, <1>12 DEF Busy
<1>14. out_valid[STAGES] => state[STAGES] = 0
  BY <1>1 DEF ChainInv
<1> QED BY <1>2, <1>3, <1>4, <1>5, <1>6, <1>8, <1>12, <1>13, <1>14 DEF LastBeat

\* The ports stay right.
LEMMA PortStep ==
  ASSUME MoveInv, Next, TypeOK', PortInv
  PROVE  PortInv'
<1> DEFINE r == cache_r_port_id_reg     r1 == cache_r_port_id_reg'
           n == nc_beat                 n1 == nc_beat'
           x == nexthop_beat            x1 == nexthop_beat'
           l == LastBeat                l1 == LastBeat'
           out_v == out_valid[STAGES]
           p == PortNexthop             p1 == PortNexthop'
           q == PortNc                  q1 == PortNc'
<1>1. /\ r1 = IF n.beat.first THEN n.beat.port ELSE r
      /\ n1 = IF nc_ready THEN x ELSE n
      /\ nc_ready \/ ~x.valid =>
           /\ x1.valid <=> out_v
           /\ x1.beat.first <=> l.first
           /\ state[STAGES] = 0 => x1.beat.port = l.port
      /\ ~nc_ready /\ x.valid => x1 = x
      /\ state[STAGES] # 0 => Busy' /\ l1 = l
      /\ ~Busy' => l1 = l
      /\ ~Busy' /\ state[STAGES] # 0 => FALSE
      /\ out_v => state[STAGES] = 0
  BY TailMoves
<1>2. /\ q = IF n.valid THEN n.beat.port ELSE r
      /\ q1 = IF n1.valid THEN n1.beat.port ELSE r1
      /\ p = IF x.valid THEN x.beat.port ELSE q
      /\ p1 = IF x1.valid THEN x1.beat.port ELSE q1
      /\ Busy <=> state[STAGES] # 0 \/ out_v
  BY DEF PortNc, PortNexthop, Busy
<1>3. /\ x.valid => ~out_v
      /\ n.valid => nc_ready /\ ~out_v /\ ~x.valid
  BY DEF MoveInv, TailInv
<1>4. /\ ~n.valid /\ n.beat.first =>
           \/ n.beat.port = r
           \/ x.valid /\ x.beat.first
           \/ ~x.valid /\ Busy /\ l.first
      /\ ~x.valid /\ x.beat.first => x.beat.port = q \/ (Busy /\ l.first)
      /\ ~Busy /\ l.first => l.port = p
      /\ n.valid => n.beat.first \/ n.beat.port = r
      /\ x.valid => x.beat.first \/ x.beat.port = q
  BY DEF PortInv, GhostsTrue, NcFlows
<1>5. /\ HandsOn(Out(STAGES), Upstream, Arriving, Upstream')
      /\ Busy => Starts(<<l>>, Upstream \o Arriving)
  BY UpstreamMoves DEF PortInv
<1>6. /\ Flows(p, Upstream \o Arriving)
      /\ in'.beat.port = LastPort(p, Upstream \o Arriving)
  BY ArrivingFlows
<1>7. Out(STAGES) = IF out_v THEN <<l>> ELSE <<>>
  BY StagesAssumption DEF Out, LastBeat
<1>8. l \in AnyBeat /\ Upstream' \in Beats
  BY <1>5, StagesAssumption DEF HandsOn, MoveInv, TypeOK, LastBeat
<1> HIDE DEF r, r1, n, n1, x, x1, l, l1, out_v, p, p1, q, q1
\* The register of the port, and the port behind nexthop_beat, after the cycle.
<1>9. r1 = q \/ (x.valid /\ x.beat.first) \/ (~x.valid /\ Busy /\ l.first)
  BY <1>1, <1>2, <1>4
<1>10. \/ out_v /\ p1 = l.port
       \/ ~out_v /\ (p1 = p \/ (Busy /\ l.first))
  BY <1>1, <1>2, <1>3, <1>9
<1>11. ~Busy => p1 = p
  BY <1>1, <1>2, <1>3, <1>9
<1>12. out_v => l.first \/ l.port = q
  <2>1. ASSUME out_v
        PROVE  l.first \/ l.port = q
    <3>1. Upstream \o Arriving = <<l>> \o Upstream'
      BY <1>5, <1>7, <2>1 DEF HandsOn
    <3>2. l.first \/ l.port = p
      BY <1>6, <1>8, <3>1, FlowsTail
    <3> QED BY <1>2, <1>3, <2>1, <3>2
  <2> QED BY <2>1
<1>13. /\ ~n1.valid /\ n1.beat.first =>
            \/ n1.beat.port = r1
            \/ x1.valid /\ x1.beat.first
            \/ ~x1.valid /\ Busy' /\ l1.first
       /\ ~x1.valid /\ x1.beat.first => x1.beat.port = q1 \/ (Busy' /\ l1.first)
       /\ ~Busy' /\ l1.first => l1.port = p1
       /\ n1.valid => n1.beat.first \/ n1.beat.port = r1
       /\ x1.valid => x1.beat.first \/ x1.beat.port = q1
  <2>1. ~Busy' /\ l1.first => l1.port = p1
    BY <1>1, <1>2, <1>4, <1>10, <1>11
  <2>2. CASE nc_ready \/ ~x.valid
    <3>1. ~x1.valid /\ x1.beat.first => x1.beat.port = q1 \/ (Busy' /\ l1.first)
      BY <1>1, <1>2, <1>4, <1>11, <2>2
    <3>2. x1.valid => x1.beat.first \/ x1.beat.port = q1
      BY <1>1, <1>2, <1>3, <1>9, <1>12, <2>2
    <3>3. n1.valid => n1.beat.first \/ n1.beat.port = r1
      BY <1>1, <1>2, <1>3, <1>4, <1>9, <2>2
    <3>4. CASE nc_ready
      BY <1>1, <1>2, <1>3, <1>4, <1>9, <2>1, <3>1, <3>2, <3>3, <3>4
    <3>5. CASE ~nc_ready
      BY <1>1, <2>1, <3>1, <3>2, <3>3, <3>5
    <3> QED BY <3>4, <3>5
  <2>3. CASE ~(nc_ready \/ ~x.valid)
    BY <1>1, <1>2, <1>3, <1>4, <1>9, <2>1, <2>3
  <2> QED BY <2>2, <2>3
<1>14. Flows(p1, Upstream') /\ in'.beat.port = LastPort(p1, Upstream')
  <2>1. CASE out_v
    <3>1. Upstream \o Arriving = <<l>> \o Upstream'
      BY <1>5, <1>7, <2>1 DEF HandsOn
    <3>2. p1 = l.port
      BY <1>10, <2>1
    <3> QED BY <1>6, <1>8, <3>1, <3>2, FlowsTail
  <2>2. CASE ~out_v
    <3>1. Upstream \o Arriving = Upstream'
      BY <1>5, <1>7, <1>8, <2>2, Nil DEF HandsOn
    <3>2. CASE p1 = p
      BY <1>6, <3>1, <3>2
    <3>3. CASE Busy /\ l.first
      <4>1. PICK s \in Beats : Upstream' = <<l>> \o s
        BY <1>5, <3>1, <3>3 DEF Starts
      <4> QED BY <1>6, <1>8, <3>1, <3>3, <4>1, FlowsFirst
    <3> QED BY <1>10, <2>2, <3>2, <3>3
  <2> QED BY <2>1, <2>2
<1>15. GhostsTrue'
  BY <1>13 DEF GhostsTrue, r1, n1, x1, l1, p1, q1
<1>16. NcFlows'
  BY <1>13 DEF NcFlows, r1, n1
<1>17. nexthop_beat'.valid => nexthop_beat'.beat.first \/ nexthop_beat'.beat.port = PortNc'
  BY <1>13 DEF x1, q1
<1>18. (Flows(PortNexthop, Upstream))' /\ in'.beat.port = (LastPort(PortNexthop, Upstream))'
  BY <1>14 DEF p1, Flows, LastPort
<1> QED BY <1>15, <1>16, <1>17, <1>18 DEF PortInv

-----------------------------------------------------------------------------
(* The refinement. *)

BeatInv == InFlight \in Seq(Beat) /\ (in.valid => in.beat \in Beat)
FifoInv == MoveInv /\ PortInv /\ BeatInv

LEMMA TrieTyped ==
  ASSUME TypeOK
  PROVE  InTrie \in Beats
<1>1. PICK f : IsUpTo(f) /\ InTrie = f[STAGES]
  BY UpToExists DEF SomeUpTo
<1> DEFINE S == {n \in 0 .. STAGES : f[n] \notin Beats}
<1>2. STAGES \in Nat
  BY StagesAssumption
<1>3. S = {}
  <2> SUFFICES ASSUME S # {} PROVE FALSE
    OBVIOUS
  <2>1. PICK n \in S : \A m \in S : n =< m
    <3>1. S \subseteq Nat
      OBVIOUS
    <3> HIDE DEF S
    <3> QED BY <3>1, LeastNat
  <2>2. n \in 0 .. STAGES /\ f[n] \notin Beats
    OBVIOUS
  <2>3. n # 0
    BY <1>1, <2>2, Nil DEF IsUpTo
  <2>4. n - 1 \in 0 .. STAGES /\ ~(n =< n - 1) /\ n \in Stages
    BY <1>2, <2>2, <2>3
  <2>5. f[n - 1] \in Beats /\ AtStage(n) \in Beats
    BY <2>1, <2>4, StagesTyped
  <2>6. f[n] = AtStage(n) \o f[n - 1]
    <3> HIDE DEF S
    <3> QED BY <1>1, <2>2, <2>3 DEF IsUpTo
  <2> QED BY <2>2, <2>5, <2>6, Joined
<1>4. STAGES \in 0 .. STAGES
  BY <1>2
<1> QED BY <1>1, <1>3, <1>4

LEMMA SplitBeats ==
  ASSUME NEW s \in Beats, NEW t \in Beats, s \o t \in Seq(Beat)
  PROVE  s \in Seq(Beat) /\ t \in Seq(Beat)
<1>1. /\ Len(s) \in Nat /\ Len(t) \in Nat /\ Len(s \o t) = Len(s) + Len(t)
      /\ \A i \in 1 .. Len(s) + Len(t) :
           (s \o t)[i] = IF i <= Len(s) THEN s[i] ELSE t[i - Len(s)]
  BY ConcatProperties DEF Beats
<1>2. \A i \in 1 .. Len(s) + Len(t) : (s \o t)[i] \in Beat
  BY <1>1
<1>3. \A i \in 1 .. Len(s) : s[i] \in Beat
  <2> TAKE i \in 1 .. Len(s)
  <2>1. i \in 1 .. Len(s) + Len(t) /\ i <= Len(s)
    BY <1>1
  <2> QED BY <1>1, <1>2, <2>1
<1>4. \A i \in 1 .. Len(t) : t[i] \in Beat
  <2> TAKE i \in 1 .. Len(t)
  <2>1. /\ i + Len(s) \in 1 .. Len(s) + Len(t) /\ ~(i + Len(s) <= Len(s))
        /\ (i + Len(s)) - Len(s) = i
    BY <1>1
  <2> QED BY <1>1, <1>2, <2>1
<1>5. s = [i \in 1 .. Len(s) |-> s[i]] /\ t = [i \in 1 .. Len(t) |-> t[i]]
  BY DEF Beats
<1> QED BY <1>1, <1>3, <1>4, <1>5

LEMMA JoinBeats ==
  ASSUME NEW s \in Seq(Beat), NEW t \in Seq(Beat)
  PROVE  s \o t \in Seq(Beat) /\ s \in Beats
<1>1. Beat \subseteq AnyBeat
  BY DEF Beat, AnyBeat
<1> QED BY <1>1, ConcatProperties DEF Beats

\* What enters and what leaves is at most one beat.
LEMMA OneAtATime ==
  ASSUME TypeOK, BeatInv
  PROVE  /\ Entering \in Fifo!AtMostOne /\ Entering \in Seq(Beat)
         /\ OutOfPipeline \in Fifo!AtMostOne
<1>1. in \in Slot /\ out \in Slot
  BY DEF TypeOK
<1>2. Held(out) \in Seq(Beat)
  <2> DEFINE o == Held(out)              c == Held(cache_beat)
             n == Unused                 h == Held(nexthop_beat)
             f == Held(fwt_in)           b == Held(in_buffer)
             t == InTrie
  <2>1. o \in Beats /\ c \in Beats /\ h \in Beats /\ f \in Beats /\ b \in Beats
    BY HeldTyped DEF TypeOK
  <2>2. n \in Beats
    <3>1. Held(nc_beat) \in Beats
      BY HeldTyped DEF TypeOK
    <3> QED BY <3>1, Nil DEF Unused
  <2>3. t \in Beats
    BY TrieTyped
  <2>4. o \o c \o n \o h \o t \o f \o b \in Seq(Beat)
    BY DEF BeatInv, InFlight, Unused
  <2> HIDE DEF o, c, n, h, t, f, b
  <2>5. /\ o \o c \in Beats /\ o \o c \o n \in Beats /\ o \o c \o n \o h \in Beats
        /\ o \o c \o n \o h \o t \in Beats /\ o \o c \o n \o h \o t \o f \in Beats
    <3>1. o \o c \in Beats
      BY <2>1, Joined
    <3>2. o \o c \o n \in Beats
      BY <2>2, <3>1, Joined
    <3>3. o \o c \o n \o h \in Beats
      BY <2>1, <3>2, Joined
    <3>4. o \o c \o n \o h \o t \in Beats
      BY <2>3, <3>3, Joined
    <3>5. o \o c \o n \o h \o t \o f \in Beats
      BY <2>1, <3>4, Joined
    <3> QED BY <3>1, <3>2, <3>3, <3>4, <3>5
  <2>6. o \o c \o n \o h \o t \o f \in Seq(Beat)
    BY <2>1, <2>4, <2>5, SplitBeats
  <2>7. o \o c \o n \o h \o t \in Seq(Beat)
    BY <2>1, <2>5, <2>6, SplitBeats
  <2>8. o \o c \o n \o h \in Seq(Beat)
    BY <2>3, <2>5, <2>7, SplitBeats
  <2>9. o \o c \o n \in Seq(Beat)
    BY <2>1, <2>5, <2>8, SplitBeats
  <2>10. o \o c \in Seq(Beat)
    BY <2>2, <2>5, <2>9, SplitBeats
  <2>11. o \in Seq(Beat)
    BY <2>1, <2>10, SplitBeats
  <2> QED BY <2>11 DEF o
<1>3. out.valid => out.beat \in Beat
  <2>1. out.valid => <<out.beat>> \in Seq(Beat)
    BY <1>2 DEF Held
  <2> QED BY <2>1
<1>4. Entering \in Fifo!AtMostOne /\ OutOfPipeline \in Fifo!AtMostOne
  BY <1>3 DEF BeatInv, Entering, OutOfPipeline, Held, Fifo!AtMostOne
<1>5. Entering \in Seq(Beat)
  BY DEF BeatInv, Entering, Held
<1> QED BY <1>4, <1>5

OneGoes == Entering \in Fifo!AtMostOne /\ OutOfPipeline \in Fifo!AtMostOne

LEMMA OneAtATimeNext == TypeOK' /\ BeatInv' => OneGoes'
<1>1. TypeOK /\ BeatInv => OneGoes
  BY OneAtATime DEF OneGoes
<1> QED BY <1>1, PTL

\* At the start the tries are empty.
LEMMA InitEmpty ==
  ASSUME Init
  PROVE  InFlight = <<>> /\ Upstream = <<>>
<1>1. PICK f : IsUpTo(f) /\ InTrie = f[STAGES]
  BY UpToExists DEF SomeUpTo
<1> DEFINE S == {n \in 0 .. STAGES : f[n] # <<>>}
<1>2. STAGES \in Nat
  BY StagesAssumption
<1>3. S = {}
  <2> SUFFICES ASSUME S # {} PROVE FALSE
    OBVIOUS
  <2>1. PICK n \in S : \A m \in S : n =< m
    <3>1. S \subseteq Nat
      OBVIOUS
    <3> HIDE DEF S
    <3> QED BY <3>1, LeastNat
  <2>2. n \in 0 .. STAGES /\ f[n] # <<>>
    OBVIOUS
  <2>3. n # 0
    BY <1>1, <2>2 DEF IsUpTo
  <2>4. n - 1 \in 0 .. STAGES /\ ~(n =< n - 1) /\ n \in Stages
    BY <1>2, <2>2, <2>3
  <2>5. f[n - 1] = <<>>
    BY <2>1, <2>4
  <2>6. f[n] = AtStage(n) \o f[n - 1]
    <3> HIDE DEF S
    <3> QED BY <1>1, <2>2, <2>3 DEF IsUpTo
  <2>7. AtStage(n) = <<>>
    BY <2>4 DEF Init, AtStage
  <2> QED BY <2>2, <2>5, <2>6, <2>7, Nil
<1>4. InTrie = <<>>
  <2>1. STAGES \in 0 .. STAGES
    BY <1>2
  <2> QED BY <1>1, <1>3, <2>1
<1>5. Held(Empty) = <<>>
  BY DEF Held, Empty
<1>6. InFlight = <<>> \o <<>> \o <<>> \o <<>> \o <<>> \o <<>> \o <<>>
  BY <1>4, <1>5 DEF Init, InFlight
<1>7. Upstream = <<>> \o <<>> \o <<>> \o <<>>
  BY <1>4, <1>5 DEF Init, Upstream
<1> QED BY <1>6, <1>7, Nil

LEMMA InitFifoInv ==
  ASSUME Init
  PROVE  FifoInv
<1>1. MoveInv
  BY InitMoveInv
<1>2. /\ ~in.valid /\ ~nc_beat.valid /\ ~nexthop_beat.valid
      /\ ~nc_beat.beat.first /\ ~nexthop_beat.beat.first /\ ~LastBeat.first
      /\ in.beat.port = NoPort /\ cache_r_port_id_reg = NoPort
  BY StagesAssumption DEF Init, Empty, NoBeat, LastBeat
<1>3. InFlight = <<>> /\ Upstream = <<>>
  BY InitEmpty
<1>4. Flows(PortNexthop, <<>>) /\ LastPort(PortNexthop, <<>>) = NoPort
  BY <1>2 DEF Flows, LastPort, PortNexthop, PortNc
<1>5. PortInv
  BY <1>2, <1>3, <1>4 DEF PortInv, GhostsTrue, NcFlows
<1>6. BeatInv
  BY <1>2, <1>3 DEF BeatInv
<1> QED BY <1>1, <1>5, <1>6 DEF FifoInv

LEMMA FifoStep ==
  ASSUME FifoInv, Next, PERIOD >= MaxWait + 3
  PROVE  FifoInv' /\ Fifo!Next
<1>1. MoveInv /\ PortInv /\ BeatInv /\ NcFlows /\ TypeOK
  BY DEF FifoInv, PortInv, MoveInv
<1>2. MoveInv' /\ TypeOK'
  BY <1>1, MoveStep DEF MoveInv
<1>3. PortInv'
  BY <1>1, <1>2, PortStep
<1>4. HandsOn(OutOfPipeline, InFlight, Entering, InFlight')
  BY <1>1, <1>2, QueueMoves
<1>5. InFlight' \in Seq(Beat)
  <2>1. InFlight \o Entering \in Seq(Beat)
    BY <1>1, OneAtATime, JoinBeats DEF BeatInv
  <2> QED BY <1>4, <2>1, SplitBeats DEF HandsOn
<1>6. in'.valid => in'.beat \in Beat
  <2>1. CASE in' = in
    BY <1>1, <2>1 DEF BeatInv
  <2>2. CASE in' \in NextIn
    <3>1. in \in Slot
      BY <1>1 DEF TypeOK
    <3>2. ~[in EXCEPT !.valid = FALSE].valid
      BY <3>1 DEF Slot
    <3>3. \A c \in Beat : Shown(c).beat = c
      BY DEF Shown
    <3> QED BY <2>2, <3>2, <3>3 DEF NextIn
  <2> QED BY <2>1, <2>2 DEF Next, Input
<1>7. BeatInv'
  BY <1>5, <1>6 DEF BeatInv
<1>8. Entering' \in Fifo!AtMostOne /\ OutOfPipeline' \in Fifo!AtMostOne
  BY <1>2, <1>7, OneAtATimeNext DEF OneGoes
<1>9. Fifo!Next
  BY <1>4, <1>8 DEF Fifo!Next, HandsOn, Entering, OutOfPipeline
<1> QED BY <1>2, <1>3, <1>7, <1>9 DEF FifoInv

\* When out_ready is never low for more than PERIOD - 3 cycles at a time, the
\* pipeline is a queue: every beat leaves once, in order and by the port of its
\* frame, for every number of stages.
THEOREM PipelineIsFifo == PERIOD >= MaxWait + 3 => (Spec => ImplementsFifo)
<1> SUFFICES ASSUME PERIOD >= MaxWait + 3
             PROVE  Spec => ImplementsFifo
  OBVIOUS
<1>1. Init => FifoInv /\ Fifo!Init
  <2> SUFFICES ASSUME Init
               PROVE  FifoInv /\ Fifo!Init
    OBVIOUS
  <2>1. FifoInv
    BY InitFifoInv
  <2>2. Held(in) = <<>> /\ Held(out) = <<>>
    BY DEF Init, Empty, Held
  <2> QED BY <2>1, <2>2, InitEmpty DEF Fifo!Init
<1>2. FifoInv /\ [Next]_vars =>
        /\ FifoInv'
        /\ [Fifo!Next]_<<InFlight, IF buffer_ready THEN Held(in) ELSE <<>>,
                         IF out_ready THEN Held(out) ELSE <<>>>>
  <2> SUFFICES ASSUME FifoInv, [Next]_vars
               PROVE  /\ FifoInv'
                      /\ [Fifo!Next]_<<InFlight, IF buffer_ready THEN Held(in) ELSE <<>>,
                                       IF out_ready THEN Held(out) ELSE <<>>>>
    OBVIOUS
  <2>1. CASE Next
    BY <2>1, FifoStep
  <2>2. CASE UNCHANGED vars
    <3>1. InTrie' = InTrie
      BY <2>2 DEF vars, InTrie
    <3>2. InFlight' = InFlight /\ Upstream' = Upstream
      BY <2>2, <3>1 DEF vars, InFlight, Upstream, Held
    <3>3. /\ buffer_ready' = buffer_ready /\ out_ready' = out_ready
          /\ Held(in)' = Held(in) /\ Held(out)' = Held(out)
      BY <2>2 DEF vars, buffer_ready, out_ready, fwt_in_ready, stage_ready, fwt_out_ready,
                  fwt_out, nexthop_ready, Held
    <3>4. MoveInv'
      BY <2>2, MoveStep DEF FifoInv
    <3>5. PortInv' /\ BeatInv'
      BY <2>2, <3>2 DEF FifoInv, PortInv, BeatInv, GhostsTrue, NcFlows, PortNexthop, PortNc,
                        Busy, LastBeat, Flows, LastPort, vars
    <3> QED BY <3>2, <3>3, <3>4, <3>5 DEF FifoInv
  <2> QED BY <2>1, <2>2
<1> QED BY <1>1, <1>2, PTL DEF Spec, ImplementsFifo, Fifo!Spec
=============================================================================
