------------------------------- MODULE Forward -------------------------------
(***************************************************************************)
(* The way of a beat through the forwarding pipeline (pipeline_forward.sv  *)
(* and the trie128 inside it), clock cycle by clock cycle: every register  *)
(* that holds a beat and every ready that moves it.  Names are those of    *)
(* the signals.                                                            *)
(*                                                                         *)
(* Abstractions.  A beat is whether it is the first of its frame and the   *)
(* port of its frame's next hop: what the tries and the next hop table     *)
(* find is right, and known when a beat leaves the last trie stage.  MAC   *)
(* addresses, hop limits and the mark to drop travel in the beat.  Where   *)
(* nothing reads the data of an invalid beat it is not kept.  The rest of  *)
(* the router is out_ready, low for at most MaxWait cycles at a time.      *)
(***************************************************************************)
EXTENDS Naturals, Sequences

CONSTANTS
  STAGES,               \* trie8 stages in trie128, 16 in the code
  PERIOD,               \* states of a stage from IDLE to WAIT, 11 in the code
  Ports, NoPort,
  MaxWait               \* bound: the longest time out_ready stays low

ASSUME StagesAssumption == STAGES \in Nat \ {0}
ASSUME PeriodAssumption == PERIOD \in Nat /\ PERIOD >= 3
ASSUME WaitAssumption == MaxWait \in Nat
ASSUME PortAssumption == NoPort \notin Ports

VARIABLES
  in,                   \* the beat in_arbiter shows
  in_buffer, fwt_in,
  state,                \* trie stage -> its state, 0 for IDLE
  out_valid, frame_beat,\* trie stage -> its out_valid and frame_beat_o
  nexthop_beat,
  nc_beat, nc_beat_buffer, nc_ready,
  cache_r_port_id_reg, cache_beat,
  out,
  wait,                 \* input: cycles until out_ready
  nc_used               \* history: nc_beat has gone on to cache_beat

vars == <<in, in_buffer, fwt_in, state, out_valid, frame_beat, nexthop_beat,
          nc_beat, nc_beat_buffer, nc_ready, cache_r_port_id_reg, cache_beat,
          out, wait, nc_used>>

Stages == 1 .. STAGES
LAST == PERIOD - 1          \* WAIT

Beat == [first : BOOLEAN, port : Ports]
AnyBeat == [first : BOOLEAN, port : Ports \cup {NoPort}]
Slot == [valid : BOOLEAN, beat : AnyBeat]
NoBeat == [first |-> FALSE, port |-> NoPort]
Empty == [valid |-> FALSE, beat |-> NoBeat]
Shown(b) == [valid |-> TRUE, beat |-> b]
Held(s) == IF s.valid THEN <<s.beat>> ELSE <<>>

\* Every variable has its type.
TypeOK ==
  /\ {in, in_buffer, fwt_in, nexthop_beat, nc_beat, nc_beat_buffer, cache_beat, out}
       \subseteq Slot
  /\ state \in [Stages -> 0 .. LAST]
  /\ out_valid \in [Stages -> BOOLEAN]
  /\ frame_beat \in [Stages -> AnyBeat]
  /\ nc_ready \in BOOLEAN /\ nc_used \in BOOLEAN
  /\ cache_r_port_id_reg \in Ports \cup {NoPort}
  /\ wait \in 0 .. MaxWait

-----------------------------------------------------------------------------
(* The ready signals, from the arbiter back to the input. *)

out_ready == wait = 0
cache_ready == out_ready \/ ~cache_beat.valid
\* Mutant: an empty register is not filled while the ready is low.
nexthop_ready_strict == nc_ready
nexthop_ready == nc_ready \/ ~nexthop_beat.valid

fwt_out ==
  [valid |-> out_valid[STAGES],
   beat |-> IF state[STAGES] = 0 THEN frame_beat[STAGES]
            ELSE [frame_beat[STAGES] EXCEPT !.port = NoPort]]
fwt_out_ready == nexthop_ready \/ ~fwt_out.valid

\* A stage is ready when it is idle and what it shows, if anything, is taken:
\* stage k has to move for stage i when all from i to k - 1 show a beat.
stage_ready(i) ==
  /\ \A k \in i .. STAGES :
       (\A j \in i .. k - 1 : out_valid[j]) => state[k] = 0
  /\ (\A j \in i .. STAGES : out_valid[j]) => fwt_out_ready

fwt_in_ready == stage_ready(1)
buffer_ready == fwt_in_ready \/ ~in_buffer.valid

-----------------------------------------------------------------------------
(* The registers, in the order a beat goes through them. *)

\* A beat is held until taken; then comes the next of the frame, the first of
\* another, or none.
NextIn ==
  {Shown(b) : b \in {c \in Beat : c.first \/ c.port = in.beat.port}}
    \cup {[in EXCEPT !.valid = FALSE]}
Input == in' \in IF in.valid /\ ~buffer_ready THEN {in} ELSE NextIn

FW_IN_REG ==
  in_buffer' = IF ~buffer_ready THEN in_buffer ELSE IF in.valid THEN in ELSE Empty

FW_FWT_IN_REG == fwt_in' = IF fwt_in_ready THEN in_buffer ELSE fwt_in

\* What stage i is offered, and whether it takes it.
Offered(i) ==
  IF i = 1 THEN fwt_in ELSE [valid |-> out_valid[i - 1], beat |-> frame_beat[i - 1]]
Takes(i) == Offered(i).valid /\ stage_ready(i)

\* Mutant: nothing follows WAIT.
next_state_endless(i) ==
  IF state[i] = 0 THEN (IF Takes(i) THEN 1 ELSE 0) ELSE state[i] + 1
next_state(i) ==
  IF state[i] = 0 THEN (IF Takes(i) THEN 1 ELSE 0)
  ELSE IF state[i] = LAST THEN 0 ELSE state[i] + 1

\* A stage that is IDLE lowers out_valid, whether or not its beat was taken.
Trie128 ==
  /\ state' = [i \in Stages |-> next_state(i)]
  /\ out_valid' = [i \in Stages |-> state[i] = LAST]
  /\ frame_beat' = [i \in Stages |->
                      IF Takes(i) THEN Offered(i).beat
                      ELSE IF i < STAGES /\ state[i] = 0 THEN NoBeat
                      ELSE frame_beat[i]]

NEXTHOP_BEAT == nexthop_beat' = IF nexthop_ready THEN fwt_out ELSE nexthop_beat

\* Two copies of a beat, both moved by the ready of the cycle before.
NC_BEAT == nc_beat' = IF nc_ready THEN nexthop_beat ELSE nc_beat
NC_BEAT_BUFFER == nc_beat_buffer' = IF nc_ready THEN nexthop_beat ELSE nc_beat_buffer
NC_READY == nc_ready' = cache_ready

cache_beat_comb == IF cache_ready /\ ~nc_ready THEN nc_beat_buffer ELSE nc_beat

\* The port of a frame is that of the last first beat seen, valid or not.
\* Mutant: of any beat.
PortOfEveryBeat == cache_r_port_id_reg' = cache_beat_comb.beat.port
FW_CACHE_R_PORT_REG ==
  cache_r_port_id_reg' =
    IF cache_beat_comb.beat.first THEN cache_beat_comb.beat.port ELSE cache_r_port_id_reg

WithPort(b) == IF b.first THEN b ELSE [b EXCEPT !.port = cache_r_port_id_reg]
FW_CACHE_REG ==
  cache_beat' = IF ~cache_ready THEN cache_beat
                ELSE IF cache_beat_comb.valid THEN Shown(WithPort(cache_beat_comb.beat))
                ELSE Empty

FW_OUT_REG == out' = IF out_ready THEN cache_beat ELSE out

Downstream == wait' \in IF wait = 0 THEN 0 .. MaxWait ELSE {wait - 1}

History == nc_used' = (~nc_ready /\ (nc_used \/ cache_ready))

-----------------------------------------------------------------------------
Init ==
  /\ in = Empty /\ in_buffer = Empty /\ fwt_in = Empty
  /\ state = [i \in Stages |-> 0]
  /\ out_valid = [i \in Stages |-> FALSE]
  /\ frame_beat = [i \in Stages |-> NoBeat]
  /\ nexthop_beat = Empty /\ nc_beat = Empty /\ nc_beat_buffer = Empty
  /\ nc_ready = FALSE /\ cache_r_port_id_reg = NoPort
  /\ cache_beat = Empty /\ out = Empty
  /\ wait \in 0 .. MaxWait
  /\ nc_used = FALSE

Next ==
  /\ Input /\ FW_IN_REG /\ FW_FWT_IN_REG /\ Trie128 /\ NEXTHOP_BEAT
  /\ NC_BEAT /\ NC_BEAT_BUFFER /\ NC_READY /\ FW_CACHE_R_PORT_REG /\ FW_CACHE_REG
  /\ FW_OUT_REG /\ Downstream /\ History

Spec == Init /\ [][Next]_vars

-----------------------------------------------------------------------------
(* Properties. *)

\* The beats inside, oldest first.
InTrie ==
  LET upTo[i \in 0 .. STAGES] ==
        IF i = 0 THEN <<>>
        ELSE (IF state[i] # 0 \/ out_valid[i] THEN <<frame_beat[i]>> ELSE <<>>) \o upTo[i - 1]
  IN  upTo[STAGES]
InFlight ==
  Held(out) \o Held(cache_beat) \o (IF nc_used THEN <<>> ELSE Held(nc_beat))
    \o Held(nexthop_beat) \o InTrie \o Held(fwt_in) \o Held(in_buffer)

\* When out_ready is never low for long, the pipeline with all its registers
\* and its ready that comes a cycle late is a queue.
Fifo == INSTANCE BeatFifo WITH
          queue <- InFlight,
          entering <- (IF buffer_ready THEN Held(in) ELSE <<>>),
          leaving <- (IF out_ready THEN Held(out) ELSE <<>>)
ImplementsFifo == Fifo!Spec

\* What makes it one: a stage that shows a beat is relieved of it in that very
\* cycle, the beat before the neighbour cache is not overwritten when the ready
\* is stale, and it does not go on twice.
BeatsMoveOnce ==
  /\ \A i \in Stages : out_valid[i] => IF i = STAGES THEN fwt_out_ready ELSE stage_ready(i + 1)
  /\ nc_ready /\ ~cache_ready => ~nc_beat.valid
  /\ cache_ready /\ nc_used => ~cache_beat_comb.valid

\* A finished beat stays at its stage until the next stage takes it.  It does
\* not when out_ready stays low for longer.
FinishedBeatHeld ==
  [][\A i \in Stages :
       /\ out_valid[i]
       /\ ~ IF i = STAGES THEN fwt_out_ready ELSE stage_ready(i + 1)
       => out_valid'[i]]_vars
=============================================================================
