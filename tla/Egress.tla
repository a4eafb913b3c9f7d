------------------------------- MODULE Egress -------------------------------
(***************************************************************************)
(* Everything between the pipelines and the transmit FIFO, clock cycle by  *)
(* clock cycle: the NS and NUD pipelines, the output registers of the      *)
(* forwarding and RIP pipelines, out_arbiter, frame_filter and the width   *)
(* converter.  Names are those of the signals; a signal that is a register *)
(* is a variable, a combinational one an operator.                         *)
(*                                                                         *)
(* Abstractions.  A beat is its place in its frame.  Checksums take any    *)
(* number of cycles, and the 30 s timer runs out at any time in NS_IDLE.   *)
(* The forwarding and RIP pipelines send frames of two beats or more and   *)
(* hold a beat until it is taken.  A forwarded frame may stop for ever     *)
(* before its last beat; a next frame that follows in its place is the     *)
(* business of Forward.                                                    *)
(***************************************************************************)
EXTENDS Naturals

CONSTANTS
  RATIO,        \* words of a full beat in the width converter, 7 in the code
  TAIL,         \* words of the last beat of an NA or NS, 4 in the code
  PHASES,       \* announcements sent at boot, 8 in the code
  MaxBeats,     \* bound: beats of a forwarded or RIP frame
  MayDrop       \* bound: the sources whose frames may be marked to drop

ASSUME WidthAssumption == RATIO \in Nat /\ TAIL \in 2 .. RATIO /\ RATIO >= 3
ASSUME FrameAssumption == MaxBeats \in Nat /\ MaxBeats >= 2 /\ PHASES \in Nat \ {0}

VARIABLES
  ns_state, init_phase, ns_legal, ns_out,
  nud_state, nud_out,
  fw_out, rip_out,
  state,                \* of out_arbiter
  is_first, drop_packet,\* of frame_filter
  converter,            \* its output register: valid, and the words after it
  m_ready,              \* input: the transmit FIFO takes a word
  open,                 \* history: the last beat that left of a frame still open
  alone                 \* history: the arbiter was free when this answer began
                        \* and no other source has had a beat since

vars == <<ns_state, init_phase, ns_legal, ns_out, nud_state, nud_out, fw_out,
          rip_out, state, is_first, drop_packet, converter, m_ready, open, alone>>

Sources == {"ns", "nud", "fw", "rip"}

\* A frame_beat: its number in the frame, whether the frame is to be dropped.
Beat == [valid : BOOLEAN, src : Sources, n : 1 .. MaxBeats, last : BOOLEAN, bad : BOOLEAN]
NoBeat == [valid |-> FALSE, src |-> "fw", n |-> 1, last |-> TRUE, bad |-> FALSE]
Shown(s, k, bad) ==
  [valid |-> TRUE, src |-> s, n |-> k, last |-> k = 2, bad |-> bad]
Hidden(b) == [b EXCEPT !.valid = FALSE]

\* meta.is_first and meta.drop: the drop mark is on the first beat.
First(b) == b.n = 1
Drop(b) == First(b) /\ b.bad

\* Every variable has its type.
TypeOK ==
  /\ ns_state \in {"INIT", "INIT_SEND_1", "INIT_CHECK", "INIT_SEND_2", "IDLE", "WAIT",
                   "CHECK", "SEND_1", "CACHE", "SEND_2"}
  /\ init_phase \in 0 .. PHASES - 1 /\ ns_legal \in BOOLEAN
  /\ nud_state \in {"IDLE", "CHECK", "SEND_1", "WAIT", "SEND_2"}
  /\ {ns_out, nud_out, fw_out, rip_out, open} \subseteq Beat
  /\ state \in {"IDLE"} \cup Sources
  /\ {is_first, drop_packet, m_ready, alone} \subseteq BOOLEAN
  /\ converter \in [valid : BOOLEAN, left : 0 .. RATIO - 1]

-----------------------------------------------------------------------------
(* out_arbiter: rip > ns > nud > fw. *)

\* out, the beat shown to the filter.
out ==
  CASE state = "ns" -> ns_out
    [] state = "nud" -> nud_out
    [] state = "fw" -> fw_out
    [] state = "rip" -> rip_out
    [] OTHER -> IF rip_out.valid THEN rip_out
                ELSE IF ns_out.valid THEN ns_out
                ELSE IF nud_out.valid THEN nud_out
                ELSE IF fw_out.valid THEN fw_out
                ELSE NoBeat

\* frame_filter: the first beat decides for the whole frame.
drop_current == IF is_first THEN Drop(out) ELSE drop_packet

\* frame_beat_width_converter (the downsizer).
in_ready == converter.left = 0 /\ (m_ready \/ ~converter.valid)

out_ready == in_ready \/ drop_current

\* A beat leaves the filter in this cycle.
passes == out.valid /\ ~drop_current /\ in_ready

rip_ready == state \in {"IDLE", "rip"} /\ out_ready
ns_ready ==
  \/ state = "ns" /\ out_ready
  \/ state = "IDLE" /\ out_ready /\ ~rip_out.valid
nud_ready ==
  \/ state = "nud" /\ out_ready
  \/ state = "IDLE" /\ out_ready /\ ~rip_out.valid /\ ~ns_out.valid
\* Mutant: only the RIP pipeline is looked at.
fw_ready_over_ns ==
  \/ state = "fw" /\ out_ready
  \/ state = "IDLE" /\ out_ready /\ ~rip_out.valid
fw_ready ==
  \/ state = "fw" /\ out_ready
  \/ state = "IDLE" /\ out_ready /\ ~rip_out.valid /\ ~ns_out.valid /\ ~nud_out.valid

Asks(b) == b.valid /\ First(b)

\* Mutant: the end of a dropped frame is not noticed.
next_state_passing ==
  IF state = "IDLE"
  THEN IF Asks(rip_out) THEN "rip"
       ELSE IF Asks(ns_out) THEN "ns"
       ELSE IF Asks(nud_out) THEN "nud"
       ELSE IF Asks(fw_out) THEN "fw" ELSE "IDLE"
  ELSE IF passes /\ out.last THEN "IDLE" ELSE state
next_state ==
  IF state = "IDLE"
  THEN IF Asks(rip_out) THEN "rip"
       ELSE IF Asks(ns_out) THEN "ns"
       ELSE IF Asks(nud_out) THEN "nud"
       ELSE IF Asks(fw_out) THEN "fw" ELSE "IDLE"
  ELSE IF out.valid /\ out.last /\ out_ready THEN "IDLE" ELSE state

OutArbiter == state' = next_state

FrameFilter ==
  IF out.valid /\ out_ready
  THEN /\ is_first' = out.last
       /\ drop_packet' = (IF is_first THEN Drop(out) ELSE drop_packet)
  ELSE UNCHANGED <<is_first, drop_packet>>

\* Mutant: the end of a full beat is seen a word late.
WordsLate(b) ==
  IF ~b.last THEN {RATIO + 1} ELSE IF b.src \in {"ns", "nud"} THEN {TAIL} ELSE 1 .. RATIO
Words(b) ==
  IF ~b.last THEN {RATIO} ELSE IF b.src \in {"ns", "nud"} THEN {TAIL} ELSE 1 .. RATIO

WidthConverter ==
  \/ /\ in_ready /\ passes
     /\ \E w \in Words(out) : converter' = [valid |-> TRUE, left |-> w - 1]
  \/ in_ready /\ ~passes /\ converter' = [valid |-> FALSE, left |-> 0]
  \/ converter.left > 0 /\ m_ready /\ converter' = [converter EXCEPT !.left = @ - 1]
  \/ ~in_ready /\ (converter.left > 0 => ~m_ready) /\ UNCHANGED converter

-----------------------------------------------------------------------------
(* pipeline_ns: ns_state and the output register, which follows it a cycle *)
(* later.                                                                   *)

NsMoves(from, to) == ns_state = from /\ ns_state' = to

\* What each state does to the output register.
NsOut ==
  ns_out' =
    CASE ns_state = "INIT" -> Hidden(Shown("ns", 1, FALSE))
      [] ns_state = "INIT_SEND_1" -> [ns_out EXCEPT !.valid = TRUE]
      [] ns_state = "WAIT" -> Hidden(Shown("ns", 1, FALSE))
      [] ns_state = "CACHE" -> ns_out
      [] ns_state = "SEND_1" -> Shown("ns", 1, ~ns_legal)
      [] ns_state \in {"INIT_SEND_2", "SEND_2"} -> Shown("ns", 2, ns_out.bad)
      [] OTHER -> Hidden(ns_out)

InitStart ==
  NsMoves("INIT", "INIT_SEND_1") /\ UNCHANGED <<init_phase, ns_legal>>

\* Mutant: the wait for the arbiter is left out.
SendBlind(from, to) ==
  NsMoves(from, to) /\ UNCHANGED <<init_phase, ns_legal>>
Send(from, to) ==
  /\ ns_state = from
  /\ IF ns_ready THEN ns_state' = to ELSE ns_state' = from
  /\ UNCHANGED <<init_phase, ns_legal>>

InitCheck ==
  /\ ns_state = "INIT_CHECK"
  /\ ns_state' \in {"INIT_CHECK", "INIT_SEND_2"}
  /\ UNCHANGED <<init_phase, ns_legal>>

InitSend2 ==
  /\ ns_state = "INIT_SEND_2"
  /\ IF ns_ready
     THEN /\ ns_state' = IF init_phase = PHASES - 1 THEN "IDLE" ELSE "INIT"
          /\ init_phase' = (init_phase + 1) % PHASES
     ELSE UNCHANGED <<ns_state, init_phase>>
  /\ UNCHANGED ns_legal

\* An NS arrives, the timer runs out, or nothing happens.
NsIdle ==
  /\ ns_state = "IDLE"
  /\ ns_state' \in {"IDLE", "WAIT", "INIT"}
  /\ UNCHANGED <<init_phase, ns_legal>>

NsWait ==
  /\ ns_state = "WAIT"
  /\ ns_state' \in {"WAIT", "CHECK"}
  /\ UNCHANGED <<init_phase, ns_legal>>

\* Whether the NS is legal is known when its checksum is.
NsCheck ==
  /\ ns_state = "CHECK"
  /\ \/ ns_state' = "CHECK" /\ UNCHANGED ns_legal
     \/ ns_state' = "SEND_1" /\ ns_legal' \in BOOLEAN
  /\ UNCHANGED init_phase

\* The cache arbiter always takes the entry at once.
NsCache == NsMoves("CACHE", "SEND_2") /\ UNCHANGED <<init_phase, ns_legal>>

NsSend2 ==
  /\ ns_state = "SEND_2"
  /\ IF ns_ready THEN ns_state' = "IDLE" /\ ns_legal' = FALSE
                 ELSE UNCHANGED <<ns_state, ns_legal>>
  /\ UNCHANGED init_phase

PipelineNs ==
  /\ NsOut
  /\ \/ InitStart \/ Send("INIT_SEND_1", "INIT_CHECK") \/ InitCheck \/ InitSend2
     \/ NsIdle \/ NsWait \/ NsCheck \/ Send("SEND_1", "CACHE") \/ NsCache \/ NsSend2

-----------------------------------------------------------------------------
(* pipeline_nud, started by a miss in the neighbour cache. *)

NudOut ==
  nud_out' = CASE nud_state = "SEND_1" -> Shown("nud", 1, FALSE)
               [] nud_state = "SEND_2" -> Shown("nud", 2, FALSE)
               [] OTHER -> Hidden(nud_out)

PipelineNud ==
  /\ NudOut
  /\ \/ nud_state = "IDLE" /\ nud_state' \in {"IDLE", "CHECK"}
     \/ nud_state = "CHECK" /\ nud_state' \in {"CHECK", "SEND_1"}
     \/ nud_state = "SEND_1" /\ nud_state' = IF nud_ready THEN "WAIT" ELSE "SEND_1"
     \/ nud_state = "WAIT" /\ nud_state' = "SEND_2"
     \/ nud_state = "SEND_2" /\ nud_state' = IF nud_ready THEN "IDLE" ELSE "SEND_2"

-----------------------------------------------------------------------------
(* The output registers of pipeline_forward and pipeline_rip: a beat stays *)
(* until it is taken, then the next one, or none, takes its place.          *)

NextBeats(b) ==
  IF b.last
  THEN {[b EXCEPT !.valid = TRUE, !.n = 1, !.last = FALSE, !.bad = d] :
          d \in IF b.src \in MayDrop THEN BOOLEAN ELSE {FALSE}}
  ELSE {[b EXCEPT !.valid = TRUE, !.n = @ + 1, !.last = l] :
          l \in IF b.n + 1 = MaxBeats THEN {TRUE} ELSE BOOLEAN}

FW_OUT_REG(b, ready) == IF ready THEN NextBeats(b) \cup {Hidden(b)} ELSE {b}

-----------------------------------------------------------------------------
Init ==
  /\ ns_state = "INIT" /\ init_phase = 0 /\ ns_legal = FALSE
  /\ ns_out = [NoBeat EXCEPT !.src = "ns"]
  /\ nud_state = "IDLE" /\ nud_out = [NoBeat EXCEPT !.src = "nud"]
  /\ fw_out = [NoBeat EXCEPT !.src = "fw"] /\ rip_out = [NoBeat EXCEPT !.src = "rip"]
  /\ state = "IDLE" /\ is_first = TRUE /\ drop_packet = FALSE
  /\ converter = [valid |-> FALSE, left |-> 0]
  /\ m_ready \in BOOLEAN
  /\ open = NoBeat /\ alone = TRUE

History ==
  /\ open' = IF passes THEN (IF out.last THEN NoBeat ELSE out) ELSE open
  /\ alone' = (/\ IF ns_state \in {"INIT", "CHECK"} THEN next_state = "IDLE" ELSE alone
               /\ ~fw_out.valid /\ ~rip_out.valid /\ ~nud_out.valid)

Next ==
  /\ PipelineNs /\ PipelineNud
  /\ fw_out' \in FW_OUT_REG(fw_out, fw_ready)
  /\ rip_out' \in FW_OUT_REG(rip_out, rip_ready)
  /\ OutArbiter /\ FrameFilter /\ WidthConverter
  /\ m_ready' \in BOOLEAN
  /\ History

Spec == Init /\ [][Next]_vars

\* A wait of the NS pipeline for a checksum, a second beat or the timer ends.
NsMovesOn ==
  /\ Next /\ ns_state \in {"INIT_CHECK", "WAIT", "CHECK", "IDLE"}
  /\ ns_state' # ns_state

\* A RIP frame that was begun is continued: its first beat waits for a valid
\* checksum, and then the whole packet is in the output FIFO (DmaLink,
\* OutputFramed).  A forwarded frame is not: its last beat may be lost.
RipGoesOn == Next /\ state = "rip" /\ rip_out'.valid

\* The clock runs, and the transmit FIFO takes words.
WordTaken == Next /\ m_ready'

FairSpec == Spec /\ WF_vars(WordTaken) /\ WF_vars(NsMovesOn) /\ WF_vars(RipGoesOn)

-----------------------------------------------------------------------------
(* Properties. *)

\* b continues the frame that is open after the filter, or begins one when
\* none is.
Follows(b) ==
  IF First(b) THEN ~open.valid
  ELSE open.valid /\ open.src = b.src /\ open.n = b.n - 1 /\ open.bad = b.bad

\* A forwarded or RIP beat taken from its pipeline leaves in that very cycle,
\* after the beat before it and nothing in between; a beat of a frame marked
\* to drop never leaves; and no beat leaves that was not taken.
FwRipWhole ==
  /\ fw_out.valid /\ fw_ready => IF fw_out.bad THEN ~passes
                                 ELSE passes /\ out = fw_out /\ Follows(out)
  /\ rip_out.valid /\ rip_ready => IF rip_out.bad THEN ~passes
                                   ELSE passes /\ out = rip_out /\ Follows(out)
  /\ passes /\ out.src = "fw" => fw_ready
  /\ passes /\ out.src = "rip" => rip_ready

\* An answer sent while no other pipeline has a beat leaves whole, once, and
\* only to a legal NS, although ns_out is a cycle behind ns_state and shows a
\* beat for cycles after it was taken.
NaWholeAlone ==
  alone =>
    /\ passes /\ out.src = "ns" => Follows(out) /\ ~out.bad
    /\ ns_state = "SEND_2" /\ ns_ready /\ ns_legal => passes /\ out = Shown("ns", 2, FALSE)

\* No answer, probe or RIP frame keeps the arbiter, in whatever cycle its beats
\* are taken, torn or marked to drop.  A forwarded frame may: when its last beat
\* is lost behind a RIP frame (trie8.sv:318, run forward_lost), the arbiter stays
\* with the forwarding pipeline until that shows a last beat again.  It comes
\* back as long as forwarded frames keep ending, marked to drop or not.
EgressRecovers ==
  /\ []<>(state \in {"IDLE", "fw"})
  /\ []<>(fw_out.valid /\ fw_out.last) => []<>(state = "IDLE")

\* A beat of an NA leaves only as part of a whole frame.  It does not hold:
\* NS_SEND_1 takes the arbiter's ready for its beat in the cycle before the
\* beat is valid.
NaWhole == passes /\ out.src = "ns" => Follows(out)
=============================================================================
