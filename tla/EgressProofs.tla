---------------------------- MODULE EgressProofs ----------------------------
(* Theorems about Egress, for every value of its constants: registers are   *)
(* well typed, forwarded and RIP frames leave whole or not at all, and an   *)
(* answer the NS pipeline sends alone leaves whole.                         *)
EXTENDS Egress, TLAPS

-----------------------------------------------------------------------------
(* The strengthening.  An answer is a first beat that is not the last and a *)
(* second one that is.                                                      *)

TwoBeats(b, s) ==
  /\ b.src = s /\ b.n \in {1, 2}
  /\ b.valid => (b.last <=> b.n = 2)

\* A frame of the forwarding or RIP pipeline has room for its next beat.
HasRoom(b, s) ==
  /\ b.src = s
  /\ ~b.last => b.n < MaxBeats
  /\ b.valid /\ First(b) => ~b.last

\* Where a register stands in its frame: st is the arbiter's state, and
\* first, drop and opn what the filter and the history keep of the frame.
Begins(b, first, opn) == b.valid /\ First(b) /\ first /\ ~opn.valid
Continues(b, k, first, drop, opn) ==
  /\ ~first /\ drop = b.bad
  /\ IF b.bad THEN ~opn.valid
     ELSE opn.valid /\ opn.src = b.src /\ opn.n = k /\ opn.bad = b.bad
InFrame(b, s, st, first, drop, opn) ==
  IF st = s
  THEN \/ Begins(b, first, opn)
       \/ b.valid /\ ~First(b) /\ Continues(b, b.n - 1, first, drop, opn)
       \/ ~b.valid /\ ~b.last /\ Continues(b, b.n, first, drop, opn)
  ELSE IF b.valid THEN First(b) ELSE b.last

BeatsTyped ==
  /\ TypeOK
  /\ TwoBeats(ns_out, "ns") /\ TwoBeats(nud_out, "nud")
  /\ ns_state = "INIT_SEND_1" => ns_out.n = 1 /\ ~ns_out.last
  /\ HasRoom(fw_out, "fw") /\ HasRoom(rip_out, "rip")

FramesInv ==
  /\ state = "IDLE" => is_first
  /\ is_first \/ drop_packet => ~open.valid
  /\ InFrame(fw_out, "fw", state, is_first, drop_packet, open)
  /\ InFrame(rip_out, "rip", state, is_first, drop_packet, open)

IInv == BeatsTyped /\ FramesInv

-----------------------------------------------------------------------------
(* Beats. *)

LEMMA ShownTyped ==
  ASSUME NEW s \in Sources, NEW k \in {1, 2}, NEW d \in BOOLEAN
  PROVE  Shown(s, k, d) \in Beat /\ TwoBeats(Shown(s, k, d), s)
<1>1. (k = 2) \in BOOLEAN
  OBVIOUS
<1>2. k \in 1 .. MaxBeats
  BY FrameAssumption
<1>3. Shown(s, k, d) \in Beat
  BY <1>1, <1>2 DEF Shown, Beat
<1> QED BY <1>3 DEF Shown, TwoBeats

LEMMA HiddenTyped ==
  ASSUME NEW b \in Beat
  PROVE  /\ Hidden(b) \in Beat /\ ~Hidden(b).valid
         /\ Hidden(b).n = b.n /\ Hidden(b).src = b.src
         /\ Hidden(b).last = b.last /\ Hidden(b).bad = b.bad
BY DEF Hidden, Beat

LEMMA BeatWith ==
  ASSUME NEW b \in Beat, NEW v \in BOOLEAN
  PROVE  [b EXCEPT !.valid = v] \in Beat
BY DEF Beat

-----------------------------------------------------------------------------
(* Types. *)

LEMMA OutTyped ==
  ASSUME BeatsTyped
  PROVE  /\ out \in Beat
         /\ out.valid /\ out.n = 1 => ~out.last
         /\ out.valid /\ out.src \in {"ns", "nud"} => (out.last <=> out.n = 2)
         /\ out \in {ns_out, nud_out, fw_out, rip_out, NoBeat}
<1>1. NoBeat \in Beat /\ ~NoBeat.valid
  BY FrameAssumption DEF NoBeat, Beat, Sources
<1>2. out \in {ns_out, nud_out, fw_out, rip_out, NoBeat}
  BY DEF out
<1> QED BY <1>1, <1>2 DEF BeatsTyped, TypeOK, TwoBeats, HasRoom, First, Beat

LEMMA NsTyped ==
  ASSUME BeatsTyped, PipelineNs
  PROVE  /\ ns_state' \in {"INIT", "INIT_SEND_1", "INIT_CHECK", "INIT_SEND_2", "IDLE",
                           "WAIT", "CHECK", "SEND_1", "CACHE", "SEND_2"}
         /\ init_phase' \in 0 .. PHASES - 1 /\ ns_legal' \in BOOLEAN
         /\ ns_out' \in Beat /\ TwoBeats(ns_out', "ns")
         /\ ns_state' = "INIT_SEND_1" => ns_out'.n = 1 /\ ~ns_out'.last
<1> USE FrameAssumption
<1>1. ns_out' \in Beat /\ TwoBeats(ns_out', "ns")
  <2>1. ns_out \in Beat /\ TwoBeats(ns_out, "ns") /\ ns_legal \in BOOLEAN
    BY DEF BeatsTyped, TypeOK
  <2>2. TwoBeats(Hidden(ns_out), "ns") /\ Hidden(ns_out) \in Beat
    BY <2>1, HiddenTyped DEF TwoBeats
  <2>3. \A d \in BOOLEAN : Hidden(Shown("ns", 1, d)) \in Beat /\ TwoBeats(Hidden(Shown("ns", 1, d)), "ns")
    BY ShownTyped, HiddenTyped DEF TwoBeats, Sources
  <2>4. ns_state = "INIT_SEND_1" =>
          [ns_out EXCEPT !.valid = TRUE] \in Beat /\ TwoBeats([ns_out EXCEPT !.valid = TRUE], "ns")
    <3>1. [ns_out EXCEPT !.valid = TRUE] \in Beat
      BY <2>1, BeatWith
    <3> QED BY <2>1, <3>1 DEF Beat, TwoBeats, BeatsTyped
  <2>5. ns_out.bad \in BOOLEAN /\ (~ns_legal) \in BOOLEAN
    BY <2>1 DEF Beat
  <2>6. \/ \E d \in BOOLEAN : ns_out' = Hidden(Shown("ns", 1, d))
        \/ ns_state = "INIT_SEND_1" /\ ns_out' = [ns_out EXCEPT !.valid = TRUE]
        \/ ns_out' = ns_out
        \/ \E k \in {1, 2}, d \in BOOLEAN : ns_out' = Shown("ns", k, d)
        \/ ns_out' = Hidden(ns_out)
    BY <2>5 DEF PipelineNs, NsOut
  <2>7. \A k \in {1, 2}, d \in BOOLEAN :
          Shown("ns", k, d) \in Beat /\ TwoBeats(Shown("ns", k, d), "ns")
    BY ShownTyped DEF Sources
  <2> QED BY <2>1, <2>2, <2>3, <2>4, <2>6, <2>7
<1>2. ns_state' = "INIT_SEND_1" => ns_out'.n = 1 /\ ~ns_out'.last
  <2> SUFFICES ASSUME ns_state' = "INIT_SEND_1" PROVE ns_out'.n = 1 /\ ~ns_out'.last
    OBVIOUS
  <2>1. ns_state = "INIT" \/ ns_state = "INIT_SEND_1"
    BY DEF PipelineNs, InitStart, Send, InitCheck, InitSend2, NsIdle, NsWait, NsCheck,
           NsCache, NsSend2, NsMoves, BeatsTyped, TypeOK
  <2>2. CASE ns_state = "INIT"
    <3>1. ns_out' = Hidden(Shown("ns", 1, FALSE))
      BY <2>2 DEF PipelineNs, NsOut
    <3>2. PICK b : b = Shown("ns", 1, FALSE)
      OBVIOUS
    <3>3. b.n = 1 /\ b.valid
      BY <3>2 DEF Shown
    <3>4. b \in Beat /\ TwoBeats(b, "ns")
      BY <3>2, ShownTyped DEF Sources
    <3>5. ~b.last
      BY <3>3, <3>4 DEF TwoBeats
    <3> QED BY <3>1, <3>2, <3>3, <3>4, <3>5, HiddenTyped
  <2>3. CASE ns_state = "INIT_SEND_1"
    <3>1. ns_out' = [ns_out EXCEPT !.valid = TRUE] /\ ns_out \in Beat
      BY <2>3 DEF PipelineNs, NsOut, BeatsTyped, TypeOK
    <3> QED BY <3>1, <2>3 DEF Beat, BeatsTyped
  <2> QED BY <2>1, <2>2, <2>3
<1>3. init_phase' \in 0 .. PHASES - 1
  <2>1. (init_phase + 1) % PHASES \in 0 .. PHASES - 1
    BY DEF BeatsTyped, TypeOK
  <2> QED BY <2>1 DEF PipelineNs, InitStart, Send, InitCheck, InitSend2, NsIdle, NsWait,
                      NsCheck, NsCache, NsSend2, BeatsTyped, TypeOK
<1>4. /\ ns_state' \in {"INIT", "INIT_SEND_1", "INIT_CHECK", "INIT_SEND_2", "IDLE",
                        "WAIT", "CHECK", "SEND_1", "CACHE", "SEND_2"}
      /\ ns_legal' \in BOOLEAN
  BY DEF PipelineNs, InitStart, Send, InitCheck, InitSend2, NsIdle, NsWait, NsCheck,
         NsCache, NsSend2, NsMoves, BeatsTyped, TypeOK
<1> QED BY <1>1, <1>2, <1>3, <1>4

LEMMA NudTyped ==
  ASSUME BeatsTyped, PipelineNud
  PROVE  /\ nud_state' \in {"IDLE", "CHECK", "SEND_1", "WAIT", "SEND_2"}
         /\ nud_out' \in Beat /\ TwoBeats(nud_out', "nud")
<1>1. nud_out' \in Beat /\ TwoBeats(nud_out', "nud")
  <2>1. nud_out \in Beat /\ TwoBeats(nud_out, "nud")
    BY DEF BeatsTyped, TypeOK
  <2>2. TwoBeats(Hidden(nud_out), "nud") /\ Hidden(nud_out) \in Beat
    BY <2>1, HiddenTyped DEF TwoBeats
  <2>3. \A k \in {1, 2} : Shown("nud", k, FALSE) \in Beat /\ TwoBeats(Shown("nud", k, FALSE), "nud")
    BY ShownTyped DEF Sources
  <2> QED BY <2>2, <2>3 DEF PipelineNud, NudOut
<1> QED BY <1>1 DEF PipelineNud, BeatsTyped, TypeOK

\* The output register of the forwarding and RIP pipelines.
LEMMA RegisterTyped ==
  ASSUME NEW b \in Beat, NEW s, HasRoom(b, s), NEW ready,
         NEW c \in FW_OUT_REG(b, ready)
  PROVE  c \in Beat /\ HasRoom(c, s)
<1>1. CASE c = b \/ c = Hidden(b)
  BY <1>1 DEF Hidden, Beat, HasRoom, First
<1>2. CASE c \in NextBeats(b) /\ b.last
  <2>1. PICK d \in BOOLEAN :
          c = [b EXCEPT !.valid = TRUE, !.n = 1, !.last = FALSE, !.bad = d]
    BY <1>2 DEF NextBeats
  <2>2. c = [valid |-> TRUE, src |-> b.src, n |-> 1, last |-> FALSE, bad |-> d]
    BY <2>1 DEF Beat
  <2> QED BY <2>2, FrameAssumption DEF Beat, HasRoom, First
<1>3. CASE c \in NextBeats(b) /\ ~b.last
  <2>1. PICK l \in BOOLEAN :
          /\ c = [b EXCEPT !.valid = TRUE, !.n = b.n + 1, !.last = l]
          /\ b.n + 1 = MaxBeats => l
    BY <1>3 DEF NextBeats
  <2>2. b.n \in 1 .. MaxBeats /\ b.n + 1 \in 2 .. MaxBeats
    BY <1>3, FrameAssumption DEF HasRoom, Beat
  <2>3. c = [valid |-> TRUE, src |-> b.src, n |-> b.n + 1, last |-> l, bad |-> b.bad]
    BY <2>1 DEF Beat
  <2>4. c.n = b.n + 1 /\ c.last = l /\ c.src = b.src
    BY <2>3
  <2>5. c \in Beat
    BY <2>2, <2>3, FrameAssumption DEF Beat
  <2> QED BY <2>1, <2>2, <2>4, <2>5, FrameAssumption DEF HasRoom, First
<1> QED BY <1>1, <1>2, <1>3 DEF FW_OUT_REG

LEMMA ArbiterTyped ==
  ASSUME BeatsTyped, OutArbiter
  PROVE  state' \in {"IDLE"} \cup Sources
BY DEF BeatsTyped, TypeOK, OutArbiter, next_state, Sources

LEMMA FilterTyped ==
  ASSUME BeatsTyped, FrameFilter
  PROVE  is_first' \in BOOLEAN /\ drop_packet' \in BOOLEAN
BY OutTyped DEF BeatsTyped, TypeOK, FrameFilter, Drop, Beat, First

LEMMA ConverterTyped ==
  ASSUME BeatsTyped, WidthConverter
  PROVE  converter' \in [valid : BOOLEAN, left : 0 .. RATIO - 1]
<1> USE WidthAssumption
<1>1. ASSUME NEW w \in Words(out) PROVE w - 1 \in 0 .. RATIO - 1
  BY <1>1 DEF Words
<1>2. ASSUME converter.left > 0
      PROVE  [converter EXCEPT !.left = @ - 1] \in [valid : BOOLEAN, left : 0 .. RATIO - 1]
  BY <1>2 DEF BeatsTyped, TypeOK
<1>3. converter \in [valid : BOOLEAN, left : 0 .. RATIO - 1] /\ 0 \in 0 .. RATIO - 1
  BY DEF BeatsTyped, TypeOK
<1>4. CASE \E w \in Words(out) : converter' = [valid |-> TRUE, left |-> w - 1]
  BY <1>1, <1>4
<1>5. CASE converter' = [valid |-> FALSE, left |-> 0]
  BY <1>3, <1>5
<1>6. CASE converter.left > 0 /\ converter' = [converter EXCEPT !.left = @ - 1]
  BY <1>2, <1>6
<1>7. CASE UNCHANGED converter
  BY <1>3, <1>7
<1> QED BY <1>4, <1>5, <1>6, <1>7 DEF WidthConverter

LEMMA InitTyped == Init => BeatsTyped
<1> SUFFICES ASSUME Init PROVE BeatsTyped
  OBVIOUS
<1>1. \A s \in Sources : [NoBeat EXCEPT !.src = s] \in Beat /\ NoBeat \in Beat
  <2>1. NoBeat \in Beat
    BY FrameAssumption DEF NoBeat, Beat, Sources
  <2> QED BY <2>1 DEF Beat
<1>2. \A s \in Sources : LET b == [NoBeat EXCEPT !.src = s] IN
        b.src = s /\ b.n = 1 /\ ~b.valid /\ b.last
  BY DEF NoBeat
<1>3. TypeOK
  <2>1. 0 \in 0 .. PHASES - 1 /\ 0 \in 0 .. RATIO - 1
    BY FrameAssumption, WidthAssumption
  <2> QED BY <1>1, <2>1 DEF Init, TypeOK, Sources
<1>4. TwoBeats(ns_out, "ns") /\ TwoBeats(nud_out, "nud") /\ HasRoom(fw_out, "fw")
        /\ HasRoom(rip_out, "rip")
  BY <1>2 DEF Init, TwoBeats, HasRoom, First, Sources
<1> QED BY <1>3, <1>4 DEF Init, BeatsTyped

LEMMA StepTyped == BeatsTyped /\ [Next]_vars => BeatsTyped'
<1> SUFFICES ASSUME BeatsTyped, [Next]_vars PROVE BeatsTyped'
  OBVIOUS
<1>1. CASE UNCHANGED vars
  BY <1>1 DEF vars, BeatsTyped, TypeOK, TwoBeats, HasRoom, First, Beat
<1>2. CASE Next
  <2>1. /\ fw_out' \in Beat /\ HasRoom(fw_out', "fw")
        /\ rip_out' \in Beat /\ HasRoom(rip_out', "rip")
    <3>1. fw_out' \in FW_OUT_REG(fw_out, fw_ready) /\ rip_out' \in FW_OUT_REG(rip_out, rip_ready)
      BY <1>2 DEF Next
    <3>2. fw_out \in Beat /\ rip_out \in Beat /\ HasRoom(fw_out, "fw") /\ HasRoom(rip_out, "rip")
      BY DEF BeatsTyped, TypeOK
    <3> QED BY <3>1, <3>2, RegisterTyped
  <2>2. open' \in Beat /\ alone' \in BOOLEAN
    <3>1. NoBeat \in Beat
      BY FrameAssumption DEF NoBeat, Beat, Sources
    <3>2. open' \in Beat
      BY <1>2, <3>1, OutTyped DEF Next, History, BeatsTyped, TypeOK
    <3>3. alone' \in BOOLEAN
      BY <1>2 DEF Next, History, BeatsTyped, TypeOK, Beat
    <3> QED BY <3>2, <3>3
  <2>3. /\ PipelineNs /\ PipelineNud /\ OutArbiter /\ FrameFilter /\ WidthConverter
        /\ m_ready' \in BOOLEAN
    BY <1>2 DEF Next
  <2> QED BY <2>1, <2>2, <2>3, NsTyped, NudTyped, ArbiterTyped, FilterTyped, ConverterTyped
          DEF BeatsTyped, TypeOK, TwoBeats, HasRoom, First
<1> QED BY <1>1, <1>2

\* Every register of the egress holds a value of its type: no beat number,
\* word count or announcement number runs past its width.
THEOREM TypeCorrect == Spec => []TypeOK
<1>1. BeatsTyped => TypeOK
  BY DEF BeatsTyped
<1> QED BY <1>1, InitTyped, StepTyped, PTL DEF Spec

-----------------------------------------------------------------------------
(* What the arbiter grants. *)

\* A beat that is taken is the beat the filter is shown.
LEMMA FwTaken ==
  ASSUME IInv, fw_out.valid, fw_ready
  PROVE  out = fw_out /\ out_ready
BY DEF IInv, FramesInv, InFrame, fw_ready, out

LEMMA RipTaken ==
  ASSUME IInv, rip_out.valid, rip_ready
  PROVE  out = rip_out /\ out_ready
BY DEF IInv, FramesInv, InFrame, rip_ready, out

\* A pipeline that holds the arbiter is the one shown and the one granted.
LEMMA Holder ==
  /\ state = "fw" => out = fw_out /\ (fw_ready <=> out_ready)
  /\ state = "rip" => out = rip_out /\ (rip_ready <=> out_ready)
BY DEF out, fw_ready, rip_ready

\* A beat shown in IDLE that does not ask for the arbiter is a last one.
LEMMA BusyHidden ==
  ASSUME IInv, state = "IDLE", out.valid
  PROVE  \/ out \in {rip_out, fw_out} /\ Asks(out)
         \/ out \in {ns_out, nud_out} /\ (Asks(out) \/ out.last)
BY DEF IInv, BeatsTyped, FramesInv, InFrame, TwoBeats, out, Asks, First, NoBeat

\* The arbiter goes to a pipeline only from IDLE and for its first beat, and
\* always when it takes that beat.
LEMMA FwGranted ==
  ASSUME IInv
  PROVE  /\ next_state = "fw" /\ state # "fw" => state = "IDLE" /\ fw_out.valid /\ First(fw_out)
         /\ state # "fw" /\ fw_out.valid /\ fw_ready => next_state = "fw"
         /\ state = "fw" => next_state = IF fw_out.valid /\ fw_out.last /\ out_ready
                                         THEN "IDLE" ELSE "fw"
         /\ state # "fw" /\ fw_ready => state = "IDLE"
         /\ state = "IDLE" /\ next_state = "fw" /\ out.valid /\ out_ready =>
              out.last \/ (fw_out.valid /\ fw_ready)
<1>1. state = "IDLE" /\ next_state = "fw" /\ out.valid /\ out_ready =>
        out.last \/ (fw_out.valid /\ fw_ready)
  <2> SUFFICES ASSUME state = "IDLE", next_state = "fw", out.valid, out_ready, ~out.last
               PROVE  fw_out.valid /\ fw_ready
    OBVIOUS
  <2>1. ~Asks(rip_out) /\ ~Asks(ns_out) /\ ~Asks(nud_out) /\ Asks(fw_out)
    BY DEF next_state
  <2>2. ~rip_out.valid /\ ~ns_out.valid /\ ~nud_out.valid
    BY <2>1, BusyHidden DEF out, Asks, IInv, FramesInv, InFrame
  <2> QED BY <2>1, <2>2 DEF fw_ready, Asks
<1> QED BY <1>1, Holder DEF IInv, FramesInv, InFrame, next_state, Asks, fw_ready

LEMMA RipGranted ==
  ASSUME IInv
  PROVE  /\ next_state = "rip" /\ state # "rip" => state = "IDLE" /\ rip_out.valid /\ First(rip_out)
         /\ state # "rip" /\ rip_out.valid /\ rip_ready => next_state = "rip"
         /\ state = "rip" => next_state = IF rip_out.valid /\ rip_out.last /\ out_ready
                                          THEN "IDLE" ELSE "rip"
         /\ state # "rip" /\ rip_ready => state = "IDLE"
         /\ state = "IDLE" /\ next_state = "rip" /\ out.valid /\ out_ready =>
              out.last \/ (rip_out.valid /\ rip_ready)
BY Holder, OutTyped, BusyHidden DEF IInv, FramesInv, InFrame, next_state, Asks, rip_ready

-----------------------------------------------------------------------------
(* Frames through the filter. *)

\* The filter after a beat was taken, and when none was.
LEMMA Filtered ==
  ASSUME IInv, FrameFilter, History
  PROVE  /\ out.valid /\ out_ready =>
              /\ is_first' = out.last
              /\ drop_packet' = drop_current
              /\ drop_current => open' = open
              /\ ~drop_current => open' = IF out.last THEN NoBeat ELSE out
         /\ ~(out.valid /\ out_ready) =>
              is_first' = is_first /\ drop_packet' = drop_packet /\ open' = open
         /\ drop_current => ~open.valid
BY DEF IInv, FramesInv, FrameFilter, History, drop_current, passes, out_ready

\* One register of the forwarding or RIP pipeline through one cycle, from
\* what the arbiter grants it and what the filter does.
LEMMA RegisterInFrame ==
  ASSUME NEW b \in Beat, NEW s, HasRoom(b, s), NEW ready \in BOOLEAN,
         NEW c \in FW_OUT_REG(b, ready),
         NEW st, NEW st1, NEW first \in BOOLEAN, NEW first1, NEW drop \in BOOLEAN, NEW drop1,
         NEW opn, NEW opn1,
         InFrame(b, s, st, first, drop, opn),
         st = s /\ ~(b.valid /\ ready) => first1 = first /\ drop1 = drop /\ opn1 = opn,
         st # s /\ st1 = s => b.valid /\ First(b) /\ first /\ ~opn.valid,
         st # s /\ st1 = s /\ ~(b.valid /\ ready) => first1 /\ ~opn1.valid,
         st # s /\ b.valid /\ ready => st1 = s,
         st = s => (st1 = s <=> ~(b.valid /\ ready /\ b.last)),
         b.valid /\ ready => /\ first1 = b.last
                  /\ LET d == IF first THEN Drop(b) ELSE drop IN
                       /\ drop1 = d
                       /\ opn1 = IF d THEN opn ELSE IF b.last THEN NoBeat ELSE b
  PROVE  InFrame(c, s, st1, first1, drop1, opn1)
<1> DEFINE taken == b.valid /\ ready
<1>1. CASE taken
  <2>1. b.valid /\ c \in NextBeats(b) \cup {Hidden(b)}
    BY <1>1 DEF FW_OUT_REG
  <2>2. CASE b.last
    <3>1. st1 # s
      BY <1>1, <2>2 DEF InFrame, HasRoom
    <3>2. CASE c = Hidden(b)
      BY <3>1, <3>2, <2>2, HiddenTyped DEF InFrame
    <3>3. CASE c \in NextBeats(b)
      <4>1. PICK d \in BOOLEAN :
              c = [b EXCEPT !.valid = TRUE, !.n = 1, !.last = FALSE, !.bad = d]
        BY <3>3, <2>2 DEF NextBeats
      <4>2. c.valid /\ c.n = 1
        BY <4>1 DEF Beat
      <4> QED BY <4>2, <3>1 DEF InFrame, First
    <3> QED BY <2>1, <3>2, <3>3
  <2>3. CASE ~b.last
    <3>1. st1 = s
      BY <1>1, <2>3
    <3>2. Continues(b, b.n, first1, drop1, opn1)
      BY <1>1, <2>1, <2>3 DEF InFrame, Begins, Continues, Drop, First, Beat
    <3>3. CASE c = Hidden(b)
      BY <3>1, <3>2, <3>3, <2>3, HiddenTyped DEF InFrame, Continues
    <3>4. CASE c \in NextBeats(b)
      <4>1. PICK l \in BOOLEAN : c = [b EXCEPT !.valid = TRUE, !.n = b.n + 1, !.last = l]
        BY <3>4, <2>3 DEF NextBeats
      <4>2. c.valid /\ c.n = b.n + 1 /\ c.src = b.src /\ c.bad = b.bad /\ b.n \in Nat \ {0}
        BY <4>1, FrameAssumption DEF Beat
      <4>3. ~First(c) /\ c.n - 1 = b.n
        BY <4>2 DEF First
      <4> QED BY <3>1, <3>2, <4>2, <4>3 DEF InFrame, Continues
    <3> QED BY <2>1, <3>3, <3>4
  <2> QED BY <2>2, <2>3
<1>2. CASE b.valid /\ ~ready
  <2>1. c = b /\ ~taken
    BY <1>2 DEF FW_OUT_REG
  <2> QED BY <2>1, <1>2 DEF InFrame, Begins, Continues
<1>3. CASE ~b.valid
  <2>1. ~taken /\ c \in NextBeats(b) \cup {Hidden(b), b}
    BY <1>3 DEF FW_OUT_REG
  <2>2. CASE st = s
    <3>1. st1 = s /\ ~b.last /\ Continues(b, b.n, first, drop, opn)
      BY <1>3, <2>1, <2>2 DEF InFrame, Begins
    <3>2. Continues(b, b.n, first1, drop1, opn1)
      BY <3>1, <2>1, <2>2
    <3>3. CASE c = Hidden(b) \/ c = b
      BY <3>1, <3>2, <3>3, <1>3, HiddenTyped DEF InFrame, Continues
    <3>4. CASE c \in NextBeats(b)
      <4>1. PICK l \in BOOLEAN : c = [b EXCEPT !.valid = TRUE, !.n = b.n + 1, !.last = l]
        BY <3>4, <3>1 DEF NextBeats
      <4>2. c.valid /\ c.n = b.n + 1 /\ c.src = b.src /\ c.bad = b.bad /\ b.n \in Nat \ {0}
        BY <4>1, FrameAssumption DEF Beat
      <4>3. ~First(c) /\ c.n - 1 = b.n
        BY <4>2 DEF First
      <4> QED BY <3>1, <3>2, <4>2, <4>3 DEF InFrame, Continues
    <3> QED BY <2>1, <3>3, <3>4
  <2>3. CASE st # s
    <3>1. st1 # s /\ b.last
      BY <1>3, <2>3 DEF InFrame
    <3>2. CASE c = Hidden(b) \/ c = b
      BY <3>1, <3>2, <1>3, HiddenTyped DEF InFrame
    <3>3. CASE c \in NextBeats(b)
      <4>1. PICK d \in BOOLEAN :
              c = [b EXCEPT !.valid = TRUE, !.n = 1, !.last = FALSE, !.bad = d]
        BY <3>3, <3>1 DEF NextBeats
      <4>2. c.valid /\ c.n = 1
        BY <4>1 DEF Beat
      <4> QED BY <4>2, <3>1 DEF InFrame, First
    <3> QED BY <2>1, <3>2, <3>3
  <2> QED BY <2>2, <2>3
<1> QED BY <1>1, <1>2, <1>3 DEF Beat

\* What the arbiter and the filter do to the frames of one pipeline, whose
\* register holds b, is granted when ready and is shown when it holds st.
LEMMA FramesKept ==
  ASSUME IInv, Next,
         NEW b \in Beat, NEW s, NEW ready \in BOOLEAN, NEW c \in FW_OUT_REG(b, ready),
         HasRoom(b, s), InFrame(b, s, state, is_first, drop_packet, open),
         b.valid /\ ready => out = b /\ out_ready,
         state = s => out = b /\ (ready <=> out_ready),
         next_state = s /\ state # s => state = "IDLE" /\ b.valid /\ First(b),
         state # s /\ b.valid /\ ready => state = "IDLE" /\ next_state = s,
         state = s => next_state = IF b.valid /\ b.last /\ out_ready THEN "IDLE" ELSE s,
         state = "IDLE" /\ next_state = s /\ out.valid /\ out_ready => out.last \/ (b.valid /\ ready),
         s \in {"fw", "rip"}
  PROVE  InFrame(c, s, state', is_first', drop_packet', open')
<1> DEFINE taken == b.valid /\ ready
<1>1. state' = next_state /\ FrameFilter /\ History
  BY DEF Next, OutArbiter
<1>2. is_first \in BOOLEAN /\ drop_packet \in BOOLEAN /\ taken \in BOOLEAN
  BY DEF IInv, BeatsTyped, TypeOK, Beat
<1>3. state = s /\ ~taken => is_first' = is_first /\ drop_packet' = drop_packet /\ open' = open
  BY <1>1, Filtered
<1>4. state # s /\ state' = s => b.valid /\ First(b) /\ is_first /\ ~open.valid
  BY <1>1 DEF IInv, FramesInv
<1>5. state # s /\ state' = s /\ ~taken => is_first' /\ ~open'.valid
  <2> SUFFICES ASSUME state # s, state' = s, ~taken PROVE is_first' /\ ~open'.valid
    OBVIOUS
  <2>1. is_first /\ ~open.valid /\ state = "IDLE"
    BY <1>1, <1>4
  <2>2. CASE out.valid /\ out_ready
    <3>1. out.last
      BY <2>1, <2>2, <1>1
    <3> QED BY <3>1, <2>1, <2>2, <1>1, Filtered DEF NoBeat
  <2> QED BY <2>1, <2>2, <1>1, Filtered
<1>6. state # s /\ taken => state' = s
  BY <1>1
<1>7. state = s => (state' = s <=> ~(taken /\ b.last))
  BY <1>1
<1>8. taken => /\ is_first' = b.last
               /\ LET d == IF is_first THEN Drop(b) ELSE drop_packet IN
                    /\ drop_packet' = d
                    /\ open' = IF d THEN open ELSE IF b.last THEN NoBeat ELSE b
  BY <1>1, Filtered DEF drop_current
<1> QED BY <1>2, <1>3, <1>4, <1>5, <1>6, <1>7, <1>8, RegisterInFrame

LEMMA InitFrames == Init => FramesInv
<1> SUFFICES ASSUME Init PROVE FramesInv
  OBVIOUS
<1>1. fw_out.src = "fw" /\ ~fw_out.valid /\ fw_out.last
      /\ rip_out.src = "rip" /\ ~rip_out.valid /\ rip_out.last /\ ~open.valid
  BY DEF Init, NoBeat
<1> QED BY <1>1 DEF Init, FramesInv, InFrame

\* Between frames nothing is open, and the arbiter is in IDLE only there.
LEMMA FilterKept ==
  ASSUME IInv, Next
  PROVE  /\ state' = "IDLE" => is_first'
         /\ is_first' \/ drop_packet' => ~open'.valid
<1>1. state' = next_state /\ FrameFilter /\ History
  BY DEF Next, OutArbiter
<1>2. is_first' \/ drop_packet' => ~open'.valid
  BY <1>1, Filtered DEF IInv, FramesInv, NoBeat
<1>3. state' = "IDLE" => is_first'
  <2>1. CASE state # "IDLE"
    <3>1. state' = "IDLE" => out.valid /\ out.last /\ out_ready
      BY <1>1, <2>1 DEF next_state
    <3> QED BY <3>1, <1>1, Filtered
  <2>2. CASE state = "IDLE"
    <3> SUFFICES ASSUME state' = "IDLE" PROVE is_first'
      OBVIOUS
    <3>1. ~Asks(rip_out) /\ ~Asks(ns_out) /\ ~Asks(nud_out) /\ ~Asks(fw_out)
      BY <1>1, <2>2 DEF next_state
    <3>2. out.valid => out.last
      BY <3>1, <2>2, BusyHidden
    <3> QED BY <3>2, <2>2, <1>1, Filtered DEF IInv, FramesInv
  <2> QED BY <2>1, <2>2
<1> QED BY <1>2, <1>3

LEMMA StepFrames == IInv /\ [Next]_vars => FramesInv'
<1> SUFFICES ASSUME IInv, [Next]_vars PROVE FramesInv'
  OBVIOUS
<1>1. CASE UNCHANGED vars
  BY <1>1 DEF vars, IInv, FramesInv, InFrame, Begins, Continues, First
<1>2. CASE Next
  <2>1. InFrame(fw_out', "fw", state', is_first', drop_packet', open')
    <3>1. /\ fw_out \in Beat /\ HasRoom(fw_out, "fw")
          /\ InFrame(fw_out, "fw", state, is_first, drop_packet, open)
          /\ fw_out' \in FW_OUT_REG(fw_out, fw_ready) /\ fw_ready \in BOOLEAN
      BY <1>2 DEF IInv, BeatsTyped, TypeOK, FramesInv, Next, fw_ready
    <3> QED BY <1>2, <3>1, FwTaken, Holder, FwGranted, FramesKept
  <2>2. InFrame(rip_out', "rip", state', is_first', drop_packet', open')
    <3>1. /\ rip_out \in Beat /\ HasRoom(rip_out, "rip")
          /\ InFrame(rip_out, "rip", state, is_first, drop_packet, open)
          /\ rip_out' \in FW_OUT_REG(rip_out, rip_ready) /\ rip_ready \in BOOLEAN
      BY <1>2 DEF IInv, BeatsTyped, TypeOK, FramesInv, Next, rip_ready
    <3> QED BY <1>2, <3>1, RipTaken, Holder, RipGranted, FramesKept
  <2> QED BY <1>2, <2>1, <2>2, FilterKept DEF FramesInv
<1> QED BY <1>1, <1>2

LEMMA IInvAlways == Spec => []IInv
<1>1. Init => IInv
  BY InitTyped, InitFrames DEF IInv
<1>2. IInv /\ [Next]_vars => IInv'
  BY StepTyped, StepFrames DEF IInv
<1> QED BY <1>1, <1>2, PTL DEF Spec

-----------------------------------------------------------------------------
(* What leaves the router. *)

\* A beat that is taken leaves, or its frame is being dropped.
LEMMA TakenLeaves ==
  ASSUME IInv, NEW b \in Beat, NEW s, InFrame(b, s, state, is_first, drop_packet, open),
         b.valid, out = b, out_ready, state \in {"IDLE", s}, s # "IDLE"
  PROVE  IF b.bad THEN ~passes ELSE passes /\ Follows(b)
<1>1. CASE First(b)
  <2>1. is_first /\ ~open.valid
    BY <1>1 DEF IInv, FramesInv, InFrame, Begins
  <2> QED BY <1>1, <2>1 DEF passes, drop_current, out_ready, Drop, Follows
<1>2. CASE ~First(b)
  <2>1. Continues(b, b.n - 1, is_first, drop_packet, open)
    BY <1>2 DEF InFrame, Begins
  <2> QED BY <1>2, <2>1 DEF Continues, passes, drop_current, out_ready, Follows
<1> QED BY <1>1, <1>2

\* What leaves under the name of a pipeline was taken from its register.
LEMMA LeavesTaken ==
  ASSUME IInv, passes
  PROVE  /\ out.src = "fw" => fw_ready
         /\ out.src = "rip" => rip_ready
<1>1. ns_out.src = "ns" /\ nud_out.src = "nud" /\ fw_out.src = "fw" /\ rip_out.src = "rip"
  BY DEF IInv, BeatsTyped, TwoBeats, HasRoom
<1>2. out.valid /\ out_ready /\ ~NoBeat.valid
  BY DEF passes, out_ready, NoBeat
<1>3. out.src = "fw" => fw_ready
  <2> SUFFICES ASSUME out.src = "fw" PROVE fw_ready
    OBVIOUS
  <2>1. state \notin {"ns", "nud", "rip"}
    BY <1>1 DEF out
  <2>2. state \in {"IDLE", "fw"}
    BY <2>1 DEF IInv, BeatsTyped, TypeOK, Sources
  <2>3. state = "IDLE" => ~rip_out.valid /\ ~ns_out.valid /\ ~nud_out.valid
    BY <1>1, <1>2 DEF out
  <2> QED BY <1>2, <2>2, <2>3 DEF fw_ready
<1>4. out.src = "rip" => rip_ready
  <2> SUFFICES ASSUME out.src = "rip" PROVE rip_ready
    OBVIOUS
  <2>1. state \notin {"ns", "nud", "fw"}
    BY <1>1 DEF out
  <2>2. state \in {"IDLE", "rip"}
    BY <2>1 DEF IInv, BeatsTyped, TypeOK, Sources
  <2> QED BY <1>2, <2>2 DEF rip_ready
<1> QED BY <1>3, <1>4

\* Forwarded and RIP frames leave whole, in order and unmixed, or are dropped
\* whole: a beat out_arbiter takes from either pipeline leaves frame_filter in
\* the same cycle, right after the beat before it, unless the first beat of its
\* frame was marked to drop.
THEOREM ForwardedFramesWhole == Spec => []FwRipWhole
<1>1. IInv => FwRipWhole
  <2> SUFFICES ASSUME IInv PROVE FwRipWhole
    OBVIOUS
  <2>1. ASSUME fw_out.valid, fw_ready
        PROVE  IF fw_out.bad THEN ~passes ELSE passes /\ out = fw_out /\ Follows(out)
    <3>1. out = fw_out /\ out_ready /\ state \in {"IDLE", "fw"}
      BY <2>1, FwTaken DEF fw_ready
    <3>2. fw_out \in Beat /\ InFrame(fw_out, "fw", state, is_first, drop_packet, open)
      BY DEF IInv, BeatsTyped, TypeOK, FramesInv
    <3>3. IF fw_out.bad THEN ~passes ELSE passes /\ Follows(fw_out)
      BY <2>1, <3>1, <3>2, TakenLeaves
    <3> QED BY <3>1, <3>3
  <2>2. ASSUME rip_out.valid, rip_ready
        PROVE  IF rip_out.bad THEN ~passes ELSE passes /\ out = rip_out /\ Follows(out)
    <3>1. out = rip_out /\ out_ready /\ state \in {"IDLE", "rip"}
      BY <2>2, RipTaken DEF rip_ready
    <3>2. rip_out \in Beat /\ InFrame(rip_out, "rip", state, is_first, drop_packet, open)
      BY DEF IInv, BeatsTyped, TypeOK, FramesInv
    <3>3. IF rip_out.bad THEN ~passes ELSE passes /\ Follows(rip_out)
      BY <2>2, <3>1, <3>2, TakenLeaves
    <3> QED BY <3>1, <3>3
  <2> QED BY <2>1, <2>2, LeavesTaken DEF FwRipWhole
<1> QED BY <1>1, IInvAlways, PTL

-----------------------------------------------------------------------------
(* The answers of the NS pipeline while it is alone: where ns_state, ns_out  *)
(* one cycle behind it, the arbiter, the filter and the converter stand.    *)

Quiet == ~ns_out.valid
Shows(k) == ns_out = Shown("ns", k, ns_out.bad)
Drained == converter.left = 0 /\ ~converter.valid

\* The first beat is on show and has not been taken; or it has.
Offered == Shows(1) /\ (state = "IDLE" \/ (state = "ns" /\ is_first))
Taken(bad) == /\ state = "ns" /\ ~is_first /\ drop_packet = bad
              /\ ~bad => open = Shown("ns", 1, FALSE)

NsQuiet ==
  ns_state \in {"INIT", "IDLE", "WAIT", "CHECK"} =>
    \/ Quiet /\ state = "IDLE"
    \/ /\ ns_state \in {"INIT", "IDLE"} /\ Shows(2)
       /\ \/ ~ns_out.bad /\ state = "IDLE" /\ converter.left > 0
          \/ ~ns_out.bad /\ Taken(FALSE) /\ Drained
          \/ ns_out.bad /\ Taken(TRUE)
NsFirst ==
  /\ ns_state = "INIT_SEND_1" => ~ns_out.bad
  /\ ns_state = "SEND_1" /\ Shows(1) => ns_out.bad = ~ns_legal
  /\ ns_state \in {"INIT_SEND_1", "SEND_1"} => Offered \/ (Quiet /\ state = "IDLE")
NsBetween ==
  /\ ns_state = "INIT_CHECK" => ~ns_out.bad
  /\ ns_state = "CACHE" => ns_out.bad = ~ns_legal
  /\ ns_state \in {"INIT_CHECK", "CACHE"} =>
       \/ Shows(1) /\ state = "IDLE" /\ Drained
       \/ Shows(1) /\ Taken(ns_out.bad) /\ (~ns_out.bad => converter.left = RATIO - 1)
       \/ ns_state = "INIT_CHECK" /\ Quiet /\ Taken(FALSE)
NsSecond ==
  /\ ns_state = "INIT_SEND_2" => ~ns_out.bad
  /\ ns_state = "SEND_2" => ns_out.bad = ~ns_legal
  /\ ns_state \in {"INIT_SEND_2", "SEND_2"} =>
       \/ ns_state = "INIT_SEND_2" /\ Quiet /\ Taken(FALSE)
       \/ Shows(2) /\ ~ns_out.bad /\ Taken(FALSE)
       \/ /\ ns_state = "SEND_2" /\ Shows(1) /\ Taken(ns_out.bad)
          /\ ~ns_out.bad => converter.left > 0

AloneInv == alone => NsQuiet /\ NsFirst /\ NsBetween /\ NsSecond

\* A cycle in which no other source has a beat.
Lone == ~fw_out.valid /\ ~rip_out.valid /\ ~nud_out.valid

LEMMA LoneCycle ==
  ASSUME IInv, Lone, state \in {"IDLE", "ns"}
  PROVE  /\ out = IF state = "ns" \/ ns_out.valid THEN ns_out ELSE NoBeat
         /\ ns_ready <=> out_ready
BY DEF Lone, out, ns_ready

LEMMA ShowsBeat ==
  ASSUME IInv, NEW k \in {1, 2}, Shows(k)
  PROVE  /\ ns_out.valid /\ ns_out.src = "ns" /\ ns_out.n = k
         /\ ns_out.last <=> k = 2
<1>1. ns_out.valid /\ ns_out.src = "ns" /\ ns_out.n = k
  BY DEF Shows, Shown
<1> QED BY <1>1 DEF IInv, BeatsTyped, TwoBeats

LEMMA ConverterMoves ==
  ASSUME IInv, WidthConverter
  PROVE  /\ passes /\ ~out.last => converter'.left = RATIO - 1
         /\ passes /\ out.src = "ns" /\ out.last => converter'.left > 0
         /\ in_ready /\ ~passes => converter'.left = 0 /\ ~converter'.valid
         /\ converter.left > 0 => /\ ~in_ready /\ ~passes
                                  /\ converter'.left >= converter.left - 1
<1> USE WidthAssumption
<1>0. converter \in [valid : BOOLEAN, left : 0 .. RATIO - 1]
  BY DEF IInv, BeatsTyped, TypeOK
<1>1. CASE in_ready /\ passes
  <2>1. PICK w \in Words(out) : converter' = [valid |-> TRUE, left |-> w - 1]
    BY <1>1 DEF WidthConverter, in_ready
  <2>2. converter'.left = w - 1 /\ converter.left = 0
    BY <1>1, <2>1 DEF in_ready
  <2> QED BY <1>1, <2>1, <2>2 DEF Words
<1>2. CASE in_ready /\ ~passes
  <2>1. converter' = [valid |-> FALSE, left |-> 0] /\ converter.left = 0
    BY <1>2 DEF WidthConverter, in_ready
  <2> QED BY <1>2, <2>1
<1>3. CASE ~in_ready
  <2>1. ~passes
    BY <1>3 DEF passes
  <2>2. \/ converter' = [converter EXCEPT !.left = converter.left - 1]
        \/ converter' = converter
    BY <1>3 DEF WidthConverter
  <2> QED BY <1>0, <1>3, <2>1, <2>2
<1> QED BY <1>1, <1>2, <1>3

\* Nothing is shown: nothing happens, but the converter may run dry.
LEMMA QuietCycle ==
  ASSUME IInv, Next, Lone, Quiet, state = "IDLE"
  PROVE  /\ ~passes /\ state' = "IDLE"
         /\ ns_ready <=> in_ready
         /\ ns_ready => Drained'
<1>1. out = NoBeat /\ ~NoBeat.valid /\ NoBeat.bad = FALSE /\ (ns_ready <=> out_ready)
  BY LoneCycle DEF Quiet, NoBeat
<1>2. ~passes /\ (out_ready <=> in_ready)
  BY <1>1 DEF passes, out_ready, drop_current, Drop, IInv, FramesInv
<1>3. state' = "IDLE"
  BY DEF Next, OutArbiter, next_state, Asks, Lone, Quiet
<1>4. in_ready => Drained'
  BY <1>2, ConverterMoves DEF Next, Drained
<1> QED BY <1>1, <1>2, <1>3, <1>4

\* The first beat is on show: it is taken, or it stays.
LEMMA OfferedCycle ==
  ASSUME IInv, Next, Lone, Offered
  PROVE  /\ out = ns_out /\ state' = "ns" /\ is_first /\ ~open.valid
         /\ ns_ready <=> in_ready \/ ns_out.bad
         /\ ~ns_ready => is_first' = TRUE
         /\ \A d \in BOOLEAN : ns_ready /\ ns_out.bad = d =>
              /\ is_first' = FALSE /\ drop_packet' = d
              /\ ~d => open' = Shown("ns", 1, FALSE) /\ converter'.left = RATIO - 1
<1>1. /\ ns_out.valid /\ ns_out.n = 1 /\ ~ns_out.last /\ state \in {"IDLE", "ns"}
      /\ ns_out \in Beat /\ is_first = TRUE /\ ~open.valid
  BY ShowsBeat DEF Offered, IInv, FramesInv, BeatsTyped, TypeOK
<1>2. out = ns_out /\ (ns_ready <=> out_ready)
  BY <1>1, LoneCycle
<1>3. drop_current = ns_out.bad /\ ns_out.bad \in BOOLEAN
  BY <1>1, <1>2 DEF drop_current, Drop, First, Beat
<1>4. state' = "ns"
  BY <1>1, <1>2 DEF Next, OutArbiter, next_state, Asks, First, Lone
<1>5. ns_ready <=> in_ready \/ ns_out.bad
  BY <1>2, <1>3 DEF out_ready
<1>6. ~ns_ready => is_first' = TRUE
  BY <1>1, <1>2, Filtered DEF Next
<1>7. ASSUME NEW d \in BOOLEAN, ns_ready, ns_out.bad = d
      PROVE  /\ is_first' = FALSE /\ drop_packet' = d
             /\ ~d => open' = Shown("ns", 1, FALSE) /\ converter'.left = RATIO - 1
  <2>1. is_first' = FALSE /\ drop_packet' = d /\ (~d => open' = ns_out)
    BY <1>1, <1>2, <1>3, <1>7, Filtered DEF Next, Beat
  <2>2. ~d => passes /\ ns_out = Shown("ns", 1, FALSE)
    BY <1>1, <1>2, <1>3, <1>5, <1>7 DEF passes, Offered, Shows
  <2>3. ~d => converter'.left = RATIO - 1
    BY <1>1, <1>2, <2>2, ConverterMoves DEF Next
  <2> QED BY <2>1, <2>2, <2>3
<1> QED BY <1>1, <1>2, <1>4, <1>5, <1>6, <1>7

\* The first beat was taken, and the second is not on show yet.
LEMMA TakenCycle ==
  ASSUME IInv, Next, Lone, NEW d \in BOOLEAN, Taken(d), Quiet \/ Shows(1),
         ~d /\ Shows(1) => converter.left > 0
  PROVE  /\ ~passes /\ Taken(d)'
         /\ ns_ready <=> in_ready \/ d
         /\ ~d /\ ns_ready => Drained'
<1>1. out = ns_out /\ (ns_ready <=> out_ready) /\ state = "ns" /\ drop_current = d
  BY LoneCycle DEF Taken, drop_current
<1>2. ~passes
  BY <1>1, ConverterMoves DEF passes, Quiet, Next
<1>3. ns_ready <=> in_ready \/ d
  BY <1>1 DEF out_ready
<1>4. ~d /\ ns_ready => Drained'
  BY <1>1, <1>2, <1>3, ConverterMoves DEF Next, Drained
<1>5. state' = "ns"
  <2>1. ~(out.valid /\ out.last)
    BY <1>1, ShowsBeat DEF Quiet
  <2> QED BY <1>1, <2>1 DEF Next, OutArbiter, next_state
<1>6. ~is_first' /\ drop_packet' = d /\ open' = open
  <2>1. CASE ~(out.valid /\ out_ready)
    BY <2>1, Filtered DEF Next, Taken
  <2>2. CASE out.valid /\ out_ready
    <3>1. Shows(1) /\ ~out.last
      BY <1>1, <2>2, ShowsBeat DEF Quiet
    <3>2. d = TRUE
      BY <1>1, <1>2, <2>2 DEF passes, out_ready
    <3>3. out \in Beat
      BY OutTyped DEF IInv
    <3> QED BY <1>1, <2>2, <3>1, <3>2, <3>3, Filtered DEF Next, Beat, IInv
  <2> QED BY <2>1, <2>2
<1> QED BY <1>2, <1>3, <1>4, <1>5, <1>6 DEF Taken

\* The second beat is on show: it is taken and frees the arbiter, or it stays.
LEMMA SecondCycle ==
  ASSUME IInv, Next, Lone, NEW d \in BOOLEAN, Taken(d), Shows(2)
  PROVE  /\ out = ns_out /\ (passes <=> in_ready /\ ~d)
         /\ ns_ready <=> in_ready \/ d
         /\ ns_ready => state' = "IDLE"
         /\ ~ns_ready => Taken(d)'
         /\ passes => converter'.left > 0
<1>1. out = ns_out /\ (ns_ready <=> out_ready) /\ state = "ns" /\ drop_current = d
  BY LoneCycle DEF Taken, drop_current
<1>2. ns_out.valid /\ ns_out.last /\ ns_out.src = "ns"
  BY ShowsBeat
<1>3. (ns_ready <=> in_ready \/ d) /\ (passes <=> in_ready /\ ~d)
  BY <1>1, <1>2 DEF out_ready, passes
<1>4. passes => converter'.left > 0
  BY <1>1, <1>2, ConverterMoves DEF Next
<1>5. ns_ready => state' = "IDLE"
  BY <1>1, <1>2 DEF Next, OutArbiter, next_state
<1>6. ~ns_ready => Taken(d)'
  BY <1>1, <1>2, Filtered DEF Next, OutArbiter, next_state, Taken
<1> QED BY <1>1, <1>3, <1>4, <1>5, <1>6

\* The second beat was taken and is still on show.
LEMMA LeftoverCycle ==
  ASSUME IInv, Next, Lone, state = "IDLE", Shows(2), ~ns_out.bad, converter.left > 0
  PROVE  ~passes /\ state' = "IDLE" /\ ~ns_ready
<1>1. out = ns_out /\ (ns_ready <=> out_ready) /\ ns_out.n = 2
  BY LoneCycle, ShowsBeat
<1>2. ~passes /\ ~in_ready
  BY ConverterMoves DEF Next
<1>3. ~drop_current
  BY <1>1 DEF drop_current, Drop, IInv, FramesInv
<1> QED BY <1>1, <1>2, <1>3 DEF out_ready, Next, OutArbiter, next_state, Asks, First, Lone

LEMMA ShownFields ==
  ASSUME NEW y, NEW k, NEW d, y = Shown("ns", k, d)
  PROVE  y.valid /\ y.src = "ns" /\ y.n = k /\ y.bad = d
<1>1. PICK l : l = (k = 2)
  OBVIOUS
<1>2. y = [valid |-> TRUE, src |-> "ns", n |-> k, last |-> l, bad |-> d]
  BY <1>1, Zenon DEF Shown
<1> QED BY <1>2

\* What the output register shows in the next cycle.
LEMMA ShownNext ==
  /\ \A k, d : ns_out' = Shown("ns", k, d) => Shows(k)' /\ ns_out'.bad = d
  /\ \A b : ns_out' = Hidden(b) => Quiet' /\ ns_out'.bad = b.bad
  /\ ns_out' = ns_out => (Quiet <=> Quiet') /\ \A k : Shows(k) <=> Shows(k)'
  /\ Quiet' => \A k : ~Shows(k)'
<1>1. \A y, k, d : y = Shown("ns", k, d) => y.bad = d /\ y.valid
  BY ShownFields
<1>2. \A k, d : ns_out' = Shown("ns", k, d) => Shows(k)' /\ ns_out'.bad = d
  BY <1>1 DEF Shows
<1>3. \A b : ns_out' = Hidden(b) => Quiet' /\ ns_out'.bad = b.bad
  BY DEF Hidden, Quiet
<1>4. ns_out' = ns_out => (Quiet <=> Quiet') /\ \A k : Shows(k) <=> Shows(k)'
  BY DEF Shows, Quiet
<1>5. Quiet' => \A k : ~Shows(k)'
  BY <1>1 DEF Shows, Quiet
<1> QED BY <1>2, <1>3, <1>4, <1>5

\* Being alone is found out in NS_INIT and NS_CHECK.
LEMMA AloneBegins ==
  ASSUME Next, alone'
  PROVE  /\ Lone
         /\ ns_state \in {"INIT", "CHECK"} => state' = "IDLE"
         /\ ns_state \notin {"INIT", "CHECK"} => alone
BY DEF Next, History, OutArbiter, Lone

LEMMA QuietStep ==
  ASSUME IInv, AloneInv, Next, alone', ns_state \in {"INIT", "IDLE", "WAIT", "CHECK"}
  PROVE  (NsQuiet /\ NsFirst /\ NsBetween /\ NsSecond)'
<1>1. CASE ns_state = "INIT"
  <2>1. ns_state' = "INIT_SEND_1" /\ ns_out' = Hidden(Shown("ns", 1, FALSE))
    BY <1>1 DEF Next, PipelineNs, NsOut, InitStart, Send, InitCheck, InitSend2, NsIdle,
                NsWait, NsCheck, NsCache, NsSend2, NsMoves
  <2>2. Quiet' /\ ~ns_out'.bad
    BY <2>1, ShownNext DEF Shown
  <2>3. state' = "IDLE"
    BY <1>1, AloneBegins
  <2> QED BY <2>1, <2>2, <2>3, ShownNext DEF NsQuiet, NsFirst, NsBetween, NsSecond
<1>2. CASE ns_state = "CHECK"
  <2>1. ns_state' \in {"CHECK", "SEND_1"} /\ ns_out' = Hidden(ns_out)
    BY <1>2 DEF Next, PipelineNs, NsOut, InitStart, Send, InitCheck, InitSend2, NsIdle,
                NsWait, NsCheck, NsCache, NsSend2, NsMoves
  <2>2. Quiet'
    BY <2>1, ShownNext
  <2>3. state' = "IDLE"
    BY <1>2, AloneBegins
  <2> QED BY <2>1, <2>2, <2>3, ShownNext DEF NsQuiet, NsFirst, NsBetween, NsSecond
<1>3. CASE ns_state \in {"IDLE", "WAIT"}
  <2>1. ns_state' \in {"IDLE", "WAIT", "CHECK", "INIT"} /\ \E b : ns_out' = Hidden(b)
    BY <1>3 DEF Next, PipelineNs, NsOut, InitStart, Send, InitCheck, InitSend2, NsIdle,
                NsWait, NsCheck, NsCache, NsSend2, NsMoves
  <2>2. Quiet'
    BY <2>1, ShownNext
  <2>3. Lone /\ alone
    BY <1>3, AloneBegins
  <2>4. state' = "IDLE"
    <3>1. CASE Quiet /\ state = "IDLE"
      BY <2>3, <3>1, QuietCycle
    <3>2. CASE Shows(2) /\ ~ns_out.bad /\ state = "IDLE" /\ converter.left > 0
      BY <2>3, <3>2, LeftoverCycle
    <3>3. CASE Shows(2) /\ ~ns_out.bad /\ Taken(FALSE) /\ Drained
      <4>1. in_ready
        BY <3>3 DEF Drained, in_ready
      <4> QED BY <2>3, <3>3, <4>1, SecondCycle
    <3>4. CASE Shows(2) /\ ns_out.bad /\ Taken(TRUE)
      BY <2>3, <3>4, SecondCycle
    <3> QED BY <1>3, <2>3, <3>1, <3>2, <3>3, <3>4 DEF AloneInv, NsQuiet
  <2> QED BY <2>1, <2>2, <2>4 DEF NsQuiet, NsFirst, NsBetween, NsSecond
<1> QED BY <1>1, <1>2, <1>3

\* The first beat of an answer.
LEMMA FirstStep ==
  ASSUME IInv, AloneInv, Next, alone', ns_state \in {"INIT_SEND_1", "SEND_1"}
  PROVE  (NsQuiet /\ NsFirst /\ NsBetween /\ NsSecond)'
<1>1. Lone /\ alone
  BY AloneBegins
<1>2. /\ ns_state = "INIT_SEND_1" => ns_state' = IF ns_ready THEN "INIT_CHECK" ELSE "INIT_SEND_1"
      /\ ns_state = "SEND_1" => ns_state' = IF ns_ready THEN "CACHE" ELSE "SEND_1"
      /\ ns_legal' = ns_legal
  BY DEF Next, PipelineNs, InitStart, Send, InitCheck, InitSend2, NsIdle,
         NsWait, NsCheck, NsCache, NsSend2, NsMoves
<1>3. \E d \in BOOLEAN :
        /\ ns_out' = Shown("ns", 1, d)
        /\ ns_state = "INIT_SEND_1" => d = FALSE
        /\ ns_state = "SEND_1" => d = ~ns_legal
        /\ Shows(1) => d = ns_out.bad
  <2>1. CASE ns_state = "INIT_SEND_1"
    <3>1. ns_out' = [ns_out EXCEPT !.valid = TRUE]
      BY <2>1 DEF Next, PipelineNs, NsOut
    <3>2. ns_out \in Beat /\ ns_out.n = 1 /\ ~ns_out.last /\ ns_out.src = "ns" /\ ~ns_out.bad
      BY <1>1, <2>1 DEF IInv, BeatsTyped, TypeOK, TwoBeats, AloneInv, NsFirst
    <3>3. ns_out.last = FALSE /\ ns_out.bad = FALSE
      BY <3>2 DEF Beat
    <3>4. ns_out' = [valid |-> TRUE, src |-> "ns", n |-> 1, last |-> FALSE, bad |-> FALSE]
      BY <3>1, <3>2, <3>3 DEF Beat
    <3>5. ns_out' = Shown("ns", 1, FALSE)
      <4>1. FALSE = (1 = 2)
        OBVIOUS
      <4> QED BY <3>4, <4>1, Zenon DEF Shown
    <3> QED BY <2>1, <3>3, <3>5
  <2>2. CASE ns_state = "SEND_1"
    <3>1. ns_out' = Shown("ns", 1, ~ns_legal) /\ (~ns_legal) \in BOOLEAN
      BY <2>2 DEF Next, PipelineNs, NsOut
    <3> QED BY <1>1, <2>2, <3>1 DEF AloneInv, NsFirst
  <2> QED BY <2>1, <2>2
<1>4. PICK d \in BOOLEAN :
        /\ ns_out' = Shown("ns", 1, d)
        /\ ns_state = "INIT_SEND_1" => d = FALSE
        /\ ns_state = "SEND_1" => d = ~ns_legal
        /\ Shows(1) => d = ns_out.bad
  BY <1>3
<1>5. Shows(1)' /\ ns_out'.bad = d
  BY <1>4, ShownNext
<1>6. IF ns_ready
      THEN \/ state' = "IDLE" /\ Drained'
           \/ Taken(d)' /\ (~d => converter'.left = RATIO - 1)
      ELSE state' = "IDLE" \/ (state' = "ns" /\ is_first' = TRUE)
  <2>1. CASE Quiet /\ state = "IDLE"
    BY <1>1, <2>1, QuietCycle
  <2>2. CASE Offered
    <3>1. d = ns_out.bad
      BY <1>4, <2>2 DEF Offered
    <3> QED BY <1>1, <2>2, <3>1, OfferedCycle DEF Taken
  <2> QED BY <1>1, <2>1, <2>2 DEF AloneInv, NsFirst
<1>7. CASE ns_ready
  <2>1. ns_state' \in {"INIT_CHECK", "CACHE"} /\ NsBetween'
    BY <1>2, <1>4, <1>5, <1>6, <1>7 DEF NsBetween
  <2> QED BY <2>1 DEF NsQuiet, NsFirst, NsSecond
<1>8. CASE ~ns_ready
  <2>1. ns_state' \in {"INIT_SEND_1", "SEND_1"} /\ NsFirst'
    BY <1>2, <1>4, <1>5, <1>6, <1>8 DEF NsFirst, Offered
  <2> QED BY <2>1 DEF NsQuiet, NsBetween, NsSecond
<1> QED BY <1>7, <1>8

\* Between the beats.
LEMMA BetweenStep ==
  ASSUME IInv, AloneInv, Next, alone', ns_state \in {"INIT_CHECK", "CACHE"}
  PROVE  (NsQuiet /\ NsFirst /\ NsBetween /\ NsSecond)'
<1>1. Lone /\ alone /\ NsBetween /\ ns_out \in Beat
  BY AloneBegins DEF AloneInv, IInv, BeatsTyped, TypeOK
<1>2. PICK d \in BOOLEAN : d = ns_out.bad
  BY <1>1 DEF Beat
<1>3. Taken(d)' /\ (~d /\ Shows(1) => converter'.left > 0)
  <2>1. CASE Shows(1) /\ state = "IDLE" /\ Drained
    <3>1. in_ready /\ Offered
      BY <2>1 DEF Drained, in_ready, Offered
    <3>2. ns_ready /\ state' = "ns" /\ is_first' = FALSE /\ drop_packet' = d
          /\ (~d => open' = Shown("ns", 1, FALSE) /\ converter'.left = RATIO - 1)
      BY <1>1, <1>2, <3>1, OfferedCycle
    <3>3. Taken(d)'
      BY <3>2 DEF Taken
    <3>4. RATIO - 1 > 0
      BY WidthAssumption
    <3> QED BY <3>2, <3>3, <3>4
  <2>2. CASE Shows(1) /\ Taken(ns_out.bad) /\ (~ns_out.bad => converter.left = RATIO - 1)
    <3>1. ~d => converter.left > 1 /\ converter.left > 0
      BY <1>2, <2>2, WidthAssumption
    <3>2. ~d => converter'.left >= converter.left - 1
      BY <3>1, ConverterMoves DEF Next
    <3>3. converter \in [valid : BOOLEAN, left : 0 .. RATIO - 1]
          /\ converter' \in [valid : BOOLEAN, left : 0 .. RATIO - 1]
      BY StepTyped DEF IInv, BeatsTyped, TypeOK
    <3> QED BY <1>1, <1>2, <2>2, <3>1, <3>2, <3>3, TakenCycle, WidthAssumption
  <2>3. CASE ns_state = "INIT_CHECK" /\ Quiet /\ Taken(FALSE)
    <3>1. ~d /\ ~Shows(1)
      BY <1>1, <1>2, <2>3, ShowsBeat DEF NsBetween, Quiet
    <3> QED BY <1>1, <1>2, <2>3, <3>1, TakenCycle
  <2> QED BY <1>1, <2>1, <2>2, <2>3 DEF NsBetween
<1>4. CASE ns_state = "INIT_CHECK"
  <2>1. ns_state' \in {"INIT_CHECK", "INIT_SEND_2"} /\ ns_out' = Hidden(ns_out)
    BY <1>4 DEF Next, PipelineNs, NsOut, InitStart, Send, InitCheck, InitSend2, NsIdle,
                NsWait, NsCheck, NsCache, NsSend2, NsMoves
  <2>2. Quiet' /\ ns_out'.bad = d /\ ~d
    BY <1>1, <1>2, <1>4, <2>1, ShownNext DEF NsBetween
  <2> QED BY <1>3, <2>1, <2>2 DEF NsQuiet, NsFirst, NsBetween, NsSecond
<1>5. CASE ns_state = "CACHE"
  <2>1. ns_state' = "SEND_2" /\ ns_legal' = ns_legal /\ ns_out' = ns_out
    BY <1>5 DEF Next, PipelineNs, NsOut, InitStart, Send, InitCheck, InitSend2, NsIdle,
                NsWait, NsCheck, NsCache, NsSend2, NsMoves
  <2>2. Shows(1) /\ ns_out.bad = ~ns_legal
    BY <1>1, <1>5 DEF NsBetween
  <2>3. Shows(1)'
    BY <2>1, <2>2, ShownNext
  <2> QED BY <1>2, <1>3, <2>1, <2>2, <2>3 DEF NsQuiet, NsFirst, NsBetween, NsSecond
<1> QED BY <1>4, <1>5

\* The second beat.
LEMMA SecondStep ==
  ASSUME IInv, AloneInv, Next, alone', ns_state \in {"INIT_SEND_2", "SEND_2"}
  PROVE  (NsQuiet /\ NsFirst /\ NsBetween /\ NsSecond)'
<1>1. Lone /\ alone /\ NsSecond /\ ns_out \in Beat
  BY AloneBegins DEF AloneInv, IInv, BeatsTyped, TypeOK
<1>2. /\ ns_state = "INIT_SEND_2" => ns_state' \in IF ns_ready THEN {"INIT", "IDLE"}
                                                 ELSE {"INIT_SEND_2"}
      /\ ns_state = "SEND_2" => ns_state' = IF ns_ready THEN "IDLE" ELSE "SEND_2"
      /\ ~ns_ready => ns_legal' = ns_legal
      /\ ns_out' = Shown("ns", 2, ns_out.bad)
  BY DEF Next, PipelineNs, NsOut, InitStart, Send, InitCheck, InitSend2, NsIdle,
         NsWait, NsCheck, NsCache, NsSend2, NsMoves
<1>3. Shows(2)' /\ ns_out'.bad = ns_out.bad
  BY <1>2, ShownNext
<1>4. CASE ~ns_out.bad
  <2>1. IF ns_ready
        THEN \/ state' = "IDLE" /\ converter'.left > 0
             \/ Taken(FALSE)' /\ Drained' /\ ns_state = "INIT_SEND_2"
        ELSE Taken(FALSE)'
    <3>1. CASE ns_state = "INIT_SEND_2" /\ Quiet /\ Taken(FALSE)
      <4>1. ~Shows(1)
        BY <3>1, ShowsBeat DEF Quiet
      <4> QED BY <1>1, <3>1, <4>1, TakenCycle
    <3>2. CASE Shows(2) /\ Taken(FALSE)
      BY <1>1, <3>2, SecondCycle
    <3>3. CASE ns_state = "SEND_2" /\ Shows(1) /\ Taken(ns_out.bad) /\ converter.left > 0
      <4>1. Taken(FALSE)
        BY <1>1, <1>4, <3>3 DEF Taken, Beat
      <4>2. ~in_ready
        BY ConverterMoves, <3>3 DEF Next
      <4> QED BY <1>1, <3>3, <4>1, <4>2, TakenCycle
    <3> QED BY <1>1, <1>4, <3>1, <3>2, <3>3 DEF NsSecond
  <2>2. CASE ns_ready
    <3>1. ns_state' \in {"INIT", "IDLE"}
      BY <1>2, <2>2
    <3> QED BY <1>3, <1>4, <2>1, <2>2, <3>1 DEF NsQuiet, NsFirst, NsBetween, NsSecond
  <2>3. CASE ~ns_ready
    <3>1. ns_state' = ns_state /\ (ns_state = "SEND_2" => ns_out.bad = ~ns_legal')
      BY <1>1, <1>2, <2>3 DEF NsSecond
    <3> QED BY <1>3, <1>4, <2>1, <2>3, <3>1 DEF NsQuiet, NsFirst, NsBetween, NsSecond
  <2> QED BY <2>2, <2>3
<1>5. CASE ns_out.bad
  <2>1. ns_state = "SEND_2" /\ Shows(1) /\ Taken(TRUE)
    BY <1>1, <1>5 DEF NsSecond, Taken, Beat
  <2>2. ns_ready /\ Taken(TRUE)'
    BY <1>1, <2>1, TakenCycle
  <2> QED BY <1>2, <1>3, <1>5, <2>1, <2>2 DEF NsQuiet, NsFirst, NsBetween, NsSecond
<1> QED BY <1>4, <1>5

LEMMA StepAlone == IInv /\ AloneInv /\ [Next]_vars => AloneInv'
<1> SUFFICES ASSUME IInv, AloneInv, [Next]_vars, alone'
             PROVE  (NsQuiet /\ NsFirst /\ NsBetween /\ NsSecond)'
  BY DEF AloneInv
<1>1. CASE UNCHANGED vars
  BY <1>1 DEF vars, AloneInv, NsQuiet, NsFirst, NsBetween, NsSecond, Quiet, Shows, Drained,
              Offered, Taken
<1>2. CASE Next
  <2>1. ns_state \in {"INIT", "INIT_SEND_1", "INIT_CHECK", "INIT_SEND_2", "IDLE", "WAIT",
                      "CHECK", "SEND_1", "CACHE", "SEND_2"}
    BY DEF IInv, BeatsTyped, TypeOK
  <2> QED BY <1>2, <2>1, QuietStep, FirstStep, BetweenStep, SecondStep
<1> QED BY <1>1, <1>2

LEMMA InitAlone == Init => AloneInv
BY DEF Init, AloneInv, NsQuiet, NsFirst, NsBetween, NsSecond, Quiet, NoBeat

\* The cases above by what is on show.
LEMMA NsStands ==
  ASSUME IInv, AloneInv, alone
  PROVE  \/ Quiet
         \/ Offered
         \/ Shows(2) /\ state = "IDLE" /\ converter.left > 0
         \/ Shows(2) /\ ~ns_out.bad /\ Taken(FALSE)
         \/ Shows(2) /\ ns_out.bad /\ Taken(TRUE)
         \/ Shows(1) /\ Taken(ns_out.bad) /\ (~ns_out.bad => converter.left > 0)
<1>1. ns_state \in {"INIT", "INIT_SEND_1", "INIT_CHECK", "INIT_SEND_2", "IDLE", "WAIT",
                    "CHECK", "SEND_1", "CACHE", "SEND_2"}
  BY DEF IInv, BeatsTyped, TypeOK
<1>2. CASE ns_state \in {"INIT_CHECK", "CACHE"}
  <2>1. converter.left = RATIO - 1 => converter.left > 0
    BY WidthAssumption
  <2> QED BY <1>2, <2>1 DEF AloneInv, NsBetween, Offered
<1> QED BY <1>1, <1>2 DEF AloneInv, NsQuiet, NsFirst, NsSecond

\* An answer the NS pipeline sends while no other pipeline has a beat leaves
\* whole, once, and only to a legal NS: what ns_out goes on showing after it was
\* taken is held back by the converter, which needs RATIO cycles for a full beat
\* and TAIL for the last one.
THEOREM AnswersWholeAlone == Spec => []NaWholeAlone
<1>1. IInv /\ AloneInv => NaWholeAlone
  <2> SUFFICES ASSUME IInv, AloneInv, alone PROVE NaWholeAlone
    BY DEF NaWholeAlone
  <2>1. ASSUME passes, out.src = "ns"
        PROVE  Follows(out) /\ ~out.bad
    <3>1. out = ns_out /\ out.valid /\ ~drop_current /\ in_ready /\ ns_out \in Beat
      BY <2>1, OutTyped DEF passes, NoBeat, IInv, BeatsTyped, TypeOK, TwoBeats, HasRoom
    <3>2. ~(converter.left > 0)
      BY <3>1, WidthAssumption DEF in_ready, IInv, BeatsTyped, TypeOK
    <3>3. Offered \/ (Shows(2) /\ ~ns_out.bad /\ Taken(FALSE))
      BY <3>1, <3>2, NsStands DEF Quiet, Taken, drop_current, Beat
    <3>4. CASE Offered
      <4>1. is_first /\ ~open.valid /\ First(out)
        BY <3>1, <3>4, ShowsBeat DEF Offered, IInv, FramesInv, First
      <4> QED BY <3>1, <4>1 DEF Follows, drop_current, Drop
    <3>5. CASE Shows(2) /\ ~ns_out.bad /\ Taken(FALSE)
      <4>1. open.valid /\ open.src = "ns" /\ open.n = 1 /\ open.bad = FALSE
        <5>1. PICK d : d = FALSE /\ open = Shown("ns", 1, d)
          BY <3>5 DEF Taken
        <5>2. open.valid /\ open.src = "ns" /\ open.n = 1 /\ open.bad = d
          BY <5>1, ShownFields
        <5> QED BY <5>1, <5>2
      <4>2. out.n = 2 /\ out.src = "ns" /\ out.bad = FALSE
        BY <3>1, <3>5, ShowsBeat DEF Beat
      <4>3. ~First(out) /\ open.n = out.n - 1
        BY <4>1, <4>2 DEF First
      <4> QED BY <4>1, <4>2, <4>3 DEF Follows
    <3> QED BY <3>3, <3>4, <3>5
  <2>2. ASSUME ns_state = "SEND_2", ns_ready, ns_legal
        PROVE  passes /\ out = Shown("ns", 2, FALSE)
    <3>1. ns_out.bad = FALSE /\ NsSecond
      BY <2>2 DEF AloneInv, NsSecond, IInv, BeatsTyped, TypeOK, Beat
    <3>2. Taken(FALSE) /\ (Shows(2) \/ converter.left > 0)
      BY <2>2, <3>1 DEF NsSecond
    <3>3. out = ns_out /\ out_ready /\ ~drop_current
      BY <2>2, <3>2 DEF Taken, ns_ready, out, drop_current
    <3>4. in_ready /\ ~(converter.left > 0)
      BY <3>3 DEF out_ready, in_ready
    <3>5. ns_out.valid
      BY <3>2, <3>4, ShowsBeat
    <3> QED BY <3>1, <3>2, <3>3, <3>4, <3>5 DEF passes, Shows
  <2> QED BY <2>1, <2>2 DEF NaWholeAlone
<1>2. Init => IInv /\ AloneInv
  BY InitTyped, InitFrames, InitAlone DEF IInv
<1>3. IInv /\ AloneInv /\ [Next]_vars => (IInv /\ AloneInv)'
  BY StepTyped, StepFrames, StepAlone DEF IInv
<1> QED BY <1>1, <1>2, <1>3, PTL DEF Spec

=============================================================================
