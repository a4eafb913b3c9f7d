------------------------------- MODULE DmaLink -------------------------------
(***************************************************************************)
(* How RIPng packets cross between the datapath and the firmware: the DMA  *)
(* engine (wb/dma.sv), its registers (wb/dma_adapter.sv, include/dma.h),   *)
(* the firmware that drives them (main.c, send_response in protocol.c),    *)
(* the input frame filter and the entry of the RIP pipeline.               *)
(*                                                                         *)
(* Abstractions.  A packet is Words words long and a word stands for a     *)
(* beat of the pipeline too; a word holds the packet it belongs to.  A     *)
(* checksum is the sequence of words it was computed over.  What a packet  *)
(* says is chosen freely: only the ports its answers go to matter here.    *)
(*                                                                         *)
(* Timing.  CPU, engine and datapath share one clock.  Actions interleave  *)
(* freely except where the clock leaves no choice: see Settled (a register *)
(* write takes longer than one transition of the engine) and WriteWord     *)
(* (the words of a frame arrive faster than SRAM takes them).  The output  *)
(* arbiter takes beats when it likes: packets may pile up before it while  *)
(* the engine goes on.                                                     *)
(***************************************************************************)
EXTENDS Integers, Sequences

CONSTANTS
  PORT_NUM,             \* router ports, 4 in the code
  Words,                \* words of a packet
  InFull,               \* prog_full threshold of the input FIFO, 640
  InCap,                \* words the input FIFO holds, 1024
  OutCap                \* words the output FIFO holds, 1024

ASSUME PortsAssumption == PORT_NUM \in Nat \ {0}
ASSUME WordsAssumption == Words \in Nat /\ Words >= 3
\* The input FIFO still has room for a frame when it is not full; the output
\* FIFO holds two packets, as the comment at pipeline_rip.sv:24 demands.
ASSUME RoomAssumption ==
  /\ InFull \in Nat \ {0} /\ InCap \in Nat /\ InCap >= InFull + Words - 1
  /\ OutCap \in Nat /\ OutCap >= 2 * Words

Ports == 0 .. PORT_NUM - 1

VARIABLES
  pc, job, queue,       \* firmware: where, why, ports still to send to
  wpos,                 \* word of the packet being assembled
  due,                  \* the multicast timer has expired
  rested,               \* ... and may expire again
  stb, we, out_port,    \* DMA_CPU_STB, DMA_CPU_WE, DMA_OUT_PORT_ID
  state, pos,           \* engine state, words it has moved
  dma_port_id,          \* DMA_IN_PORT_ID
  wbuf, rbuf,           \* DMA_BLOCK_WADDR, DMA_BLOCK_RADDR
  inFifo, frame,        \* input FIFO; the frame now arriving
  outFifo,              \* output FIFO
  acc, checksum, checksum_valid,
  pipe, wire,           \* RIP pipeline: progress, beats of the packet let in
  fresh,                \* history: no transfer since the last packet was read
  accepted              \* history: accepted packets the firmware has not seen

cpu == <<pc, job, queue, wpos, due, rested>>
regs == <<stb, we, out_port>>
engine == <<state, pos, dma_port_id, acc, checksum, checksum_valid, fresh>>
input == <<inFifo, frame, accepted>>
output == <<pipe, wire>>
vars == <<cpu, regs, engine, wbuf, rbuf, input, outFifo, output>>

\* Packets are told apart by their kind and port: confusing two of them shows
\* when these differ.
Packet == [kind : {"none", "in", "request", "update"}, port : Ports]
NoPacket == [kind |-> "none", port |-> 0]
Blank == [k \in 1 .. Words |-> NoPacket]
InWord == [pkt : Packet, last : BOOLEAN]
OutWord == [pkt : Packet, port : Ports, last : BOOLEAN]

Typed(s, S, n) == Len(s) =< n /\ \A k \in 1 .. Len(s) : s[k] \in S

\* Every variable has its type; no FIFO and no buffer overflows.
TypeOK ==
  /\ pc \in {"assemble", "sync", "grant", "await", "loop", "process"}
  /\ job \in {"boot", "sweep", "reply"}
  /\ Typed(queue, Ports, PORT_NUM)
  /\ wpos \in 1 .. Words
  /\ due \in BOOLEAN /\ rested \in BOOLEAN
  /\ stb \in BOOLEAN /\ we \in BOOLEAN /\ out_port \in Ports
  /\ state \in {"IDLE", "READ", "WRITE", "DONE"} /\ pos \in 0 .. Words
  /\ dma_port_id \in Ports
  /\ wbuf \in [1 .. Words -> Packet] /\ rbuf \in [1 .. Words -> Packet]
  /\ Typed(inFifo, InWord, InCap)
  /\ frame \in [pkt : Packet, pos : 0 .. Words, drop : BOOLEAN]
  /\ Typed(outFifo, OutWord, OutCap)
  /\ Typed(acc, Packet, Words) /\ Typed(checksum, Packet, Words)
  /\ checksum_valid \in BOOLEAN
  /\ pipe \in {"first", "second", "rest"}
  /\ Typed(wire, OutWord, Words)
  /\ fresh \in BOOLEAN
  /\ Typed(accepted, Packet, InCap)

-----------------------------------------------------------------------------
(* Frames from the datapath: the filter keeps or drops a whole frame by    *)
(* what it sees at its first word.                                         *)

\* Mutant: the filter looks only for a free word.
FullAtLastWord == Len(inFifo) >= InCap
Full == Len(inFifo) >= InFull

NoFrame == [pkt |-> NoPacket, pos |-> 0, drop |-> FALSE]

Arrive ==
  \E p \in Ports :
    LET first == frame.pos = 0
        pkt == IF first THEN [kind |-> "in", port |-> p] ELSE frame.pkt
        drop == IF first THEN Full ELSE frame.drop
        last == frame.pos + 1 = Words
    IN  /\ frame' = IF last THEN NoFrame
                             ELSE [pkt |-> pkt, pos |-> frame.pos + 1, drop |-> drop]
        /\ inFifo' = IF drop THEN inFifo
                             ELSE Append(inFifo, [pkt |-> pkt, last |-> last])
        /\ accepted' = IF first /\ ~drop THEN Append(accepted, pkt) ELSE accepted
        /\ UNCHANGED <<cpu, regs, engine, wbuf, rbuf, outFifo, output>>

-----------------------------------------------------------------------------
(* The engine. *)

\* Mutant: a new read leaves the old checksum valid.
ValidKept == checksum_valid
ValidAtStart == we /\ checksum_valid

StartTransfer ==
  /\ state = "IDLE" /\ stb
  /\ state' = IF we THEN "WRITE" ELSE "READ"
  /\ pos' = 0
  /\ checksum_valid' = ValidAtStart
  /\ fresh' = FALSE
  /\ UNCHANGED <<cpu, regs, dma_port_id, acc, checksum, wbuf, rbuf, input, outFifo, output>>

\* Mutant: the in-port register follows the frame now arriving.
PortArriving == frame'.pkt.port
PortLatched == IF Head(inFifo).last THEN Head(inFifo).pkt.port ELSE dma_port_id

\* A frame arrives without gaps, so its next word is there.  Words written are
\* summed like words read, and DONE publishes the sum of either.
WriteWord ==
  /\ state = "WRITE" /\ inFifo # <<>>
  /\ wbuf' = [wbuf EXCEPT ![pos + 1] = Head(inFifo).pkt]
  /\ inFifo' = Tail(inFifo)
  /\ UNCHANGED <<frame, accepted>>
  /\ dma_port_id' = PortLatched
  /\ pos' = pos + 1 /\ acc' = Append(acc, Head(inFifo).pkt)
  /\ IF Head(inFifo).last THEN state' = "DONE" /\ checksum' = acc'
                          ELSE UNCHANGED <<state, checksum>>
  /\ UNCHANGED <<cpu, regs, checksum_valid, fresh, rbuf, outFifo, output>>

\* Mutant: one word too many is read.
LastReadLate == pos = Words
LastRead == pos + 1 >= Words

ReadWord ==
  /\ state = "READ" /\ Len(outFifo) < OutCap
  /\ outFifo' = Append(outFifo, [pkt |-> rbuf[pos + 1], port |-> out_port, last |-> LastRead])
  /\ acc' = Append(acc, rbuf[pos + 1])
  /\ pos' = pos + 1
  /\ IF LastRead
     THEN state' = "DONE" /\ checksum' = acc' /\ checksum_valid' = TRUE /\ fresh' = TRUE
     ELSE UNCHANGED <<state, checksum, checksum_valid, fresh>>
  /\ UNCHANGED <<cpu, regs, dma_port_id, wbuf, rbuf, input, output>>

Release ==
  /\ state = "DONE" /\ ~stb
  /\ state' = "IDLE" /\ acc' = <<>>
  /\ UNCHANGED <<cpu, regs, pos, dma_port_id, checksum, checksum_valid, fresh,
                 wbuf, rbuf, input, outFifo, output>>

Engine == StartTransfer \/ WriteWord \/ ReadWord \/ Release

-----------------------------------------------------------------------------
(* The entry of the RIP pipeline.  It has room for a beat whenever the      *)
(* output arbiter has taken an earlier one, so any beat may have to wait.  *)
(* The first beat of a packet waits for a valid checksum as well, and the  *)
(* second takes the checksum in the cycle it is let in.                    *)

\* Mutant: every beat waits for a valid checksum.
EveryBeatGated == checksum_valid
Gate == pipe = "first" => checksum_valid

Beat ==
  /\ outFifo # <<>> /\ Gate
  /\ outFifo' = Tail(outFifo)
  /\ IF Head(outFifo).last
     THEN pipe' = "first" /\ wire' = <<>>
     ELSE /\ pipe' = IF pipe = "first" THEN "second" ELSE "rest"
          /\ wire' = Append(wire, Head(outFifo))
  /\ UNCHANGED <<cpu, regs, engine, wbuf, rbuf, input>>

-----------------------------------------------------------------------------
(* The firmware. *)

EveryPort == [p \in 1 .. PORT_NUM |-> p - 1]

\* The engine has left DONE since STB was cleared.
Settled == state # "DONE"

Expire ==
  /\ ~due /\ rested
  /\ due' = TRUE
  /\ UNCHANGED <<pc, job, queue, wpos, rested, regs, engine, wbuf, rbuf,
                 input, outFifo, output>>

\* assemble and send_multicast_request write the packet word by word.
Assemble ==
  /\ pc = "assemble"
  /\ rbuf' = [rbuf EXCEPT ![wpos] =
       [kind |-> IF job = "boot" THEN "request" ELSE "update", port |-> Head(queue)]]
  /\ IF wpos < Words
     THEN wpos' = wpos + 1 /\ UNCHANGED pc
     ELSE /\ wpos' = 1
          /\ pc' = IF job = "boot" THEN "grant" ELSE "sync"
  /\ UNCHANGED <<job, queue, due, rested, regs, engine, wbuf, input, outFifo, output>>

\* Mutant: the out port is written before the wait.
SyncPortFirst ==
  /\ pc = "sync" /\ out_port' = Head(queue)
  /\ IF stb /\ state # "DONE" THEN UNCHANGED <<pc, stb>>
                              ELSE pc' = "grant" /\ stb' = FALSE
  /\ UNCHANGED <<job, queue, wpos, due, rested, we, engine, wbuf, rbuf,
                 input, outFifo, output>>
\* if (_check_dma_busy()) _wait_for_dma(); then clear STB.
Sync ==
  /\ pc = "sync"
  /\ stb => state = "DONE"
  /\ stb' = FALSE
  /\ pc' = "grant"
  /\ UNCHANGED <<job, queue, wpos, due, rested, we, out_port, engine,
                 wbuf, rbuf, input, outFifo, output>>

Grant ==
  /\ pc = "grant" /\ Settled
  /\ out_port' = Head(queue) /\ we' = FALSE /\ stb' = TRUE
  /\ queue' = Tail(queue)
  /\ pc' = CASE job = "boot" -> "await"
             [] job # "boot" /\ Tail(queue) # <<>> -> "assemble"
             [] job = "sweep" /\ Tail(queue) = <<>> -> "await"
             [] job = "reply" /\ Tail(queue) = <<>> -> "loop"
  /\ UNCHANGED <<job, wpos, due, rested, engine, wbuf, rbuf, input, outFifo, output>>

\* Mutant: a boot request is not waited for.
AwaitBootBlind ==
  /\ pc = "await" /\ job = "boot"
  /\ stb' = FALSE
  /\ IF queue # <<>> THEN out_port' = Head(queue) /\ pc' = "assemble"
                     ELSE UNCHANGED out_port /\ pc' = "loop"
  /\ UNCHANGED <<job, queue, wpos, due, rested, we, engine, wbuf, rbuf,
                 input, outFifo, output>>
\* Each request of start() is waited for; the next one names its port first.
AwaitBoot ==
  /\ pc = "await" /\ job = "boot" /\ state = "DONE"
  /\ stb' = FALSE
  /\ IF queue # <<>> THEN out_port' = Head(queue) /\ pc' = "assemble"
                     ELSE UNCHANGED out_port /\ pc' = "loop"
  /\ UNCHANGED <<job, queue, wpos, due, rested, we, engine, wbuf, rbuf,
                 input, outFifo, output>>

\* Mutant: the multicast timer is not reset.
TimerKept == UNCHANGED <<due, rested>>
TimerReset == due' = FALSE /\ rested' = FALSE

AwaitSweep ==
  /\ pc = "await" /\ job = "sweep" /\ state = "DONE"
  /\ pc' = "loop" /\ TimerReset
  /\ UNCHANGED <<job, queue, wpos, regs, engine, wbuf, rbuf, input, outFifo, output>>

StartSweep ==
  /\ pc = "loop" /\ ~stb /\ due
  /\ pc' = "assemble" /\ job' = "sweep" /\ queue' = EveryPort
  /\ UNCHANGED <<wpos, due, rested, regs, engine, wbuf, rbuf, input, outFifo, output>>

GrantInput ==
  /\ pc = "loop" /\ ~stb /\ ~due /\ inFifo # <<>> /\ Settled
  /\ we' = TRUE /\ stb' = TRUE
  /\ rested' = TRUE
  /\ UNCHANGED <<pc, job, queue, wpos, due, out_port, engine, wbuf, rbuf,
                 input, outFifo, output>>

\* A turn of the loop with nothing to do.
Idle ==
  /\ pc = "loop" /\ ~stb /\ ~due /\ inFifo = <<>> /\ ~rested
  /\ rested' = TRUE
  /\ UNCHANGED <<pc, job, queue, wpos, due, regs, engine, wbuf, rbuf,
                 input, outFifo, output>>

AckOut ==
  /\ pc = "loop" /\ stb /\ ~we /\ state = "DONE"
  /\ stb' = FALSE
  /\ UNCHANGED <<cpu, we, out_port, engine, wbuf, rbuf, input, outFifo, output>>

\* Mutant: the packet is processed without looking at ACK.
AckInBlind ==
  /\ pc = "loop" /\ stb /\ we
  /\ stb' = FALSE /\ pc' = "process"
  /\ UNCHANGED <<job, queue, wpos, due, rested, we, out_port, engine,
                 wbuf, rbuf, input, outFifo, output>>
AckIn ==
  /\ pc = "loop" /\ stb /\ we /\ state = "DONE"
  /\ stb' = FALSE /\ pc' = "process"
  /\ UNCHANGED <<job, queue, wpos, due, rested, we, out_port, engine,
                 wbuf, rbuf, input, outFifo, output>>

\* disassemble: no answer, an answer to the sender, or a triggered update.
Disassemble ==
  /\ pc = "process"
  /\ accepted' = Tail(accepted) /\ UNCHANGED <<inFifo, frame>>
  /\ job' = "reply"
  /\ queue' \in {<<>>, <<dma_port_id>>, EveryPort}
  /\ pc' = IF queue' = <<>> THEN "loop" ELSE "assemble"
  /\ UNCHANGED <<wpos, due, rested, regs, engine, wbuf, rbuf, outFifo, output>>

Firmware ==
  \/ Assemble \/ Sync \/ Grant \/ AwaitBoot \/ AwaitSweep
  \/ StartSweep \/ GrantInput \/ Idle \/ AckOut \/ AckIn \/ Disassemble

-----------------------------------------------------------------------------
Init ==
  /\ pc = "assemble" /\ job = "boot" /\ queue = EveryPort
  /\ wpos = 1
  /\ due = FALSE /\ rested = TRUE
  /\ stb = FALSE /\ we = FALSE /\ out_port = 0
  /\ state = "IDLE" /\ pos = 0 /\ dma_port_id = 0
  /\ wbuf = Blank /\ rbuf = Blank
  /\ inFifo = <<>> /\ accepted = <<>>
  /\ frame = NoFrame
  /\ outFifo = <<>>
  /\ acc = <<>> /\ checksum = <<>> /\ checksum_valid = FALSE
  /\ pipe = "first" /\ wire = <<>>
  /\ fresh = FALSE

Next == Arrive \/ Expire \/ Engine \/ Beat \/ Firmware

Spec == Init /\ [][Next]_vars

\* Hardware and firmware never stop; frames and timers may, and the output
\* arbiter may serve others for ever (see ArbiterReturns).
FairSpec == Spec /\ WF_vars(Engine) /\ WF_vars(Firmware)
                 /\ WF_vars(frame.pos # 0 /\ Arrive)

-----------------------------------------------------------------------------
(* Properties. *)

\* The firmware is working on the packet in wbuf.
Reading == pc = "process" \/ (job = "reply" /\ pc \in {"assemble", "sync", "grant"})

\* The packet handed to disassemble is complete, is the oldest one the filter
\* accepted, and comes with the port it came in by: no accepted packet is
\* lost, torn or processed twice.
InputIntact ==
  pc = "process" =>
    /\ accepted # <<>>
    /\ \A k \in 1 .. Words : wbuf[k] = Head(accepted)
    /\ dma_port_id = Head(accepted).port

\* No later frame is written over the packet while it is being worked on,
\* however many answers are sent meanwhile.
InputHeld == [][Reading => wbuf' = wbuf]_wbuf

\* The last beat of a packet is let in; all of its beats.
Leaves == pipe # "first" /\ pipe' = "first"
leaving == Append(wire, Head(outFifo))

\* The second beat is let in, and with it the checksum register as it is.
Stamps == pipe = "second" /\ pipe' # "second"
\* It is that of the packet read last, all of it still there.
Timely == fresh /\ \A k \in 1 .. Len(outFifo) - 1 : ~outFifo[k].last

\* A packet leaves with all its words, all tagged with one port, however many
\* wait with it.  It takes a checksum only when all its words have been summed;
\* and it is the checksum of exactly those words, provided the engine was not
\* started again before the second beat was let in.  When it was, because the
\* arbiter kept the pipeline full, the one checksum register (dma.sv:508-521)
\* is another transfer's.
OutputFramed == [][
  /\ Leaves =>
       /\ Len(leaving) = Words
       /\ \A k \in 1 .. Words :
            leaving[k].port = leaving[1].port /\ leaving[k].last = (k = Words)
  /\ Stamps => \E k \in 1 .. Len(outFifo) : outFifo[k].last
  /\ Stamps /\ Timely =>
       checksum = [k \in 1 .. Words |-> (wire \o outFifo)[k].pkt]]_vars

\* The multicast requests sent at boot leave intact, each by its own port.
RequestsIntact == [][Leaves /\ leaving[1].pkt.kind = "request" =>
  \A k \in 1 .. Words :
    leaving[k].pkt = leaving[1].pkt /\ leaving[k].port = leaving[1].pkt.port]_vars

\* A response leaves as it was assembled.  It does not: send_response returns
\* once the engine is started, and the next packet is assembled over it.
ResponsesIntact ==
  [][Leaves => \A k \in 1 .. Words : leaving[k].pkt = leaving[1].pkt]_vars

\* The output arbiter does not leave a beat waiting for ever.
ArbiterReturns == WF_vars(Beat)
\* A packet is being read while two more, whole, wait for its checksum.
Overfull ==
  /\ state = "READ" /\ pipe = "first"
  /\ \E j, k \in 1 .. Len(outFifo) : j < k /\ outFifo[j].last /\ outFifo[k].last

\* The firmware always comes back to its main loop: no wait for ACK is
\* endless, although the engine waits for room in the FIFO, the FIFO for the
\* pipeline, the pipeline for a checksum and the checksum for the engine.  Two
\* packets waiting behind a third could fill the FIFO for good.
MainLoopLives == ArbiterReturns /\ <>[]~Overfull => []<>(pc = "loop")

\* Every accepted packet is processed in the end, on the same conditions.
InputServed ==
  ArbiterReturns /\ <>[]~Overfull => (accepted # <<>> ~> pc = "process")
=============================================================================
