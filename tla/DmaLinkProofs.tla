---------------------------- MODULE DmaLinkProofs ----------------------------
(* Theorems about the DMA link, for every number of ports, packet length and *)
(* FIFO size within the assumptions of DmaLink: its types, the input side    *)
(* (no accepted packet is lost, torn or taken twice), the output side (what  *)
(* leaves is a whole packet, and whose checksum it has) and the boot         *)
(* requests.                                                                 *)
EXTENDS DmaLink, TLAPS

(* The inductive invariant.                                                  *)

\* What TypeOK says of single variables, with the sequences typed.
Types ==
  /\ pc \in {"assemble", "sync", "grant", "await", "loop", "process"}
  /\ job \in {"boot", "sweep", "reply"}
  /\ queue \in Seq(Ports) /\ Len(queue) =< PORT_NUM
  /\ wpos \in 1 .. Words
  /\ due \in BOOLEAN /\ rested \in BOOLEAN
  /\ stb \in BOOLEAN /\ we \in BOOLEAN /\ out_port \in Ports
  /\ state \in {"IDLE", "READ", "WRITE", "DONE"} /\ pos \in 0 .. Words
  /\ dma_port_id \in Ports
  /\ wbuf \in [1 .. Words -> Packet] /\ rbuf \in [1 .. Words -> Packet]
  /\ inFifo \in Seq(InWord) /\ accepted \in Seq(Packet)
  /\ frame \in [pkt : Packet, pos : 0 .. Words - 1, drop : BOOLEAN]
  /\ outFifo \in Seq(OutWord) /\ Len(outFifo) =< OutCap
  /\ acc \in Seq(Packet) /\ Len(acc) =< Words
  /\ checksum \in Seq(Packet) /\ Len(checksum) =< Words
  /\ checksum_valid \in BOOLEAN
  /\ pipe \in {"first", "second", "rest"}
  /\ wire \in Seq(OutWord) /\ fresh \in BOOLEAN

\* Who owns the registers: a transfer is under way only while STB is set, and
\* the firmware is in its loop throughout one that writes.
Handshake ==
  /\ pc \in {"assemble", "sync", "grant"} => queue # <<>>
  /\ pc \in {"grant", "process"} => ~stb
  /\ job = "boot" /\ pc = "assemble" => ~stb
  /\ stb /\ we => pc = "loop"
  /\ state = "WRITE" => stb /\ we
  /\ state = "READ" => stb /\ ~we
  /\ state \in {"READ", "WRITE"} => pos < Words

\* Input.  A packet is held while it is complete in wbuf and not processed.
Held == pc = "process" \/ (stb /\ we /\ state = "DONE")
held == IF Held THEN 1 ELSE 0
\* Words of the oldest frame that have left the input FIFO for wbuf.
moved == IF state = "WRITE" THEN pos ELSE 0
\* Words of the frame now arriving that are in the FIFO or have passed it.
arrived == IF frame.drop THEN 0 ELSE frame.pos

\* Where word i of the f-th frame after the first stands in the stream of words.
At(f, i) == f * Words + i
\* Frames wholly in the FIFO and wbuf, the one now arriving left out.
WholeFrames == Len(accepted) - held - (IF arrived = 0 THEN 0 ELSE 1)
Counted ==
  /\ WholeFrames >= 0
  /\ moved + Len(inFifo) = At(WholeFrames, arrived)
Room ==
  Len(inFifo) < InFull + (IF frame.pos = 0 \/ frame.drop THEN Words ELSE frame.pos)
\* ... and is a word of packet f + 1.
Filed ==
  \A j \in 1 .. Len(inFifo), f \in Nat, i \in 1 .. Words :
    moved + j = At(f, i) =>
      /\ held + f + 1 =< Len(accepted)
      /\ inFifo[j].pkt = accepted[held + f + 1]
      /\ (inFifo[j].last <=> i = Words)
Arriving == arrived # 0 => frame.pkt = accepted[Len(accepted)]
Assembled ==
  /\ \A k \in 1 .. moved : accepted # <<>> /\ wbuf[k] = accepted[1]
  /\ Held => /\ accepted # <<>>
             /\ \A k \in 1 .. Words : wbuf[k] = accepted[1]
             /\ dma_port_id = accepted[1].port
InputInv == Counted /\ Room /\ Filed /\ Arriving /\ Assembled

\* Output.  The beats of the packet now passing and, behind them, the words in
\* the output FIFO are one stream of words.
passed == Len(wire)
total == passed + Len(outFifo)
Sent(k) == IF k =< passed THEN wire[k] ELSE outFifo[k - passed]
\* Words of the packet being read, at the end of the stream.
partial == IF state = "READ" THEN pos ELSE 0

\* A packet whose first beat has passed is whole: its checksum was valid.
Piped ==
  /\ passed < Words
  /\ (pipe = "first" <=> passed = 0)
  /\ (pipe = "second" <=> passed = 1)
  /\ passed > 0 => total - partial >= Words
\* Whole packets make up the stream, and the one being read ends it.
SentCounted == \E f \in Nat : total = At(f, partial)
SentFramed ==
  \A f \in Nat, i, j \in 1 .. Words :
    At(f, i) =< total /\ At(f, j) =< total =>
      /\ (Sent(At(f, i)).last <=> i = Words)
      /\ Sent(At(f, i)).port = Sent(At(f, j)).port
Summing ==
  /\ state = "IDLE" => acc = <<>>
  /\ state \in {"READ", "WRITE"} => Len(acc) = pos /\ ~fresh
BeingRead ==
  state = "READ" =>
    /\ ~checksum_valid
    /\ \A k \in Nat, j \in 1 .. pos :
         k = total - pos + j => Sent(k).pkt = acc[j] /\ Sent(k).port = out_port
\* The checksum is that of the packet read last, as long as no transfer has
\* started since.
Summed ==
  fresh =>
    /\ Len(checksum) = Words
    /\ \A k \in Nat \ {0}, j \in 1 .. Words :
         k = total - Words + j => checksum[j] = Sent(k).pkt
OutputInv == Piped /\ SentCounted /\ SentFramed /\ Summing /\ BeingRead /\ Summed

-----------------------------------------------------------------------------
(* Types and handshake.                                                      *)

LEMMA Shapes ==
  /\ NoPacket \in Packet /\ Blank \in [1 .. Words -> Packet]
  /\ EveryPort \in Seq(Ports) /\ Len(EveryPort) = PORT_NUM /\ EveryPort # <<>>
  /\ 0 \in Ports
<1>1. PORT_NUM \in Nat \ {0} /\ Words \in Nat
  BY PortsAssumption, WordsAssumption
<1>2. 0 \in Ports /\ NoPacket \in Packet
  BY <1>1 DEF Ports, NoPacket, Packet
<1>3. Blank \in [1 .. Words -> Packet]
  BY <1>2 DEF Blank
<1>4. \A p \in 1 .. PORT_NUM : p - 1 \in Ports
  BY <1>1 DEF Ports
<1>5. EveryPort \in Seq(Ports) /\ Len(EveryPort) = PORT_NUM
  BY <1>1, <1>4 DEF EveryPort
<1> QED BY <1>1, <1>2, <1>3, <1>5

\* A position in the stream names its frame and its word.
LEMMA Stream ==
  /\ \A f, i \in Nat : At(f, i) \in Nat
  /\ \A i \in Nat : At(0, i) = i
  /\ \A f, i \in Nat : At(f + 1, i) = At(f, i) + Words
<1> Words \in Nat
  BY WordsAssumption
<1>1. \A f \in Nat : f * Words \in Nat /\ (f + 1) * Words = f * Words + Words
  OBVIOUS
<1>2. 0 * Words = 0
  OBVIOUS
<1> QED BY <1>1, <1>2 DEF At

LEMMA OneWord ==
  ASSUME NEW f \in Nat, NEW g \in Nat, NEW i \in 1 .. Words, NEW j \in 1 .. Words,
         At(f, i) = At(g, j)
  PROVE  f = g /\ i = j
<1> Words \in Nat /\ Words >= 3
  BY WordsAssumption
<1>1. ASSUME NEW a \in Nat, NEW b \in Nat, a < b
      PROVE  a * Words + Words =< b * Words
  <2>1. PICK d \in Nat : b = a + 1 + d
    <3>1. b - a - 1 \in Nat /\ b = a + 1 + (b - a - 1)
      BY <1>1
    <3> QED BY <3>1
  <2>2. b * Words = a * Words + Words + d * Words
    BY <2>1
  <2>3. d * Words >= 0 /\ a * Words \in Nat
    OBVIOUS
  <2> QED BY <2>2, <2>3
<1>2. f * Words \in Nat /\ g * Words \in Nat /\ f * Words + i = g * Words + j
  BY DEF At
<1>3. ~(f < g) /\ ~(g < f)
  BY <1>1, <1>2
<1> QED BY <1>2, <1>3

LEMMA AtLeast ==
  /\ \A f \in Nat, i \in 1 .. Words : At(f, i) \in Nat /\ At(f, i) >= 1
  /\ \A f, i \in Nat : f # 0 => /\ f - 1 \in Nat
                              /\ At(f, i) = At(f - 1, i) + Words
                              /\ At(f, i) >= Words + i
  /\ \A f, i \in Nat : At(f, i + 1) = At(f, i) + 1
<1> Words \in Nat
  BY WordsAssumption
<1>1. \A f \in Nat : f * Words \in Nat
  OBVIOUS
<1>2. \A f, i \in Nat : At(f, i) >= i /\ At(f, i) \in Nat /\ At(f, i + 1) = At(f, i) + 1
  BY <1>1 DEF At
<1>3. ASSUME NEW f \in Nat, NEW i \in Nat, f # 0
      PROVE  f - 1 \in Nat /\ At(f, i) = At(f - 1, i) + Words
  <2>1. f - 1 \in Nat /\ (f - 1) + 1 = f
    BY <1>3
  <2> QED BY <2>1, Stream
<1>4. ASSUME NEW f \in Nat, NEW i \in Nat, f # 0
      PROVE  At(f, i) >= Words + i
  <2>1. f - 1 \in Nat /\ At(f, i) = At(f - 1, i) + Words
    BY <1>3, <1>4
  <2> QED BY <1>2, <2>1
<1> QED BY <1>2, <1>3, <1>4

LEMMA InitInv == Init => Types /\ Handshake /\ InputInv /\ OutputInv
<1> SUFFICES ASSUME Init PROVE Types /\ Handshake /\ InputInv /\ OutputInv
  OBVIOUS
<1> USE WordsAssumption, RoomAssumption, Shapes DEF Init
<1>1. Types
  <2>1. frame \in [pkt : Packet, pos : 0 .. Words - 1, drop : BOOLEAN]
    BY DEF Packet, NoFrame
  <2>2. queue \in Seq(Ports) /\ Len(queue) =< PORT_NUM /\ wpos \in 1 .. Words
    OBVIOUS
  <2>3. wbuf \in [1 .. Words -> Packet] /\ rbuf \in [1 .. Words -> Packet]
    OBVIOUS
  <2>4. /\ inFifo \in Seq(InWord) /\ accepted \in Seq(Packet)
        /\ outFifo \in Seq(OutWord) /\ Len(outFifo) =< OutCap
        /\ acc \in Seq(Packet) /\ Len(acc) =< Words
        /\ checksum \in Seq(Packet) /\ Len(checksum) =< Words
        /\ wire \in Seq(OutWord)
    OBVIOUS
  <2>5. /\ pc \in {"assemble", "sync", "grant", "await", "loop", "process"}
        /\ job \in {"boot", "sweep", "reply"}
        /\ out_port \in Ports /\ dma_port_id \in Ports /\ pos \in 0 .. Words
        /\ state \in {"IDLE", "READ", "WRITE", "DONE"}
        /\ pipe \in {"first", "second", "rest"}
    OBVIOUS
  <2>6. /\ due \in BOOLEAN /\ rested \in BOOLEAN /\ stb \in BOOLEAN
        /\ we \in BOOLEAN /\ checksum_valid \in BOOLEAN /\ fresh \in BOOLEAN
    OBVIOUS
  <2> HIDE DEF Init
  <2> QED BY <2>1, <2>2, <2>3, <2>4, <2>5, <2>6 DEF Types
<1>2. Handshake
  BY DEF Handshake
<1>3. InputInv
  <2>1. held = 0 /\ ~Held /\ moved = 0 /\ arrived = 0 /\ Len(accepted) = 0 /\ Len(inFifo) = 0
    BY DEF held, Held, moved, arrived, NoFrame
  <2>2. Counted
    BY <2>1, Stream DEF Counted, WholeFrames
  <2>3. Room /\ Filed /\ Arriving /\ Assembled
    BY <2>1 DEF Room, Filed, Arriving, Assembled, NoFrame
  <2> QED BY <2>2, <2>3 DEF InputInv
<1>4. OutputInv
  <2>1. passed = 0 /\ total = 0 /\ partial = 0 /\ 0 \in Nat /\ At(0, 0) = 0
    BY Stream DEF passed, total, partial
  <2>2. SentCounted
    BY <2>1 DEF SentCounted
  <2>3. SentFramed
    <3> HIDE DEF Init
    <3>1. ASSUME NEW g \in Nat, NEW i \in 1 .. Words PROVE ~(At(g, i) =< 0)
      <4>1. At(g, i) \in Nat /\ At(g, i) >= 1
        BY AtLeast
      <4> QED BY <4>1
    <3> QED BY <2>1, <3>1 DEF SentFramed
  <2>4. Piped /\ Summing /\ BeingRead /\ Summed
    BY <2>1 DEF Piped, Summing, BeingRead, Summed
  <2> QED BY <2>2, <2>3, <2>4 DEF OutputInv
<1> QED BY <1>1, <1>2, <1>3, <1>4

LEMMA HandshakeStep ==
  ASSUME Types, Handshake, InputInv, [Next]_vars PROVE Handshake'
<1> USE WordsAssumption, Shapes DEF Types, Handshake
<1>1. CASE Arrive \/ Expire \/ Beat
  <2>1. CASE Arrive
    BY <2>1 DEF Arrive, cpu, regs, engine
  <2>2. CASE Expire
    BY <2>2 DEF Expire, cpu, regs, engine
  <2>3. CASE Beat
    BY <2>3 DEF Beat, cpu, regs, engine
  <2> QED BY <1>1, <2>1, <2>2, <2>3
<1>2. CASE Engine
  <2>1. CASE StartTransfer
    BY <2>1 DEF StartTransfer, cpu, regs
  <2>2. CASE WriteWord
    <3>1. moved + 1 = At(0, pos + 1) /\ 0 \in Nat /\ pos + 1 \in 1 .. Words
      BY <2>2, Stream DEF WriteWord, moved
    <3>2. 1 \in 1 .. Len(inFifo)
      BY <2>2 DEF WriteWord
    <3>3. inFifo[1].last <=> pos + 1 = Words
      BY <3>1, <3>2 DEF InputInv, Filed
    <3> QED BY <2>2, <3>3 DEF WriteWord, cpu, regs
  <2>3. CASE ReadWord
    BY <2>3 DEF ReadWord, LastRead, cpu, regs
  <2>4. CASE Release
    BY <2>4 DEF Release, cpu, regs
  <2> QED BY <1>2, <2>1, <2>2, <2>3, <2>4 DEF Engine
<1>3. CASE Firmware
  <2>1. CASE Assemble
    BY <2>1 DEF Assemble, Settled, cpu, regs, engine
  <2>2. CASE Sync
    BY <2>2 DEF Sync, Settled, cpu, regs, engine
  <2>3. CASE Grant
    <3>1. state = "IDLE" /\ stb' /\ ~we' /\ job' = job /\ state' = state
      BY <2>3 DEF Grant, Settled, engine
    <3>2. /\ pc' \in {"await", "assemble", "loop"}
          /\ pc' = "assemble" => job # "boot" /\ queue' # <<>>
      <4>1. queue' = Tail(queue)
        BY <2>3 DEF Grant
      <4>2. CASE job = "boot"
        BY <2>3, <4>2 DEF Grant
      <4>3. CASE job # "boot" /\ Tail(queue) # <<>>
        BY <2>3, <4>1, <4>3 DEF Grant
      <4>4. CASE job # "boot" /\ Tail(queue) = <<>>
        BY <2>3, <4>4 DEF Grant
      <4> QED BY <4>2, <4>3, <4>4
    <3> QED BY <3>1, <3>2
  <2>4. CASE AwaitBoot
    BY <2>4 DEF AwaitBoot, Settled, cpu, regs, engine
  <2>5. CASE AwaitSweep
    BY <2>5 DEF AwaitSweep, Settled, cpu, regs, engine
  <2>6. CASE StartSweep
    BY <2>6 DEF StartSweep, Settled, cpu, regs, engine
  <2>7. CASE GrantInput
    BY <2>7 DEF GrantInput, Settled, cpu, regs, engine
  <2>8. CASE Idle
    BY <2>8 DEF Idle, Settled, cpu, regs, engine
  <2>9. CASE AckOut
    BY <2>9 DEF AckOut, Settled, cpu, regs, engine
  <2>10. CASE AckIn
    BY <2>10 DEF AckIn, Settled, cpu, regs, engine
  <2>11. CASE Disassemble
    BY <2>11 DEF Disassemble, Settled, cpu, regs, engine
  <2> QED BY <1>3, <2>1, <2>2, <2>3, <2>4, <2>5, <2>6, <2>7, <2>8, <2>9, <2>10, <2>11 DEF Firmware
<1>4. CASE UNCHANGED vars
  BY <1>4 DEF vars, cpu, regs, engine
<1> QED BY <1>1, <1>2, <1>3, <1>4 DEF Next

LEMMA Head1 ==
  ASSUME NEW S, NEW s \in Seq(S), s # <<>>
  PROVE  /\ Head(s) = s[1] /\ s[1] \in S /\ Len(s) \in Nat \ {0}
         /\ Tail(s) \in Seq(S) /\ Len(Tail(s)) = Len(s) - 1
         /\ \A k \in 1 .. Len(s) - 1 : Tail(s)[k] = s[k + 1]
OBVIOUS

LEMMA Append1 ==
  ASSUME NEW S, NEW s \in Seq(S), NEW x \in S
  PROVE  /\ Append(s, x) \in Seq(S) /\ Len(Append(s, x)) = Len(s) + 1
         /\ \A k \in 1 .. Len(s) : Append(s, x)[k] = s[k]
         /\ Append(s, x)[Len(s) + 1] = x
OBVIOUS

LEMMA Words1 ==
  /\ \A w \in InWord : w.pkt \in Packet /\ w.last \in BOOLEAN
  /\ \A w \in OutWord : w.pkt \in Packet /\ w.port \in Ports /\ w.last \in BOOLEAN
  /\ \A p \in Packet, b \in BOOLEAN : [pkt |-> p, last |-> b] \in InWord
  /\ \A p \in Packet, q \in Ports, b \in BOOLEAN :
       [pkt |-> p, port |-> q, last |-> b] \in OutWord
  /\ \A p \in Packet : p.port \in Ports
  /\ \A q \in Ports, k \in {"none", "in", "request", "update"} :
       [kind |-> k, port |-> q] \in Packet
BY DEF InWord, OutWord, Packet

LEMMA TypesStep ==
  ASSUME Types, Handshake, InputInv, OutputInv, [Next]_vars PROVE Types'
<1> USE WordsAssumption, Shapes DEF Types
<1>1. CASE Arrive
  <2> PICK p \in Ports :
        LET pkt == IF frame.pos = 0 THEN [kind |-> "in", port |-> p] ELSE frame.pkt
            drop == IF frame.pos = 0 THEN Full ELSE frame.drop
            last == frame.pos + 1 = Words
        IN  /\ frame' = IF last THEN NoFrame
                                ELSE [pkt |-> pkt, pos |-> frame.pos + 1, drop |-> drop]
            /\ inFifo' = IF drop THEN inFifo
                                 ELSE Append(inFifo, [pkt |-> pkt, last |-> last])
            /\ accepted' = IF frame.pos = 0 /\ ~drop THEN Append(accepted, pkt)
                                                     ELSE accepted
    BY <1>1 DEF Arrive
  <2> DEFINE pkt == IF frame.pos = 0 THEN [kind |-> "in", port |-> p] ELSE frame.pkt
             drop == IF frame.pos = 0 THEN Full ELSE frame.drop
             last == frame.pos + 1 = Words
  <2>1. pkt \in Packet /\ drop \in BOOLEAN /\ last \in BOOLEAN
    <3>1. [kind |-> "in", port |-> p] \in Packet
      BY Words1
    <3>2. frame.pkt \in Packet /\ frame.drop \in BOOLEAN
      OBVIOUS
    <3>3. Full \in BOOLEAN
      BY DEF Full
    <3> QED BY <3>1, <3>2, <3>3
  <2>2. frame' \in [pkt : Packet, pos : 0 .. Words - 1, drop : BOOLEAN]
    <3>0. frame.pos \in 0 .. Words - 1
      OBVIOUS
    <3>1. CASE last
      <4>1. NoFrame \in [pkt : Packet, pos : 0 .. Words - 1, drop : BOOLEAN]
        BY DEF NoFrame
      <4> QED BY <3>1, <4>1
    <3>2. CASE ~last
      <4>1. frame.pos + 1 \in 0 .. Words - 1
        BY <3>0, <3>2
      <4>2. frame' = [pkt |-> pkt, pos |-> frame.pos + 1, drop |-> drop]
        BY <3>2
      <4> HIDE DEF pkt, drop
      <4> QED BY <2>1, <4>1, <4>2, SMTT(20)
    <3> QED BY <3>1, <3>2
  <2>3. [pkt |-> pkt, last |-> last] \in InWord
    BY <2>1, Words1
  <2> HIDE DEF pkt, drop, last
  <2>4. inFifo' \in Seq(InWord) /\ accepted' \in Seq(Packet)
    BY <2>1, <2>3, Append1 DEF pkt, drop, last
  <2> QED BY <1>1, <2>2, <2>4 DEF Arrive, cpu, regs, engine, output
<1>2. CASE Expire
  BY <1>2 DEF Expire, regs, engine, input, output
<1>3. CASE Beat
  <2>1. /\ Head(outFifo) \in OutWord /\ outFifo' \in Seq(OutWord)
        /\ Len(outFifo') =< OutCap
    <3>1. outFifo # <<>> /\ outFifo' = Tail(outFifo) /\ outFifo \in Seq(OutWord)
      BY <1>3 DEF Beat
    <3> QED BY <3>1, Head1, RoomAssumption
  <2>2. wire' \in Seq(OutWord)
    <3>1. wire \in Seq(OutWord) /\ <<>> \in Seq(OutWord)
      OBVIOUS
    <3>2. Append(wire, Head(outFifo)) \in Seq(OutWord)
      BY <2>1, <3>1, Append1
    <3>3. wire' = <<>> \/ wire' = Append(wire, Head(outFifo))
      BY <1>3 DEF Beat
    <3> QED BY <3>1, <3>2, <3>3
  <2>3. pipe' \in {"first", "second", "rest"}
    BY <1>3 DEF Beat
  <2>4. UNCHANGED <<cpu, regs, engine, wbuf, rbuf, input>>
    BY <1>3 DEF Beat
  <2> QED BY <2>1, <2>2, <2>3, <2>4, SMTT(20) DEF cpu, regs, engine, input
<1>4. CASE Engine
  <2>1. CASE StartTransfer
    <3>1. /\ pos' \in 0 .. Words /\ fresh' \in BOOLEAN /\ checksum_valid' \in BOOLEAN
          /\ state' \in {"IDLE", "READ", "WRITE", "DONE"}
      <4>1. checksum_valid' \in BOOLEAN
        <5>1. ValidAtStart \in BOOLEAN
          BY DEF ValidAtStart
        <5>2. checksum_valid' = ValidAtStart
          BY <2>1 DEF StartTransfer
        <5> QED BY <5>1, <5>2
      <4>2. fresh' \in BOOLEAN
        BY <2>1 DEF StartTransfer
      <4>3. pos' \in 0 .. Words
        BY <2>1 DEF StartTransfer
      <4>4. state' \in {"IDLE", "READ", "WRITE", "DONE"}
        BY <2>1 DEF StartTransfer
      <4> QED BY <4>1, <4>2, <4>3, <4>4
    <3>2. UNCHANGED <<cpu, regs, dma_port_id, acc, checksum, wbuf, rbuf, input, outFifo, output>>
      BY <2>1 DEF StartTransfer
    <3> QED BY <3>1, <3>2 DEF cpu, regs, input, output
  <2>2. CASE WriteWord
    <3>1. inFifo[1] \in InWord /\ Head(inFifo) = inFifo[1] /\ inFifo' \in Seq(InWord)
      BY <2>2, Head1 DEF WriteWord
    <3>2. inFifo[1].pkt \in Packet /\ inFifo[1].pkt.port \in Ports
      BY <3>1, Words1
    <3>3. wbuf' \in [1 .. Words -> Packet] /\ dma_port_id' \in Ports
      BY <2>2, <3>1, <3>2 DEF WriteWord, PortLatched
    <3>4. pos' \in 0 .. Words /\ pos < Words
      BY <2>2 DEF WriteWord, Handshake
    <3>5. acc' \in Seq(Packet) /\ Len(acc') =< Words
      BY <2>2, <3>1, <3>2, <3>4, Append1, SMTT(20) DEF WriteWord, OutputInv, Summing
    <3>6. /\ state' \in {"IDLE", "READ", "WRITE", "DONE"}
          /\ checksum' \in Seq(Packet) /\ Len(checksum') =< Words
      <4>1. CASE Head(inFifo).last
        <5>1. state' = "DONE" /\ checksum' = acc'
          BY <2>2, <4>1 DEF WriteWord
        <5> QED BY <3>5, <5>1
      <4>2. CASE ~Head(inFifo).last
        BY <2>2, <4>2 DEF WriteWord
      <4> QED BY <4>1, <4>2
    <3>7. UNCHANGED <<cpu, regs, checksum_valid, fresh, rbuf, outFifo, output, frame, accepted>>
      BY <2>2 DEF WriteWord
    <3>8. /\ pc' = pc /\ job' = job /\ queue' = queue /\ wpos' = wpos
          /\ due' = due /\ rested' = rested
          /\ stb' = stb /\ we' = we /\ out_port' = out_port
      BY <3>7 DEF cpu, regs
    <3>9. /\ rbuf' = rbuf /\ frame' = frame /\ accepted' = accepted
          /\ outFifo' = outFifo /\ checksum_valid' = checksum_valid
          /\ fresh' = fresh /\ pipe' = pipe /\ wire' = wire
      BY <3>7 DEF output
    <3>10. inFifo' \in Seq(InWord)
      BY <3>1
    <3> QED BY <3>3, <3>4, <3>5, <3>6, <3>8, <3>9, <3>10, SMTT(20)
  <2>3. CASE ReadWord
    <3>1. pos < Words /\ rbuf[pos + 1] \in Packet
      BY <2>3 DEF ReadWord, Handshake
    <3>2. [pkt |-> rbuf[pos + 1], port |-> out_port, last |-> LastRead] \in OutWord
      <4>1. LastRead \in BOOLEAN
        BY DEF LastRead
      <4> QED BY <3>1, <4>1, Words1
    <3>3. outFifo' \in Seq(OutWord) /\ Len(outFifo') =< OutCap
      BY <2>3, <3>2, Append1, RoomAssumption DEF ReadWord
    <3>4. acc' \in Seq(Packet) /\ Len(acc') =< Words
      BY <2>3, <3>1, Append1 DEF ReadWord, OutputInv, Summing
    <3>5. /\ pos' \in 0 .. Words /\ state' \in {"IDLE", "READ", "WRITE", "DONE"}
          /\ checksum' \in Seq(Packet) /\ Len(checksum') =< Words
          /\ checksum_valid' \in BOOLEAN /\ fresh' \in BOOLEAN
      <4>1. pos' = pos + 1 /\ state = "READ"
        BY <2>3 DEF ReadWord
      <4>2. CASE LastRead
        <5>1. state' = "DONE" /\ checksum' = acc' /\ checksum_valid' = TRUE /\ fresh' = TRUE
          BY <2>3, <4>2 DEF ReadWord
        <5> QED BY <3>1, <3>4, <4>1, <5>1
      <4>3. CASE ~LastRead
        <5>1. UNCHANGED <<state, checksum, checksum_valid, fresh>>
          BY <2>3, <4>3 DEF ReadWord
        <5> QED BY <3>1, <4>1, <5>1
      <4> QED BY <4>2, <4>3
    <3>6. UNCHANGED <<cpu, regs, dma_port_id, wbuf, rbuf, input, output>>
      BY <2>3 DEF ReadWord
    <3> QED BY <3>3, <3>4, <3>5, <3>6, SMTT(20) DEF cpu, regs, input, output
  <2>4. CASE Release
    BY <2>4 DEF Release, cpu, regs, input, output
  <2> QED BY <1>4, <2>1, <2>2, <2>3, <2>4 DEF Engine
<1>5. CASE Firmware
  <2>1. CASE Assemble
    <3>1. queue # <<>> /\ Head(queue) \in Ports
      BY <2>1, Head1 DEF Assemble, Handshake
    <3>2. [kind |-> IF job = "boot" THEN "request" ELSE "update", port |-> Head(queue)]
            \in Packet
      BY <3>1, Words1
    <3>3. rbuf' \in [1 .. Words -> Packet]
      BY <2>1, <3>2 DEF Assemble
    <3>4. wpos' \in 1 .. Words
      BY <2>1 DEF Assemble
    <3>5. pc' \in {"assemble", "sync", "grant", "await", "loop", "process"}
      BY <2>1 DEF Assemble
    <3>6. UNCHANGED <<job, queue, due, rested, regs, engine, wbuf, input, outFifo, output>>
      BY <2>1 DEF Assemble
    <3> QED BY <3>3, <3>4, <3>5, <3>6 DEF regs, engine, input, output
  <2>2. CASE Sync
    <3>1. /\ pc' \in {"assemble", "sync", "grant", "await", "loop", "process"}
          /\ stb' \in BOOLEAN
      BY <2>2 DEF Sync
    <3>2. UNCHANGED <<job, queue, wpos, due, rested, we, out_port, engine, wbuf, rbuf,
                      input, outFifo, output>>
      BY <2>2 DEF Sync
    <3> QED BY <3>1, <3>2 DEF engine, input, output
  <2>3. CASE Grant
    <3>1. queue # <<>> /\ Head(queue) \in Ports /\ queue' \in Seq(Ports)
          /\ Len(queue') =< PORT_NUM
      BY <2>3, Head1, PortsAssumption DEF Grant, Handshake
    <3>2. pc' \in {"await", "assemble", "loop"}
      <4>1. CASE job = "boot"
        BY <2>3, <4>1 DEF Grant
      <4>2. CASE job # "boot"
        BY <2>3, <4>2 DEF Grant
      <4> QED BY <4>1, <4>2
    <3>3. out_port' \in Ports /\ we' \in BOOLEAN /\ stb' \in BOOLEAN
      BY <2>3, <3>1 DEF Grant
    <3>4. UNCHANGED <<job, wpos, due, rested, engine, wbuf, rbuf, input, outFifo, output>>
      BY <2>3 DEF Grant
    <3> QED BY <3>1, <3>2, <3>3, <3>4 DEF engine, input, output
  <2>4. CASE AwaitBoot
    <3>1. out_port' \in Ports /\ pc' \in {"assemble", "loop"}
      BY <2>4, Head1 DEF AwaitBoot
    <3> QED BY <2>4, <3>1 DEF AwaitBoot, engine, input, output
  <2>5. CASE AwaitSweep
    BY <2>5 DEF AwaitSweep, TimerReset, regs, engine, input, output
  <2>6. CASE StartSweep
    BY <2>6 DEF StartSweep, regs, engine, input, output
  <2>7. CASE GrantInput
    BY <2>7 DEF GrantInput, engine, input, output
  <2>8. CASE Idle
    BY <2>8 DEF Idle, regs, engine, input, output
  <2>9. CASE AckOut
    BY <2>9 DEF AckOut, cpu, engine, input, output
  <2>10. CASE AckIn
    BY <2>10 DEF AckIn, engine, input, output
  <2>11. CASE Disassemble
    <3>1. accepted # <<>>
      BY <2>11 DEF Disassemble, InputInv, Assembled, Held
    <3>2. accepted' \in Seq(Packet)
      BY <2>11, <3>1, Head1 DEF Disassemble
    <3>3. queue' \in Seq(Ports) /\ Len(queue') =< PORT_NUM
      <4>1. queue' \in {<<>>, <<dma_port_id>>, EveryPort}
        BY <2>11 DEF Disassemble
      <4>2. <<dma_port_id>> \in Seq(Ports) /\ Len(<<dma_port_id>>) = 1
        OBVIOUS
      <4>3. <<>> \in Seq(Ports) /\ Len(<<>>) = 0 /\ PORT_NUM \in Nat \ {0}
        BY PortsAssumption
      <4>4. CASE queue' = <<>>
        BY <4>3, <4>4
      <4>5. CASE queue' = <<dma_port_id>>
        BY <4>2, <4>3, <4>5
      <4>6. CASE queue' = EveryPort
        BY <4>3, <4>6, Shapes
      <4> QED BY <4>1, <4>4, <4>5, <4>6
    <3>4. /\ job' \in {"boot", "sweep", "reply"}
          /\ pc' \in {"assemble", "sync", "grant", "await", "loop", "process"}
      BY <2>11 DEF Disassemble
    <3>5. UNCHANGED <<inFifo, frame, wpos, due, rested, regs, engine, wbuf, rbuf, outFifo, output>>
      BY <2>11 DEF Disassemble
    <3> QED BY <3>2, <3>3, <3>4, <3>5 DEF regs, engine, output
  <2> QED BY <1>5, <2>1, <2>2, <2>3, <2>4, <2>5, <2>6, <2>7, <2>8, <2>9, <2>10, <2>11 DEF Firmware
<1>6. CASE UNCHANGED vars
  BY <1>6 DEF vars, cpu, regs, engine, input, output
<1> QED BY <1>1, <1>2, <1>3, <1>4, <1>5, <1>6 DEF Next

-----------------------------------------------------------------------------
(* Input.                                                                    *)

LEMMA Positions ==
  ASSUME Types, Handshake, InputInv
  PROVE  /\ held \in {0, 1} /\ moved \in 0 .. Words - 1 /\ arrived \in 0 .. Words - 1
         /\ WholeFrames \in Nat
         /\ Held => moved = 0
BY WordsAssumption DEF Types, Handshake, InputInv, Counted, WholeFrames, held, moved,
   arrived, Held

\* The input side depends on nothing else.
LEMMA InputFrame ==
  ASSUME InputInv, UNCHANGED <<inFifo, frame, accepted, wbuf, dma_port_id>>,
         held' = held, moved' = moved, Held' => Held
  PROVE  InputInv'
BY DEF InputInv, Counted, WholeFrames, Room, Filed, Arriving, Assembled, arrived

LEMMA ArriveInput == ASSUME Types, Handshake, InputInv, Arrive PROVE InputInv'
<1> USE WordsAssumption
<1> PICK p \in Ports :
      LET pkt == IF frame.pos = 0 THEN [kind |-> "in", port |-> p] ELSE frame.pkt
          drop == IF frame.pos = 0 THEN Full ELSE frame.drop
          last == frame.pos + 1 = Words
      IN  /\ frame' = IF last THEN NoFrame
                              ELSE [pkt |-> pkt, pos |-> frame.pos + 1, drop |-> drop]
          /\ inFifo' = IF drop THEN inFifo
                               ELSE Append(inFifo, [pkt |-> pkt, last |-> last])
          /\ accepted' = IF frame.pos = 0 /\ ~drop THEN Append(accepted, pkt)
                                                   ELSE accepted
  BY DEF Arrive
<1> DEFINE pkt == IF frame.pos = 0 THEN [kind |-> "in", port |-> p] ELSE frame.pkt
           drop == IF frame.pos = 0 THEN Full ELSE frame.drop
           last == frame.pos + 1 = Words
           word == [pkt |-> pkt, last |-> last]
<1>1. /\ frame.pos \in 0 .. Words - 1 /\ frame.pkt \in Packet /\ frame.drop \in BOOLEAN
      /\ inFifo \in Seq(InWord) /\ accepted \in Seq(Packet)
  BY DEF Types
<1>2. /\ ~last => frame'.pkt = pkt /\ frame'.drop = drop /\ frame'.pos = frame.pos + 1
      /\ last => frame'.pos = 0 /\ ~frame'.drop
  BY DEF NoFrame
<1>3. pkt \in Packet /\ word \in InWord /\ word.pkt = pkt /\ (word.last <=> last)
  <2>1. [kind |-> "in", port |-> p] \in Packet
    BY Words1
  <2>2. pkt \in Packet
    BY <1>1, <2>1
  <2>3. last \in BOOLEAN
    OBVIOUS
  <2> HIDE DEF pkt, last
  <2> QED BY <2>2, <2>3, Words1
<1>4. UNCHANGED <<pc, stb, we, state, pos, dma_port_id, wbuf>>
  BY DEF Arrive, cpu, regs, engine
<1>5. held' = held /\ moved' = moved /\ (Held' <=> Held)
  BY <1>4 DEF held, moved, Held
<1>6. held \in {0, 1} /\ moved \in 0 .. Words - 1 /\ arrived \in 0 .. Words - 1
      /\ WholeFrames \in Nat
  BY Positions
<1>7. CASE drop
  <2>1. inFifo' = inFifo /\ accepted' = accepted
    BY <1>7
  <2>2. arrived' = 0 /\ arrived = 0
    BY <1>1, <1>2, <1>7 DEF arrived
  <2>3. Counted' /\ Filed' /\ Arriving' /\ Assembled'
    BY <1>4, <1>5, <2>1, <2>2 DEF InputInv, Counted, WholeFrames, Filed, Arriving, Assembled
  <2>4. Room'
    <3>1. Len(inFifo) < InFull + Words
      BY <1>1, RoomAssumption DEF InputInv, Room
    <3> QED BY <1>2, <1>7, <2>1, <3>1 DEF Room
  <2> QED BY <2>3, <2>4 DEF InputInv
<1>8. CASE ~drop
  <2> DEFINE n == Len(inFifo)
  <2>1. inFifo' = Append(inFifo, word)
    BY <1>8
  <2>2. /\ accepted' = IF frame.pos = 0 THEN Append(accepted, pkt) ELSE accepted
        /\ arrived = frame.pos /\ arrived' = IF last THEN 0 ELSE frame.pos + 1
    <3>1. arrived = frame.pos
      BY <1>1, <1>8 DEF arrived
    <3> QED BY <1>2, <1>8, <3>1 DEF arrived
  <2> HIDE DEF pkt, drop, last, word
  <2>3. /\ inFifo' \in Seq(InWord) /\ Len(inFifo') = n + 1 /\ inFifo'[n + 1] = word
        /\ \A k \in 1 .. n : inFifo'[k] = inFifo[k]
    BY <1>1, <1>3, <2>1, Append1
  <2>4. /\ accepted' \in Seq(Packet) /\ Len(accepted') >= 1
        /\ Len(accepted') = held + WholeFrames + 1
        /\ \A k \in 1 .. Len(accepted) : accepted'[k] = accepted[k]
        /\ accepted'[Len(accepted')] = pkt
        /\ Len(accepted) =< Len(accepted')
    <3>1. CASE frame.pos = 0
      BY <1>1, <1>3, <1>6, <2>2, <3>1, Append1 DEF WholeFrames
    <3>2. CASE frame.pos # 0
      BY <1>1, <1>6, <2>2, <3>2 DEF WholeFrames, InputInv, Arriving, pkt
    <3> QED BY <3>1, <3>2
  <2>5. moved + n = At(WholeFrames, frame.pos)
    BY <2>2 DEF InputInv, Counted
  <2>6. Counted'
    <3> DEFINE m == WholeFrames
               a == Len(accepted')
    <3>3. WholeFrames' = a - held - (IF arrived' = 0 THEN 0 ELSE 1)
      BY <1>5 DEF WholeFrames
    <3>4. a = held + m + 1 /\ a \in Nat /\ m \in Nat
      BY <1>6, <2>4
    <3>5. moved' + Len(inFifo') = At(m, frame.pos) + 1
      BY <1>5, <1>6, <2>3, <2>5, Stream, <1>1
    <3>6. arrived' = IF last THEN 0 ELSE frame.pos + 1
      BY <2>2
    <3> HIDE DEF m, a
    <3>1. CASE last
      <4>1. WholeFrames' = m + 1 /\ arrived' = 0
        BY <1>6, <3>1, <3>3, <3>4, <3>6
      <4>2. frame.pos + 1 = Words
        BY <3>1 DEF last
      <4>3. At(m, frame.pos) + 1 = At(m, frame.pos + 1)
        BY <1>1, <3>4 DEF At
      <4>6. At(m + 1, 0) = At(m, 0) + Words
        BY <3>4, Stream
      <4>4. At(m, Words) = At(m, 0) + Words
        BY <3>4 DEF At
      <4>5. m + 1 >= 0
        BY <3>4
      <4> QED BY <3>5, <4>1, <4>2, <4>3, <4>4, <4>5, <4>6 DEF Counted
    <3>2. CASE ~last
      <4>1. WholeFrames' = m /\ arrived' = frame.pos + 1
        BY <1>1, <1>6, <3>2, <3>3, <3>4, <3>6
      <4>2. At(m, frame.pos) + 1 = At(m, frame.pos + 1) /\ m >= 0
        BY <1>1, <3>4 DEF At
      <4> QED BY <3>5, <4>1, <4>2 DEF Counted
    <3> QED BY <3>1, <3>2
  <2>7. Room'
    <3>1. n < InFull + frame.pos
      BY <1>1, <1>8, RoomAssumption DEF InputInv, Room, drop, Full
    <3> QED BY <1>1, <1>2, <1>8, <2>3, <3>1, RoomAssumption DEF Room, last
  <2>8. Filed'
    <3> SUFFICES ASSUME NEW j \in 1 .. Len(inFifo'), NEW f \in Nat, NEW i \in 1 .. Words,
                        moved' + j = At(f, i)
                 PROVE  /\ held' + f + 1 =< Len(accepted')
                        /\ inFifo'[j].pkt = accepted'[held' + f + 1]
                        /\ (inFifo'[j].last <=> i = Words)
      BY DEF Filed
    <3>3. n \in Nat /\ j \in 1 .. n + 1 /\ moved + j = At(f, i)
      BY <1>1, <1>5, <2>3
    <3>1. CASE j =< n
      BY <3>3, <1>1, <1>5, <1>6, <2>3, <2>4, <3>1 DEF InputInv, Filed
    <3>2. CASE j = n + 1
      <4>1. At(f, i) = At(WholeFrames, frame.pos + 1)
        <5>1. At(f, i) = moved + n + 1
          BY <1>6, <3>2, <3>3
        <5>2. At(WholeFrames, frame.pos + 1) = At(WholeFrames, frame.pos) + 1
          BY <1>1, <1>6 DEF At
        <5> QED BY <2>5, <5>1, <5>2
      <4>2. f = WholeFrames /\ i = frame.pos + 1
        BY <1>1, <1>6, <4>1, OneWord
      <4>3. inFifo'[j].pkt = pkt /\ (inFifo'[j].last <=> i = Words)
        BY <1>3, <2>3, <3>2, <4>2 DEF last
      <4>4. held' + f + 1 = Len(accepted') /\ Len(accepted') \in Nat
        BY <1>5, <1>6, <2>4, <4>2
      <4> QED BY <2>4, <4>3, <4>4
    <3>4. j =< n \/ j = n + 1
      BY <3>3
    <3> QED BY <3>1, <3>2, <3>4
  <2>9. Arriving'
    BY <1>2, <2>2, <2>4 DEF Arriving
  <2>10. Assembled'
    <3>1. \A k \in 1 .. moved : accepted # <<>> /\ wbuf[k] = accepted[1]
      BY DEF InputInv, Assembled
    <3>2. accepted' # <<>> /\ (accepted # <<>> => accepted'[1] = accepted[1])
      BY <1>1, <2>4
    <3>3. moved' = moved /\ wbuf' = wbuf /\ dma_port_id' = dma_port_id
      BY <1>4, <1>5
    <3> QED BY <1>5, <3>1, <3>2, <3>3 DEF InputInv, Assembled
  <2> QED BY <2>6, <2>7, <2>8, <2>9, <2>10 DEF InputInv
<1> QED BY <1>7, <1>8

LEMMA WriteInput == ASSUME Types, Handshake, InputInv, WriteWord PROVE InputInv'
<1> USE WordsAssumption
<1>1. /\ state = "WRITE" /\ stb /\ we /\ pc = "loop" /\ pos \in 0 .. Words - 1
      /\ inFifo \in Seq(InWord) /\ accepted \in Seq(Packet) /\ inFifo # <<>>
      /\ wbuf \in [1 .. Words -> Packet]
  BY DEF WriteWord, Types, Handshake
<1>2. held = 0 /\ moved = pos /\ ~Held
  BY <1>1 DEF held, moved, Held
<1>3. WholeFrames \in Nat /\ arrived \in 0 .. Words - 1
  BY Positions
<1>4. /\ Head(inFifo) = inFifo[1] /\ inFifo' = Tail(inFifo)
      /\ Len(inFifo) \in Nat \ {0} /\ Len(inFifo') = Len(inFifo) - 1
      /\ \A k \in 1 .. Len(inFifo) - 1 : inFifo'[k] = inFifo[k + 1]
  <2>1. inFifo' = Tail(inFifo)
    BY DEF WriteWord
  <2> QED BY <1>1, <2>1, Head1
<1>5. /\ Len(accepted) >= 1 /\ inFifo[1].pkt = accepted[1]
      /\ (inFifo[1].last <=> pos + 1 = Words)
  <2>1. moved + 1 = At(0, pos + 1)
    BY <1>1, <1>2, Stream
  <2>2. 1 \in 1 .. Len(inFifo) /\ 0 \in Nat /\ pos + 1 \in 1 .. Words
    BY <1>1, <1>4
  <2> QED BY <1>1, <1>2, <2>1, <2>2 DEF InputInv, Filed
<1>6. UNCHANGED <<frame, accepted, pc, stb, we>> /\ arrived' = arrived
  BY DEF WriteWord, cpu, regs, arrived
<1>7. /\ wbuf'[pos + 1] = accepted[1]
      /\ \A k \in 1 .. pos : wbuf'[k] = accepted[1]
  <2>1. wbuf' = [wbuf EXCEPT ![pos + 1] = accepted[1]]
    BY <1>4, <1>5 DEF WriteWord
  <2>2. \A k \in 1 .. pos : wbuf[k] = accepted[1]
    BY <1>2 DEF InputInv, Assembled
  <2> QED BY <1>1, <2>1, <2>2
<1>8. Room'
  BY <1>4, <1>6, RoomAssumption DEF InputInv, Room, Types
<1>9. Arriving'
  BY <1>6 DEF InputInv, Arriving
<1>10. CASE pos + 1 < Words
  <2>1. state' = "WRITE" /\ pos' = pos + 1
    BY <1>1, <1>4, <1>5, <1>10 DEF WriteWord
  <2>2. held' = 0 /\ moved' = pos + 1 /\ ~Held'
    BY <1>1, <1>6, <2>1 DEF held, moved, Held
  <2>3. Counted'
    BY <1>1, <1>2, <1>4, <1>6, <2>2 DEF InputInv, Counted, WholeFrames
  <2>4. Filed'
    <3> SUFFICES ASSUME NEW j \in 1 .. Len(inFifo'), NEW f \in Nat, NEW i \in 1 .. Words,
                        pos + 1 + j = At(f, i)
                 PROVE  /\ f + 1 =< Len(accepted)
                        /\ inFifo'[j].pkt = accepted[f + 1]
                        /\ (inFifo'[j].last <=> i = Words)
      BY <1>6, <2>2 DEF Filed
    <3>1. moved + (j + 1) = At(f, i) /\ j + 1 \in 1 .. Len(inFifo)
      BY <1>1, <1>2, <1>4
    <3> QED BY <1>2, <1>4, <3>1 DEF InputInv, Filed
  <2>5. Assembled'
    BY <1>1, <1>5, <1>6, <1>7, <2>2 DEF Assembled
  <2> QED BY <1>8, <1>9, <2>3, <2>4, <2>5 DEF InputInv
<1>11. CASE pos + 1 = Words
  <2>1. state' = "DONE" /\ dma_port_id' = accepted[1].port
    BY <1>4, <1>5, <1>11 DEF WriteWord, PortLatched
  <2>2. held' = 1 /\ moved' = 0
    BY <1>1, <1>6, <2>1 DEF held, moved, Held
  <2>3. WholeFrames >= 1
    <3>1. CASE WholeFrames = 0
      <4>1. Words - 1 + Len(inFifo) = arrived
        BY <1>1, <1>2, <1>3, <1>11, <3>1, Stream DEF InputInv, Counted
      <4> QED BY <1>3, <1>4, <4>1
    <3> QED BY <1>3, <3>1
  <2>4. Counted'
    <3>1. WholeFrames' = WholeFrames - 1
      BY <1>1, <1>2, <1>3, <1>6, <2>2 DEF WholeFrames
    <3>2. At((WholeFrames - 1) + 1, arrived) = At(WholeFrames - 1, arrived) + Words
      BY <1>3, <2>3, Stream
    <3>3. Words - 1 + Len(inFifo) = At(WholeFrames, arrived)
      BY <1>1, <1>2, <1>11 DEF InputInv, Counted
    <3>4. (WholeFrames - 1) + 1 = WholeFrames
      BY <1>3
    <3>5. At(WholeFrames - 1, arrived) \in Nat /\ WholeFrames - 1 >= 0
      BY <1>3, <2>3, Stream
    <3>6. Len(inFifo') = At(WholeFrames - 1, arrived)
      BY <1>4, <3>2, <3>3, <3>4, <3>5
    <3> QED BY <1>6, <2>2, <3>1, <3>5, <3>6 DEF Counted
  <2>5. Filed'
    <3> SUFFICES ASSUME NEW j \in 1 .. Len(inFifo'), NEW f \in Nat, NEW i \in 1 .. Words,
                        j = At(f, i)
                 PROVE  /\ f + 2 =< Len(accepted)
                        /\ inFifo'[j].pkt = accepted[f + 2]
                        /\ (inFifo'[j].last <=> i = Words)
      BY <1>6, <2>2 DEF Filed
    <3>1. At(f + 1, i) = At(f, i) + Words
      BY Stream
    <3>2. moved + (j + 1) = At(f + 1, i) /\ j + 1 \in 1 .. Len(inFifo)
      BY <1>1, <1>2, <1>4, <1>11, <3>1
    <3> QED BY <1>2, <1>4, <3>2 DEF InputInv, Filed
  <2>6. Assembled'
    BY <1>1, <1>5, <1>6, <1>7, <1>11, <2>1, <2>2 DEF Assembled
  <2> QED BY <1>8, <1>9, <2>4, <2>5, <2>6 DEF InputInv
<1> QED BY <1>1, <1>10, <1>11

LEMMA DisassembleInput ==
  ASSUME Types, Handshake, InputInv, Disassemble PROVE InputInv'
<1> USE WordsAssumption
<1>1. /\ pc = "process" /\ ~stb /\ state \notin {"READ", "WRITE"}
      /\ inFifo \in Seq(InWord) /\ accepted \in Seq(Packet)
  BY DEF Disassemble, Types, Handshake
<1>2. held = 1 /\ moved = 0 /\ Held
  BY <1>1 DEF held, moved, Held
<1>3. accepted # <<>> /\ WholeFrames \in Nat /\ arrived \in 0 .. Words - 1
  BY <1>2, Positions DEF InputInv, Assembled
<1>4. /\ accepted' \in Seq(Packet) /\ Len(accepted') = Len(accepted) - 1
      /\ Len(accepted) \in Nat \ {0}
      /\ \A k \in 1 .. Len(accepted) - 1 : accepted'[k] = accepted[k + 1]
  <2>1. accepted' = Tail(accepted)
    BY DEF Disassemble
  <2> QED BY <1>1, <1>3, <2>1, Head1
<1>5. UNCHANGED <<inFifo, frame, stb, we, state, pos>> /\ pc' # "process"
  BY DEF Disassemble, regs, engine
<1>6. held' = 0 /\ moved' = 0 /\ ~Held' /\ arrived' = arrived
  BY <1>1, <1>5 DEF held, moved, Held, arrived
<1>7. WholeFrames' = WholeFrames
  BY <1>2, <1>4, <1>6 DEF WholeFrames
<1>8. Counted' /\ Room'
  BY <1>2, <1>5, <1>6, <1>7 DEF InputInv, Counted, Room
<1>9. Filed'
  <2> SUFFICES ASSUME NEW j \in 1 .. Len(inFifo), NEW f \in Nat, NEW i \in 1 .. Words,
                      j = At(f, i)
               PROVE  /\ f + 1 =< Len(accepted')
                      /\ inFifo[j].pkt = accepted'[f + 1]
                      /\ (inFifo[j].last <=> i = Words)
    BY <1>5, <1>6 DEF Filed
  <2>1. /\ f + 2 =< Len(accepted) /\ inFifo[j].pkt = accepted[f + 2]
        /\ (inFifo[j].last <=> i = Words)
    <3>1. moved + j = At(f, i)
      BY <1>2
    <3> QED BY <1>2, <3>1 DEF InputInv, Filed
  <2> QED BY <1>4, <2>1
<1>10. Arriving'
  <2> SUFFICES ASSUME arrived # 0 PROVE frame.pkt = accepted'[Len(accepted')]
    BY <1>5, <1>6 DEF Arriving
  <2>1. Len(accepted) >= 2
    BY <1>2, <1>3, <1>4 DEF WholeFrames
  <2>2. frame.pkt = accepted[Len(accepted)]
    BY DEF InputInv, Arriving
  <2> QED BY <1>4, <2>1, <2>2
<1>11. Assembled'
  BY <1>6 DEF Assembled
<1> QED BY <1>8, <1>9, <1>10, <1>11 DEF InputInv

LEMMA InputStep ==
  ASSUME Types, Handshake, InputInv, [Next]_vars PROVE InputInv'
<1>1. CASE Arrive
  BY <1>1, ArriveInput
<1>2. CASE WriteWord
  BY <1>2, WriteInput
<1>3. CASE Disassemble
  BY <1>3, DisassembleInput
<1>4. CASE StartTransfer
  <2>1. UNCHANGED <<inFifo, frame, accepted, wbuf, dma_port_id, pc, stb, we>>
    BY <1>4 DEF StartTransfer, cpu, regs, input
  <2>2. state = "IDLE" /\ state' \in {"READ", "WRITE"} /\ pos' = 0
    BY <1>4 DEF StartTransfer
  <2>3. held' = held /\ moved' = moved /\ (Held' => Held)
    BY <2>1, <2>2 DEF held, moved, Held
  <2> QED BY <2>1, <2>3, InputFrame
<1>5. CASE ReadWord
  <2>1. UNCHANGED <<inFifo, frame, accepted, wbuf, dma_port_id, pc, stb, we>>
    BY <1>5 DEF ReadWord, cpu, regs, input
  <2>2. state = "READ" /\ state' \in {"READ", "DONE"} /\ ~we
    BY <1>5 DEF ReadWord, Handshake
  <2>3. held' = held /\ moved' = moved /\ (Held' => Held)
    BY <2>1, <2>2 DEF held, moved, Held
  <2> QED BY <2>1, <2>3, InputFrame
<1>6. CASE Release
  <2>1. UNCHANGED <<inFifo, frame, accepted, wbuf, dma_port_id, pc, stb, we>>
    BY <1>6 DEF Release, cpu, regs, input
  <2>2. state = "DONE" /\ state' = "IDLE" /\ ~stb
    BY <1>6 DEF Release
  <2>3. held' = held /\ moved' = moved /\ (Held' => Held)
    BY <2>1, <2>2 DEF held, moved, Held
  <2> QED BY <2>1, <2>3, InputFrame
<1>7. CASE Expire \/ Beat \/ UNCHANGED vars
  <2>1. UNCHANGED <<inFifo, frame, accepted, wbuf, dma_port_id, pc, stb, we, state, pos>>
    BY <1>7 DEF Expire, Beat, vars, cpu, regs, engine, input
  <2>2. held' = held /\ moved' = moved /\ (Held' => Held)
    BY <2>1 DEF held, moved, Held
  <2> QED BY <2>1, <2>2, InputFrame
<1>8. CASE Firmware /\ ~Disassemble
  <2>1. UNCHANGED <<inFifo, frame, accepted, wbuf, dma_port_id, state, pos>>
    BY <1>8 DEF Firmware, Assemble, Sync, Grant, AwaitBoot, AwaitSweep, StartSweep,
                GrantInput, Idle, AckOut, AckIn, engine, input
  <2>2. Held' <=> Held
    <3>1. CASE Assemble \/ AwaitSweep \/ StartSweep \/ Idle
      <4>1. pc # "process" /\ pc' # "process" /\ UNCHANGED <<stb, we>>
        BY <3>1 DEF Assemble, AwaitSweep, StartSweep, Idle, regs
      <4> QED BY <2>1, <4>1 DEF Held
    <3>2. CASE Sync \/ AwaitBoot
      <4>1. pc \in {"sync", "await"} /\ pc' # "process" /\ stb' = FALSE
        BY <3>2 DEF Sync, AwaitBoot
      <4> QED BY <2>1, <4>1 DEF Held, Handshake
    <3>3. CASE Grant \/ GrantInput
      <4>1. /\ pc \in {"grant", "loop"} /\ state # "DONE" /\ state' = state
        BY <2>1, <3>3 DEF Grant, GrantInput, Settled
      <4>2. pc' # "process"
        <5>1. CASE Grant
          BY <5>1 DEF Grant, Types
        <5>2. CASE GrantInput
          BY <5>2 DEF GrantInput
        <5> QED BY <3>3, <5>1, <5>2
      <4> QED BY <4>1, <4>2 DEF Held
    <3>4. CASE AckOut
      <4>1. pc = "loop" /\ pc' = pc /\ ~we /\ we' = we
        BY <3>4 DEF AckOut, cpu
      <4> QED BY <4>1 DEF Held
    <3>5. CASE AckIn
      BY <3>5 DEF AckIn, Held
    <3> QED BY <1>8, <3>1, <3>2, <3>3, <3>4, <3>5 DEF Firmware
  <2>3. held' = held /\ moved' = moved
    BY <2>1, <2>2 DEF held, moved
  <2> QED BY <2>1, <2>2, <2>3, InputFrame
<1> QED BY <1>1, <1>2, <1>3, <1>4, <1>5, <1>6, <1>7, <1>8 DEF Next, Engine

-----------------------------------------------------------------------------
(* Output.                                                                   *)

LEMMA Flow ==
  ASSUME Types, OutputInv
  PROVE  /\ passed \in 0 .. Words - 1 /\ Len(outFifo) \in Nat
         /\ total \in Nat /\ total = passed + Len(outFifo)
         /\ partial \in 0 .. Words
         /\ \A k \in 1 .. passed : Sent(k) = wire[k]
         /\ \A k \in 1 .. Len(outFifo) : Sent(passed + k) = outFifo[k]
         /\ \A k \in 1 .. total : Sent(k) \in OutWord
<1> USE WordsAssumption
<1>1. /\ passed \in 0 .. Words - 1 /\ Len(outFifo) \in Nat
      /\ total = passed + Len(outFifo) /\ total \in Nat /\ partial \in 0 .. Words
      /\ wire \in Seq(OutWord) /\ outFifo \in Seq(OutWord)
  BY DEF Types, OutputInv, Piped, passed, total, partial
<1>2. \A k \in 1 .. passed : Sent(k) = wire[k] /\ wire[k] \in OutWord
  BY <1>1 DEF Sent, passed
<1>3. ASSUME NEW k \in 1 .. Len(outFifo)
      PROVE  Sent(passed + k) = outFifo[k] /\ outFifo[k] \in OutWord
  <2>1. ~(passed + k =< passed) /\ (passed + k) - passed = k
    BY <1>1
  <2> QED BY <1>1, <2>1 DEF Sent
<1>4. ASSUME NEW k \in 1 .. total PROVE Sent(k) \in OutWord
  <2>1. CASE k =< passed
    <3>1. k \in 1 .. passed
      BY <1>1, <2>1
    <3> QED BY <1>2, <3>1
  <2>2. CASE ~(k =< passed)
    <3>1. k - passed \in 1 .. Len(outFifo) /\ passed + (k - passed) = k
      BY <1>1, <2>2
    <3> QED BY <1>3, <3>1
  <2> QED BY <2>1, <2>2
<1> QED BY <1>1, <1>2, <1>3, <1>4

\* What a read and a beat do to the stream.
ReadMoves ==
  /\ total' = total + 1
  /\ \A k \in 1 .. total : Sent(k)' = Sent(k)
  /\ \A k \in Nat : k = total + 1 =>
       Sent(k)'.pkt = rbuf[pos + 1] /\ Sent(k)'.port = out_port
BeatMoves ==
  \/ /\ total >= Words /\ total' = total - Words
     /\ \A k \in 1 .. total - Words : Sent(k)' = Sent(k + Words)
  \/ /\ total' = total
     /\ \A k \in 1 .. total : Sent(k)' = Sent(k)

\* Steps that move no beat and no word.
LEMMA OutputFrame ==
  ASSUME OutputInv, UNCHANGED <<outFifo, pipe, wire>>, partial' = partial,
         Summing', BeingRead', Summed'
  PROVE  OutputInv'
<1>1. passed' = passed /\ total' = total /\ (\A k : Sent(k)' = Sent(k))
  BY DEF passed, total, Sent
<1>2. Piped'
  BY <1>1 DEF OutputInv, Piped
<1>3. SentCounted'
  BY <1>1 DEF OutputInv, SentCounted
<1>4. SentFramed'
  BY <1>1 DEF OutputInv, SentFramed
<1> QED BY <1>2, <1>3, <1>4 DEF OutputInv

\* ... and do not touch what is read either.
LEMMA OutputIdle ==
  ASSUME OutputInv,
         UNCHANGED <<outFifo, pipe, wire, state, pos, acc, checksum, checksum_valid, fresh>>,
         state = "READ" => out_port' = out_port
  PROVE  OutputInv'
<1>1. total' = total /\ partial' = partial /\ (\A k : Sent(k)' = Sent(k))
  BY DEF passed, total, partial, Sent
<1>2. Summing'
  BY DEF OutputInv, Summing
<1>3. BeingRead'
  BY <1>1 DEF OutputInv, BeingRead
<1>4. Summed'
  BY <1>1 DEF OutputInv, Summed
<1> QED BY <1>1, <1>2, <1>3, <1>4, OutputFrame

LEMMA StartOutput ==
  ASSUME Types, Handshake, OutputInv, StartTransfer PROVE OutputInv'
<1>1. /\ state = "IDLE" /\ pos' = 0 /\ fresh' = FALSE /\ acc' = acc
      /\ state' = (IF we THEN "WRITE" ELSE "READ")
      /\ UNCHANGED <<outFifo, pipe, wire>>
  BY DEF StartTransfer, output
<1>2. partial' = partial
  BY <1>1 DEF partial
<1>3. Summing'
  <2>1. Len(acc') = 0
    BY <1>1 DEF OutputInv, Summing
  <2> QED BY <1>1, <2>1 DEF Summing
<1>4. BeingRead'
  <2>1. state' = "READ" => checksum_valid' = FALSE
    BY <1>1 DEF StartTransfer, ValidAtStart
  <2> QED BY <1>1, <2>1 DEF BeingRead
<1>5. Summed'
  BY <1>1 DEF Summed
<1> QED BY <1>1, <1>2, <1>3, <1>4, <1>5, OutputFrame

LEMMA WriteOutput ==
  ASSUME Types, Handshake, InputInv, OutputInv, WriteWord PROVE OutputInv'
<1>1. /\ state = "WRITE" /\ state' \in {"WRITE", "DONE"} /\ pos' = pos + 1
      /\ acc' = Append(acc, Head(inFifo).pkt) /\ fresh' = fresh
      /\ UNCHANGED <<outFifo, pipe, wire>>
  BY DEF WriteWord, output
<1>2. acc \in Seq(Packet) /\ Len(acc) = pos /\ ~fresh
  BY <1>1 DEF Types, OutputInv, Summing
<1>3. Len(acc') = pos + 1
  BY <1>1, <1>2
<1>4. Summing' /\ BeingRead' /\ Summed'
  BY <1>1, <1>2, <1>3 DEF Summing, BeingRead, Summed
<1>5. partial' = partial
  BY <1>1 DEF partial
<1> QED BY <1>1, <1>4, <1>5, OutputFrame

LEMMA ReleaseOutput ==
  ASSUME Types, OutputInv, Release PROVE OutputInv'
<1>1. /\ state = "DONE" /\ state' = "IDLE" /\ acc' = <<>>
      /\ UNCHANGED <<outFifo, pipe, wire, checksum, fresh>>
  BY DEF Release, output
<1>2. total' = total /\ partial' = partial /\ (\A k : Sent(k)' = Sent(k))
  BY <1>1 DEF passed, total, partial, Sent
<1>3. Summing' /\ BeingRead'
  BY <1>1 DEF Summing, BeingRead
<1>4. Summed'
  BY <1>1, <1>2 DEF OutputInv, Summed
<1> QED BY <1>1, <1>2, <1>3, <1>4, OutputFrame

LEMMA ReadOutput ==
  ASSUME Types, Handshake, OutputInv, ReadWord PROVE OutputInv' /\ ReadMoves
<1> USE WordsAssumption
<1> DEFINE word == [pkt |-> rbuf[pos + 1], port |-> out_port, last |-> LastRead]
           n == Len(outFifo)
<1>1. /\ state = "READ" /\ pos' = pos + 1
      /\ outFifo' = Append(outFifo, word) /\ acc' = Append(acc, rbuf[pos + 1])
      /\ UNCHANGED <<pipe, wire, out_port>>
  BY DEF ReadWord, output, regs
<1>2. /\ pos \in 0 .. Words - 1 /\ outFifo \in Seq(OutWord) /\ acc \in Seq(Packet)
      /\ rbuf[pos + 1] \in Packet /\ out_port \in Ports
  BY <1>1 DEF Types, Handshake
<1>3. /\ passed \in 0 .. Words - 1 /\ n \in Nat /\ total \in Nat /\ total = passed + n
      /\ partial = pos
  BY <1>1, Flow DEF partial
<1>4. /\ word \in OutWord /\ word.pkt = rbuf[pos + 1] /\ word.port = out_port
      /\ (word.last <=> pos + 1 = Words)
  <2>1. LastRead \in BOOLEAN /\ (LastRead <=> pos + 1 = Words)
    BY <1>2 DEF LastRead
  <2> QED BY <1>2, <2>1, Words1
<1> HIDE DEF word
<1>5. /\ Len(outFifo') = n + 1 /\ outFifo'[n + 1] = word
      /\ \A k \in 1 .. n : outFifo'[k] = outFifo[k]
  BY <1>1, <1>2, <1>4, Append1
<1>6. ~checksum_valid /\ Len(acc) = pos /\ ~fresh
  BY <1>1 DEF OutputInv, BeingRead, Summing
<1>7. /\ Len(acc') = pos + 1 /\ acc'[pos + 1] = rbuf[pos + 1]
      /\ \A j \in 1 .. pos : acc'[j] = acc[j]
  BY <1>1, <1>2, <1>6, Append1
<1>8. passed' = passed /\ total' = total + 1
  BY <1>1, <1>3, <1>5 DEF passed, total
<1>9. \A k \in 1 .. total : Sent(k)' = Sent(k)
  <2> SUFFICES ASSUME NEW k \in 1 .. total PROVE Sent(k)' = Sent(k)
    OBVIOUS
  <2>1. CASE k =< passed
    BY <1>1, <1>8, <2>1 DEF Sent
  <2>2. CASE ~(k =< passed)
    <3>1. k - passed \in 1 .. n
      BY <1>3, <2>2
    <3> QED BY <1>5, <1>8, <2>2, <3>1 DEF Sent
  <2> QED BY <2>1, <2>2
<1>10. \A k \in Nat : k = total + 1 => Sent(k)' = word
  <2> SUFFICES ASSUME NEW k \in Nat, k = total + 1 PROVE Sent(k)' = word
    OBVIOUS
  <2>1. ~(k =< passed) /\ k - passed = n + 1
    BY <1>3
  <2> QED BY <1>5, <1>8, <2>1 DEF Sent
<1>11. ReadMoves
  BY <1>4, <1>8, <1>9, <1>10 DEF ReadMoves
\* Where the packet being read stands in the stream.
<1>12. PICK f \in Nat : total = At(f, pos)
  BY <1>3 DEF OutputInv, SentCounted
<1>at. At(f, 0) \in Nat /\ \A i \in Nat : At(f, i) = At(f, 0) + i
  <2>1. f * Words \in Nat
    OBVIOUS
  <2> QED BY <2>1 DEF At
<1>13. At(f, 0) \in Nat /\ total = At(f, 0) + pos
  BY <1>2, <1>12, <1>at
<1>14. \A k \in Nat, j \in 1 .. pos + 1 : k = total - pos + j =>
         Sent(k)'.pkt = acc'[j] /\ Sent(k)'.port = out_port
  <2> SUFFICES ASSUME NEW k \in Nat, NEW j \in 1 .. pos + 1, k = total - pos + j
               PROVE  Sent(k)'.pkt = acc'[j] /\ Sent(k)'.port = out_port
    OBVIOUS
  <2>1. CASE j = pos + 1
    <3>1. k = total + 1
      BY <1>2, <1>3, <2>1
    <3> QED BY <1>4, <1>7, <1>10, <2>1, <3>1
  <2>2. CASE j # pos + 1
    <3>1. j \in 1 .. pos /\ k \in 1 .. total
      BY <1>2, <1>3, <1>13, <2>2
    <3>2. Sent(k).pkt = acc[j] /\ Sent(k).port = out_port
      BY <1>1, <3>1 DEF OutputInv, BeingRead
    <3> QED BY <1>7, <1>9, <3>1, <3>2
  <2> QED BY <2>1, <2>2
<1>15. ASSUME NEW g \in Nat, NEW i \in 1 .. Words, At(g, i) =< total + 1
       PROVE  At(g, i) \in 1 .. total \/ (g = f /\ i = pos + 1 /\ At(g, i) = total + 1)
  <2>1. At(g, i) \in Nat /\ At(g, i) >= 1
    BY AtLeast
  <2>2. CASE At(g, i) = total + 1
    <3>1. At(f, pos + 1) = total + 1 /\ pos + 1 \in 1 .. Words
      BY <1>2, <1>13, <1>at
    <3>2. At(g, i) = At(f, pos + 1)
      BY <2>2, <3>1
    <3> QED BY <2>2, <3>1, <3>2, OneWord
  <2> QED BY <1>3, <1>15, <2>1, <2>2
<1>16. SentCounted'
  <2>1. CASE pos + 1 < Words
    <3>1. partial' = pos + 1
      BY <1>1, <2>1 DEF ReadWord, LastRead, partial
    <3>2. total' = At(f, pos + 1)
      BY <1>2, <1>8, <1>13, <1>at
    <3> QED BY <3>1, <3>2 DEF SentCounted
  <2>2. CASE ~(pos + 1 < Words)
    <3>1. partial' = 0
      BY <1>1, <1>2, <2>2 DEF ReadWord, LastRead, partial
    <3>2. At(f + 1, 0) = At(f, 0) + Words
      BY Stream
    <3>4. At(f, 0) \in Nat /\ total = At(f, 0) + pos /\ pos + 1 = Words
      BY <1>2, <1>13, <2>2
    <3>3. total' = At(f + 1, 0) /\ f + 1 \in Nat
      BY <1>2, <1>8, <3>2, <3>4
    <3> QED BY <3>1, <3>3 DEF SentCounted
  <2> QED BY <2>1, <2>2
<1>17. ASSUME NEW g \in Nat, NEW i \in 1 .. Words, At(g, i) =< total + 1
       PROVE  Sent(At(g, i))'.last <=> i = Words
  <2> DEFINE a == At(g, i)
  <2>1. CASE a \in 1 .. total
    <3>1. Sent(a).last <=> i = Words
      BY <1>3, <2>1 DEF OutputInv, SentFramed
    <3> QED BY <1>9, <2>1, <3>1
  <2>2. CASE i = pos + 1 /\ a = total + 1
    <3>1. Sent(a)' = word
      BY <1>3, <1>10, <2>2
    <3> QED BY <1>4, <2>2, <3>1
  <2> QED BY <1>15, <1>17, <2>1, <2>2
<1>18. ASSUME NEW i \in 1 .. Words, At(f, i) =< total + 1
       PROVE  Sent(At(f, i))'.port = out_port
  <2>0. i \in Nat /\ At(f, i) = At(f, 0) + i
    BY <1>at
  <2>1. i \in 1 .. pos + 1 /\ At(f, i) \in Nat /\ At(f, i) = total - pos + i
    BY <1>2, <1>3, <1>13, <1>18, <2>0, SMTT(20)
  <2> QED BY <1>14, <2>1
<1>19. ASSUME NEW g \in Nat, NEW i \in 1 .. Words, NEW j \in 1 .. Words,
              At(g, i) =< total + 1, At(g, j) =< total + 1
       PROVE  Sent(At(g, i))'.port = Sent(At(g, j))'.port
  <2>1. CASE g = f
    BY <1>18, <1>19, <2>1
  <2>2. CASE g # f
    <3>1. At(g, i) \in 1 .. total /\ At(g, j) \in 1 .. total
      BY <1>15, <1>19, <2>2
    <3>2. Sent(At(g, i)).port = Sent(At(g, j)).port
      BY <1>3, <3>1 DEF OutputInv, SentFramed
    <3> QED BY <1>9, <3>1, <3>2
  <2> QED BY <2>1, <2>2
<1>20. SentFramed'
  BY <1>8, <1>17, <1>19 DEF SentFramed
<1>21. CASE pos + 1 < Words
  <2>1. /\ state' = "READ" /\ partial' = pos + 1
        /\ UNCHANGED <<checksum, checksum_valid, fresh>>
    BY <1>1, <1>21 DEF ReadWord, LastRead, partial
  <2>2. Piped'
    BY <1>1, <1>2, <1>3, <1>8, <2>1 DEF OutputInv, Piped
  <2>3. Summing' /\ Summed'
    BY <1>1, <1>6, <1>7, <2>1 DEF Summing, Summed
  <2>4. BeingRead'
    <3>1. pos' = pos + 1 /\ total' - pos' = total - pos
      BY <1>1, <1>2, <1>3, <1>8
    <3> QED BY <1>1, <1>6, <1>14, <2>1, <3>1 DEF BeingRead
  <2> QED BY <1>11, <1>16, <1>20, <2>2, <2>3, <2>4 DEF OutputInv
<1>22. CASE ~(pos + 1 < Words)
  <2>1. state' = "DONE" /\ partial' = 0 /\ checksum' = acc' /\ pos + 1 = Words
    BY <1>1, <1>2, <1>22 DEF ReadWord, LastRead, partial
  <2>2. Piped'
    BY <1>1, <1>2, <1>3, <1>8, <2>1 DEF OutputInv, Piped
  <2>3. Summing' /\ BeingRead'
    BY <2>1 DEF Summing, BeingRead
  <2>4. Summed'
    <3>1. \A k \in Nat, j \in 1 .. Words : k = total' - Words + j => checksum'[j] = Sent(k)'.pkt
      <4> SUFFICES ASSUME NEW k \in Nat, NEW j \in 1 .. Words, k = total' - Words + j
                   PROVE  checksum'[j] = Sent(k)'.pkt
        OBVIOUS
      <4>1. k = total - pos + j /\ j \in 1 .. pos + 1
        BY <1>2, <1>3, <1>8, <2>1
      <4> QED BY <1>14, <2>1, <4>1
    <3>2. total' \in Nat
      BY <1>3, <1>8
    <3> QED BY <1>7, <2>1, <3>1, <3>2 DEF Summed
  <2> QED BY <1>11, <1>16, <1>20, <2>2, <2>3, <2>4 DEF OutputInv
<1> QED BY <1>21, <1>22

LEMMA BeatOutput ==
  ASSUME Types, Handshake, OutputInv, Beat PROVE OutputInv' /\ BeatMoves
<1> USE WordsAssumption
<1> DEFINE w == outFifo[1]
           n == Len(outFifo)
<1>1. /\ UNCHANGED <<state, pos, acc, checksum, checksum_valid, fresh, out_port>>
      /\ outFifo \in Seq(OutWord) /\ outFifo # <<>> /\ wire \in Seq(OutWord)
      /\ pipe \in {"first", "second", "rest"} /\ pos \in Nat
  BY DEF Beat, engine, regs, Types
<1>2. /\ n \in Nat \ {0} /\ w \in OutWord /\ Head(outFifo) = w /\ Len(outFifo') = n - 1
      /\ \A k \in 1 .. n - 1 : outFifo'[k] = outFifo[k + 1]
  <2>1. outFifo' = Tail(outFifo)
    BY DEF Beat
  <2> QED BY <1>1, <2>1, Head1
<1>3. /\ passed \in 0 .. Words - 1 /\ total \in Nat /\ total = passed + n
      /\ partial \in 0 .. Words /\ partial' = partial
  <2>1. partial' = partial
    BY <1>1 DEF partial
  <2> QED BY <2>1, Flow
<1>4. w = Sent(passed + 1)
  <2>1. 1 \in 1 .. n
    BY <1>2
  <2> QED BY <2>1, Flow
\* The packet at the front is whole, as it was when its first beat was let in.
<1>5. PICK f \in Nat : total = At(f, partial)
  BY DEF OutputInv, SentCounted
<1>6. f # 0 /\ total - partial >= Words
  <2>1. At(0, partial) = partial
    BY <1>3, Stream
  <2>2. CASE passed > 0
    <3>1. total - partial >= Words
      BY <2>2 DEF OutputInv, Piped
    <3> QED BY <1>3, <1>5, <2>1, <3>1
  <2>3. CASE passed = 0
    <3>1. checksum_valid
      BY <2>3 DEF OutputInv, Piped, Beat, Gate
    <3>2. partial = 0
      BY <3>1 DEF OutputInv, BeingRead, partial
    <3>3. f # 0
      BY <1>2, <1>3, <1>5, <2>1, <3>2
    <3> QED BY <1>3, <1>5, <3>2, <3>3, AtLeast
  <2> QED BY <1>3, <2>2, <2>3
<1>7. w.last <=> passed + 1 = Words
  <2>1. passed + 1 \in 1 .. Words /\ passed + 1 =< total /\ passed + 1 \in Nat
    BY <1>2, <1>3
  <2>2. At(0, passed + 1) = passed + 1
    BY <2>1, Stream
  <2> QED BY <1>4, <2>1, <2>2 DEF OutputInv, SentFramed
<1>8. Summing'
  BY <1>1 DEF OutputInv, Summing
<1>9. CASE w.last
  <2>1. pipe' = "first" /\ wire' = <<>> /\ passed + 1 = Words
    BY <1>2, <1>7, <1>9 DEF Beat
  <2>2. passed' = 0
    BY <2>1 DEF passed
  <2>3. total' = total - Words /\ total >= Words
    <3>1. total' = passed' + Len(outFifo')
      BY DEF total
    <3>2. n \in Nat /\ Len(outFifo') = n - 1
      BY <1>2
    <3> HIDE DEF n, w
    <3> QED BY <1>3, <1>6, <2>1, <2>2, <3>1, <3>2
  <2>4. \A k \in 1 .. total - Words : Sent(k)' = Sent(k + Words)
    <3> SUFFICES ASSUME NEW k \in 1 .. total - Words PROVE Sent(k)' = Sent(k + Words)
      OBVIOUS
    <3>1. k \in 1 .. n - 1 /\ k + 1 \in 1 .. n /\ passed + (k + 1) = k + Words
      BY <1>2, <1>3, <2>1
    <3>2. ~(k =< 0) /\ k - 0 = k
      OBVIOUS
    <3>3. Sent(k)' = outFifo'[k]
      BY <2>2, <3>2 DEF Sent
    <3>4. Sent(passed + (k + 1)) = outFifo[k + 1]
      BY <3>1, Flow
    <3> QED BY <1>2, <3>1, <3>3, <3>4
  <2>5. BeatMoves
    BY <2>3, <2>4 DEF BeatMoves
  <2>6. Piped'
    BY <1>3, <2>1, <2>2 DEF Piped
  <2>7. SentCounted'
    <3>1. f - 1 \in Nat /\ At(f, partial) = At(f - 1, partial) + Words
      BY <1>3, <1>6, AtLeast
    <3>2. At(f - 1, partial) \in Nat
      BY <1>3, <3>1, Stream
    <3>3. total' = At(f - 1, partial)
      BY <1>3, <1>5, <2>3, <3>1, <3>2
    <3> QED BY <1>3, <3>1, <3>3 DEF SentCounted
  <2>8. ASSUME NEW g \in Nat, NEW i \in 1 .. Words, At(g, i) =< total - Words
        PROVE  At(g + 1, i) =< total /\ Sent(At(g, i))' = Sent(At(g + 1, i))
    <3>1. At(g, i) \in Nat /\ At(g, i) >= 1 /\ At(g + 1, i) = At(g, i) + Words
      BY AtLeast, Stream
    <3>2. At(g, i) \in 1 .. total - Words
      BY <1>3, <2>8, <3>1
    <3> QED BY <1>3, <2>4, <2>8, <3>1, <3>2
  <2>9. SentFramed'
    <3> SUFFICES ASSUME NEW g \in Nat, NEW i \in 1 .. Words, NEW j \in 1 .. Words,
                        At(g, i) =< total - Words, At(g, j) =< total - Words
                 PROVE  /\ (Sent(At(g, i))'.last <=> i = Words)
                        /\ Sent(At(g, i))'.port = Sent(At(g, j))'.port
      BY <2>3 DEF SentFramed
    <3>1. /\ At(g + 1, i) =< total /\ Sent(At(g, i))' = Sent(At(g + 1, i))
          /\ At(g + 1, j) =< total /\ Sent(At(g, j))' = Sent(At(g + 1, j))
      BY <2>8
    <3>2. g + 1 \in Nat
      OBVIOUS
    <3> QED BY <3>1, <3>2 DEF OutputInv, SentFramed
  <2>10. BeingRead'
    <3> SUFFICES ASSUME state = "READ"
                 PROVE  /\ ~checksum_valid
                        /\ \A k \in Nat, j \in 1 .. pos : k = total - Words - pos + j =>
                             Sent(k)'.pkt = acc[j] /\ Sent(k)'.port = out_port
      BY <1>1, <2>3 DEF BeingRead
    <3>1. partial = pos
      BY DEF partial
    <3>2. ASSUME NEW k \in Nat, NEW j \in 1 .. pos, k = total - Words - pos + j
          PROVE  Sent(k)'.pkt = acc[j] /\ Sent(k)'.port = out_port
      <4>1. k \in 1 .. total - Words
        BY <1>1, <1>3, <1>6, <3>1, <3>2
      <4>2. k + Words \in Nat /\ k + Words = total - pos + j
        BY <1>1, <1>3, <3>2
      <4> QED BY <2>4, <4>1, <4>2 DEF OutputInv, BeingRead
    <3> QED BY <3>2 DEF OutputInv, BeingRead
  <2>11. Summed'
    <3> SUFFICES ASSUME fresh
                 PROVE  /\ Len(checksum) = Words
                        /\ \A k \in Nat \ {0}, j \in 1 .. Words :
                             k = total - Words - Words + j => checksum[j] = Sent(k)'.pkt
      BY <1>1, <2>3 DEF Summed
    <3>1. ASSUME NEW k \in Nat \ {0}, NEW j \in 1 .. Words, k = total - Words - Words + j
          PROVE  checksum[j] = Sent(k)'.pkt
      <4>1. k \in 1 .. total - Words
        BY <1>3, <3>1
      <4>2. k + Words \in Nat \ {0} /\ k + Words = total - Words + j
        BY <1>3, <3>1
      <4> QED BY <2>4, <4>1, <4>2 DEF OutputInv, Summed
    <3> QED BY <3>1 DEF OutputInv, Summed
  <2> QED BY <1>8, <2>5, <2>6, <2>7, <2>9, <2>10, <2>11 DEF OutputInv
<1>10. CASE ~w.last
  <2>1. /\ pipe' = (IF pipe = "first" THEN "second" ELSE "rest")
        /\ wire' = Append(wire, w)
    BY <1>2, <1>10 DEF Beat
  <2>2. /\ passed' = passed + 1 /\ passed + 1 < Words
        /\ wire'[passed + 1] = w /\ \A k \in 1 .. passed : wire'[k] = wire[k]
    <3>1. passed = Len(wire)
      BY DEF passed
    <3>2. passed' = Len(wire')
      BY DEF passed
    <3> QED BY <1>1, <1>2, <1>3, <1>7, <1>10, <2>1, <3>1, <3>2, Append1
  <2>3. total' = total
    BY <1>2, <1>3, <2>2 DEF total
  <2>4. \A k \in 1 .. total : Sent(k)' = Sent(k)
    <3> SUFFICES ASSUME NEW k \in 1 .. total PROVE Sent(k)' = Sent(k)
      OBVIOUS
    <3>1. CASE k =< passed
      <4>1. k \in 1 .. passed /\ k =< passed + 1
        BY <1>3, <3>1
      <4>2. Sent(k)' = wire'[k]
        BY <2>2, <4>1 DEF Sent
      <4> QED BY <2>2, <4>1, <4>2, Flow
    <3>2. CASE k = passed + 1
      <4>1. Sent(k)' = wire'[k]
        BY <1>3, <2>2, <3>2 DEF Sent
      <4> QED BY <1>4, <2>2, <3>2, <4>1
    <3>3. CASE k > passed + 1
      <4>1. /\ ~(k =< passed + 1) /\ k - (passed + 1) \in 1 .. n - 1
            /\ (k - (passed + 1)) + 1 = k - passed /\ k - passed \in 1 .. n
            /\ passed + (k - passed) = k
        BY <1>2, <1>3, <3>3
      <4>2. Sent(k)' = outFifo'[k - (passed + 1)]
        BY <2>2, <4>1 DEF Sent
      <4>3. Sent(passed + (k - passed)) = outFifo[k - passed]
        BY <4>1, Flow
      <4> QED BY <1>2, <4>1, <4>2, <4>3
    <3> QED BY <1>3, <3>1, <3>2, <3>3
  <2>5. BeatMoves
    BY <2>3, <2>4 DEF BeatMoves
  <2>6. Piped'
    <3>1. /\ (pipe = "first" <=> passed = 0) /\ (pipe = "second" <=> passed = 1)
      BY DEF OutputInv, Piped
    <3>2. /\ pipe' # "first" /\ passed' # 0
          /\ (pipe' = "second" <=> passed' = 1)
      BY <1>3, <2>1, <2>2, <3>1
    <3>3. passed' < Words /\ total' - partial' >= Words
      BY <1>3, <1>6, <2>2, <2>3
    <3> QED BY <3>2, <3>3 DEF Piped
  <2>7. SentCounted'
    BY <1>3, <2>3 DEF OutputInv, SentCounted
  <2>8. SentFramed'
    <3> SUFFICES ASSUME NEW g \in Nat, NEW i \in 1 .. Words, NEW j \in 1 .. Words,
                        At(g, i) =< total, At(g, j) =< total
                 PROVE  /\ (Sent(At(g, i))'.last <=> i = Words)
                        /\ Sent(At(g, i))'.port = Sent(At(g, j))'.port
      BY <2>3 DEF SentFramed
    <3>1. At(g, i) \in 1 .. total /\ At(g, j) \in 1 .. total
      BY <1>3, AtLeast
    <3> QED BY <2>4, <3>1 DEF OutputInv, SentFramed
  <2>9. BeingRead'
    <3> SUFFICES ASSUME state = "READ"
                 PROVE  /\ ~checksum_valid
                        /\ \A k \in Nat, j \in 1 .. pos : k = total - pos + j =>
                             Sent(k)'.pkt = acc[j] /\ Sent(k)'.port = out_port
      BY <1>1, <2>3 DEF BeingRead
    <3>1. partial = pos
      BY DEF partial
    <3>2. ASSUME NEW k \in Nat, NEW j \in 1 .. pos, k = total - pos + j
          PROVE  Sent(k)'.pkt = acc[j] /\ Sent(k)'.port = out_port
      <4>1. k \in 1 .. total
        BY <1>1, <1>3, <1>6, <3>1, <3>2
      <4> QED BY <2>4, <3>2, <4>1 DEF OutputInv, BeingRead
    <3> QED BY <3>2 DEF OutputInv, BeingRead
  <2>10. Summed'
    <3> SUFFICES ASSUME fresh
                 PROVE  /\ Len(checksum) = Words
                        /\ \A k \in Nat \ {0}, j \in 1 .. Words :
                             k = total - Words + j => checksum[j] = Sent(k)'.pkt
      BY <1>1, <2>3 DEF Summed
    <3>1. ASSUME NEW k \in Nat \ {0}, NEW j \in 1 .. Words, k = total - Words + j
          PROVE  checksum[j] = Sent(k)'.pkt
      <4>1. k \in 1 .. total
        BY <1>3, <3>1
      <4> QED BY <2>4, <3>1, <4>1 DEF OutputInv, Summed
    <3> QED BY <3>1 DEF OutputInv, Summed
  <2> QED BY <1>8, <2>5, <2>6, <2>7, <2>8, <2>9, <2>10 DEF OutputInv
<1> QED BY <1>9, <1>10

LEMMA OutputStep ==
  ASSUME Types, Handshake, InputInv, OutputInv, [Next]_vars PROVE OutputInv'
<1>1. CASE Beat
  BY <1>1, BeatOutput
<1>2. CASE StartTransfer
  BY <1>2, StartOutput
<1>3. CASE ReadWord
  BY <1>3, ReadOutput
<1>4. CASE WriteWord
  BY <1>4, WriteOutput
<1>5. CASE Release
  BY <1>5, ReleaseOutput
<1>6. CASE Arrive \/ Expire \/ UNCHANGED vars
  <2>1. /\ UNCHANGED <<outFifo, pipe, wire, state, pos, acc, checksum, checksum_valid, fresh>>
        /\ out_port' = out_port
    BY <1>6 DEF Arrive, Expire, vars, cpu, regs, engine, output
  <2> QED BY <2>1, OutputIdle
<1>7. CASE Firmware
  <2>1. UNCHANGED <<outFifo, pipe, wire, state, pos, acc, checksum, checksum_valid, fresh>>
    BY <1>7 DEF Firmware, Assemble, Sync, Grant, AwaitBoot, AwaitSweep, StartSweep,
                GrantInput, Idle, AckOut, AckIn, Disassemble, engine, output
  <2>2. state = "READ" => out_port' = out_port
    <3>1. CASE Grant \/ AwaitBoot
      BY <3>1 DEF Grant, AwaitBoot, Handshake
    <3>2. CASE ~Grant /\ ~AwaitBoot
      BY <1>7, <3>2 DEF Firmware, Assemble, Sync, AwaitSweep, StartSweep, GrantInput, Idle,
                        AckOut, AckIn, Disassemble, regs
    <3> QED BY <3>1, <3>2
  <2> QED BY <2>1, <2>2, OutputIdle
<1> QED BY <1>1, <1>2, <1>3, <1>4, <1>5, <1>6, <1>7 DEF Next, Engine

-----------------------------------------------------------------------------
(* The theorems.                                                             *)

Inv == Types /\ Handshake /\ InputInv /\ OutputInv

LEMMA InvHolds == Spec => []Inv
<1>1. Inv /\ [Next]_vars => Inv'
  BY TypesStep, HandshakeStep, InputStep, OutputStep DEF Inv
<1> QED BY <1>1, InitInv, PTL DEF Spec, Inv

\* No sequence of the state is longer than its FIFO.
LEMMA Capacity ==
  ASSUME Types, Handshake, InputInv
  PROVE  Len(inFifo) =< InCap /\ Len(accepted) =< InCap
<1> USE WordsAssumption, RoomAssumption
<1> DEFINE n == Len(inFifo)
           m == WholeFrames
<1>1. /\ held \in {0, 1} /\ moved \in 0 .. Words - 1 /\ arrived \in 0 .. Words - 1
      /\ m \in Nat /\ (held = 1 => moved = 0)
  BY Positions DEF held
<1>2. n \in Nat /\ n =< InCap
  BY DEF Types, InputInv, Room
<1>3. Len(accepted) = m + held + (IF arrived = 0 THEN 0 ELSE 1)
  BY <1>1 DEF WholeFrames, Types
<1>4. moved + n = m * Words + arrived
  BY DEF InputInv, Counted, At
<1> HIDE DEF n, m
<1>5. m # 0 => m * Words >= 3 * m /\ m * Words >= Words + 3 * (m - 1)
  <2> SUFFICES ASSUME m # 0 PROVE m * Words >= 3 * m /\ m * Words >= Words + 3 * (m - 1)
    OBVIOUS
  <2> DEFINE d == m - 1
             e == Words - 3
  <2>1. d \in Nat /\ m = d + 1 /\ e \in Nat /\ Words = e + 3
    BY <1>1
  <2>2. m * Words = d * Words + Words
    BY <2>1
  <2>3. d * Words = d * e + 3 * d /\ d * e \in Nat
    BY <2>1
  <2> QED BY <2>1, <2>2, <2>3
<1>6. m * Words \in Nat /\ (m = 0 => m * Words = 0)
  BY <1>1
<1>7. Len(accepted) =< InCap
  BY <1>1, <1>2, <1>3, <1>4, <1>5, <1>6
<1> QED BY <1>2, <1>7 DEF n

\* Everything has its type, and no FIFO or buffer overflows: the engine never
\* writes past a packet (dma.sv:209-313), the filter leaves room for the frame it
\* has begun (dma.sv:161, frame_filter.v:37-73).
THEOREM TypeCorrect == Spec => []TypeOK
<1>1. Inv => TypeOK
  <2> SUFFICES ASSUME Inv PROVE TypeOK
    OBVIOUS
  <2> USE WordsAssumption DEF Inv
  <2>1. Typed(queue, Ports, PORT_NUM)
    BY DEF Typed, Types
  <2>2. Typed(inFifo, InWord, InCap) /\ Typed(accepted, Packet, InCap)
    BY Capacity DEF Typed, Types
  <2>3. /\ Typed(outFifo, OutWord, OutCap) /\ Typed(acc, Packet, Words)
        /\ Typed(checksum, Packet, Words)
    BY DEF Typed, Types
  <2>4. Typed(wire, OutWord, Words)
    <3>1. wire \in Seq(OutWord)
      BY DEF Types
    <3>2. Len(wire) =< Words
      BY <3>1 DEF OutputInv, Piped, passed
    <3> QED BY <3>1, <3>2 DEF Typed
  <2>5. frame \in [pkt : Packet, pos : 0 .. Words, drop : BOOLEAN]
    BY DEF Types
  <2> QED BY <2>1, <2>2, <2>3, <2>4, <2>5 DEF TypeOK, Types
<1> QED BY <1>1, InvHolds, PTL

\* The packet handed to disassemble is the oldest accepted one, whole, with the
\* port it came in by (main.c:122-136, dma.sv:161-313, frame_filter.v:37-73).
THEOREM InputAlwaysIntact == Spec => []InputIntact
<1>1. Inv => InputIntact
  BY DEF Inv, InputInv, Assembled, Held, InputIntact
<1> QED BY <1>1, InvHolds, PTL

\* Nothing is written over a packet while the firmware works on it
\* (main.c:122-140, dma.sv:317-345).
THEOREM InputAlwaysHeld == Spec => InputHeld
<1>1. Inv /\ [Next]_vars => [Reading => wbuf' = wbuf]_wbuf
  <2> SUFFICES ASSUME Inv, [Next]_vars, Reading PROVE wbuf' = wbuf
    OBVIOUS
  <2>1. ~WriteWord
    BY DEF Inv, Handshake, Reading, WriteWord
  <2> QED BY <2>1 DEF Next, Arrive, Expire, Engine, StartTransfer, ReadWord, Release, Beat,
      Firmware, Assemble, Sync, Grant, AwaitBoot, AwaitSweep, StartSweep, GrantInput, Idle,
      AckOut, AckIn, Disassemble, vars
<1> QED BY <1>1, InvHolds, PTL DEF Spec, InputHeld

\* What leaves is the first packet of the stream.
LEMMA LeavesWhole ==
  ASSUME Inv, Next, Leaves
  PROVE  /\ Len(leaving) = Words /\ total >= Words
         /\ \A k \in 1 .. Words : leaving[k] = Sent(k)
<1> USE WordsAssumption
<1>1. Beat
  BY DEF Leaves, Next, Arrive, Expire, Engine, StartTransfer, WriteWord, ReadWord, Release,
      Firmware, Assemble, Sync, Grant, AwaitBoot, AwaitSweep, StartSweep, GrantInput, Idle,
      AckOut, AckIn, Disassemble, output
<1>2. /\ outFifo # <<>> /\ outFifo \in Seq(OutWord) /\ wire \in Seq(OutWord)
      /\ Head(outFifo) = outFifo[1] /\ outFifo[1] \in OutWord /\ Head(outFifo).last
  BY <1>1, Head1 DEF Beat, Leaves, Inv, Types
<1>3. /\ passed \in 1 .. Words - 1 /\ total = passed + Len(outFifo)
      /\ 1 \in 1 .. Len(outFifo) /\ Len(wire) = passed
      /\ total >= Words /\ partial \in 0 .. Words
  BY <1>2, Flow DEF Inv, OutputInv, Piped, Leaves, passed
<1>4. Sent(passed + 1) = outFifo[1] /\ \A k \in 1 .. passed : Sent(k) = wire[k]
  BY <1>3, Flow DEF Inv
<1>5. passed + 1 = Words
  <2>1. At(0, passed + 1) = passed + 1 /\ passed + 1 \in 1 .. Words /\ passed + 1 =< total
    BY <1>3, Stream
  <2> QED BY <1>2, <1>4, <2>1 DEF Inv, OutputInv, SentFramed
<1>6. /\ Len(leaving) = passed + 1 /\ leaving[passed + 1] = outFifo[1]
      /\ \A k \in 1 .. passed : leaving[k] = wire[k]
  BY <1>2, <1>3, Append1 DEF leaving
<1>7. ASSUME NEW k \in 1 .. Words PROVE leaving[k] = Sent(k)
  <2>1. k = passed + 1 \/ k \in 1 .. passed
    BY <1>3, <1>5
  <2> QED BY <1>4, <1>6, <2>1
<1> QED BY <1>3, <1>5, <1>6, <1>7

\* A packet takes a whole packet's sum and leaves whole, on one port, whatever
\* waits with it; the sum is its own as long as no transfer has begun since it
\* was read (dma.sv:383-436, 501-521, pipeline_rip.sv:44-84).
THEOREM OutputAlwaysFramed == Spec => OutputFramed
<1> USE WordsAssumption
<1>1. ASSUME Inv, Next, Leaves
      PROVE  /\ Len(leaving) = Words /\ total >= Words
             /\ \A k \in 1 .. Words : leaving[k] = Sent(k)
  BY <1>1, LeavesWhole
<1>2. ASSUME Inv, Next, Leaves, NEW k \in 1 .. Words
      PROVE  leaving[k].port = leaving[1].port /\ leaving[k].last = (k = Words)
  <2>0. total \in Nat /\ total >= Words
    BY <1>1, <1>2, Flow DEF Inv
  <2>1. /\ 1 \in 1 .. Words /\ At(0, 1) = 1 /\ At(0, k) = k /\ k =< total /\ 1 =< total
        /\ total \in Nat /\ 1 \in 1 .. total /\ k \in 1 .. total
    BY <2>0, Stream
  <2>2. Sent(k).port = Sent(1).port /\ (Sent(k).last <=> k = Words)
    BY <1>2, <2>1 DEF Inv, OutputInv, SentFramed
  <2>3. Sent(k).last \in BOOLEAN
    BY <1>2, <2>1, Flow, Words1 DEF Inv
  <2> QED BY <1>1, <1>2, <2>1, <2>2, <2>3
<1>3. ASSUME Inv, Stamps
      PROVE  /\ passed = 1 /\ total >= Words /\ Words - 1 \in 1 .. Len(outFifo)
             /\ outFifo[Words - 1].last
  <2>1. passed = 1 /\ total >= Words /\ total = 1 + Len(outFifo) /\ Len(outFifo) \in Nat
    BY <1>3, Flow DEF Inv, OutputInv, Piped, Stamps
  <2>2. Words - 1 \in 1 .. Len(outFifo) /\ 1 + (Words - 1) = Words
    BY <2>1
  <2>3. Sent(Words) = outFifo[Words - 1]
    BY <1>3, <2>1, <2>2, Flow DEF Inv
  <2>4. Sent(Words).last
    <3>1. At(0, Words) = Words /\ Words \in 1 .. Words
      BY Stream
    <3> QED BY <1>3, <2>1, <3>1 DEF Inv, OutputInv, SentFramed
  <2> QED BY <2>1, <2>2, <2>3, <2>4
<1>4. ASSUME Inv, Stamps, Timely
      PROVE  checksum = [k \in 1 .. Words |-> (wire \o outFifo)[k].pkt]
  <2>1. /\ wire \in Seq(OutWord) /\ outFifo \in Seq(OutWord) /\ Len(outFifo) \in Nat
        /\ checksum \in Seq(Packet) /\ fresh
    BY <1>4 DEF Inv, Types, Timely
  <2>2. Len(outFifo) = Words - 1 /\ Len(wire) = 1 /\ total = Words
    <3>1. ~(Words - 1 \in 1 .. Len(outFifo) - 1)
      BY <1>3, <1>4 DEF Timely
    <3>2. Len(outFifo) = Words - 1
      BY <1>3, <1>4, <2>1, <3>1
    <3>3. passed = Len(wire) /\ total = passed + Len(outFifo) /\ passed = 1
      BY <1>3, <1>4 DEF passed, total
    <3> QED BY <3>2, <3>3
  <2>3. Len(checksum) = Words
    BY <1>4, <2>1 DEF Inv, OutputInv, Summed
  <2>4. ASSUME NEW k \in 1 .. Words PROVE checksum[k] = (wire \o outFifo)[k].pkt
    <3>1. k \in Nat \ {0} /\ k = total - Words + k
      BY <2>2
    <3>2. checksum[k] = Sent(k).pkt
      BY <1>4, <2>1, <3>1 DEF Inv, OutputInv, Summed
    <3>3. (wire \o outFifo)[k] = IF k =< Len(wire) THEN wire[k] ELSE outFifo[k - Len(wire)]
      <4>1. k \in 1 .. Len(wire) + Len(outFifo)
        BY <2>2
      <4> QED BY <2>1, <4>1
    <3>4. (wire \o outFifo)[k] = Sent(k)
      BY <3>3 DEF Sent, passed
    <3> QED BY <3>2, <3>4
  <2>5. checksum = [k \in 1 .. Words |-> checksum[k]]
    BY <2>1, <2>3
  <2> QED BY <2>4, <2>5
<1>5. Inv /\ [Next]_vars =>
        [ /\ Leaves =>
               /\ Len(leaving) = Words
               /\ \A k \in 1 .. Words :
                    leaving[k].port = leaving[1].port /\ leaving[k].last = (k = Words)
          /\ Stamps => \E k \in 1 .. Len(outFifo) : outFifo[k].last
          /\ Stamps /\ Timely =>
               checksum = [k \in 1 .. Words |-> (wire \o outFifo)[k].pkt]]_vars
  BY <1>1, <1>2, <1>3, <1>4
<1> QED BY <1>5, InvHolds, PTL DEF Spec, OutputFramed

-----------------------------------------------------------------------------
(* The requests sent at boot.                                                *)

Request(p) == [kind |-> "request", port |-> p]
\* A packet is a request for the port it leaves by, or no request at all.
Own(w) == w.pkt = Request(w.port)
Update(w) == w.pkt.kind = "update"

\* The words assembled so far for the port at the head of the queue.
assembled == IF pc = "assemble" THEN wpos - 1 ELSE Words
Assembling ==
  /\ pc # "assemble" => wpos = 1
  /\ job = "boot" => pc # "sync"
  /\ pc \in {"assemble", "sync", "grant"} =>
       \A k \in 1 .. assembled : IF job = "boot" THEN rbuf[k] = Request(Head(queue))
                                                 ELSE rbuf[k].kind = "update"
\* While a request is read the firmware waits; an update may be overwritten by
\* the next one, but only by an update.
Source ==
  stb /\ ~we /\ state \in {"IDLE", "READ"} =>
    IF job = "boot"
    THEN pc = "await" /\ \A k \in 1 .. Words : rbuf[k] = Request(out_port)
    ELSE \A k \in 1 .. Words : rbuf[k].kind = "update"
ReadAlike ==
  state = "READ" =>
    \A j \in 1 .. pos : IF job = "boot" THEN acc[j] = Request(out_port)
                                         ELSE acc[j].kind = "update"
SentAlike ==
  \A f \in Nat, i, j \in 1 .. Words :
    At(f, i) =< total /\ At(f, j) =< total =>
      \/ Own(Sent(At(f, i))) /\ Own(Sent(At(f, j)))
      \/ Update(Sent(At(f, i))) /\ Update(Sent(At(f, j)))
RequestInv == Assembling /\ Source /\ ReadAlike /\ SentAlike

LEMMA RequestInit == Init => RequestInv
<1> SUFFICES ASSUME Init PROVE RequestInv
  OBVIOUS
<1> USE WordsAssumption DEF Init
<1>1. Assembling /\ Source /\ ReadAlike
  BY DEF Assembling, assembled, Source, ReadAlike
<1>2. SentAlike
  <2>1. total = 0
    BY DEF passed, total
  <2>2. \A g \in Nat, i \in 1 .. Words : ~(At(g, i) =< 0)
    BY AtLeast
  <2> QED BY <2>1, <2>2 DEF SentAlike
<1> QED BY <1>1, <1>2 DEF RequestInv

\* Steps that touch neither the packet being read nor those leaving.
LEMMA RequestFrame ==
  ASSUME RequestInv, Assembling', Source', UNCHANGED <<outFifo, pipe, wire>>,
         state' = "READ" => UNCHANGED <<job, state, out_port, pos, acc>>
  PROVE  RequestInv'
<1>1. passed' = passed /\ total' = total /\ (\A k : Sent(k)' = Sent(k))
  BY DEF passed, total, Sent
<1>2. ReadAlike'
  BY DEF RequestInv, ReadAlike
<1>3. SentAlike'
  BY <1>1 DEF RequestInv, SentAlike, Own, Update
<1> QED BY <1>2, <1>3 DEF RequestInv

LEMMA RequestRead ==
  ASSUME Types, Handshake, OutputInv, RequestInv, ReadWord PROVE RequestInv'
<1> USE WordsAssumption
<1>1. /\ state = "READ" /\ stb /\ ~we /\ pos \in 0 .. Words - 1 /\ pos' = pos + 1
      /\ acc' = Append(acc, rbuf[pos + 1])
      /\ UNCHANGED <<pc, job, queue, wpos, stb, we, out_port, rbuf, pipe, wire>>
      /\ state' \in {"READ", "DONE"}
  BY DEF ReadWord, cpu, regs, output, Handshake, Types
<1>2. /\ total' = total + 1
      /\ \A k \in 1 .. total : Sent(k)' = Sent(k)
      /\ \A k \in Nat : k = total + 1 =>
           Sent(k)'.pkt = rbuf[pos + 1] /\ Sent(k)'.port = out_port
  BY ReadOutput DEF ReadMoves
<1>3. /\ \A j \in 1 .. pos : acc'[j] = acc[j]
      /\ acc'[pos + 1] = rbuf[pos + 1]
  <2>1. acc \in Seq(Packet) /\ Len(acc) = pos /\ rbuf[pos + 1] \in Packet
    BY <1>1 DEF Types, OutputInv, Summing
  <2> QED BY <1>1, <2>1, Append1
<1>4. IF job = "boot" THEN rbuf[pos + 1] = Request(out_port)
                      ELSE rbuf[pos + 1].kind = "update"
  <2>1. pos + 1 \in 1 .. Words
    BY <1>1
  <2> QED BY <1>1, <2>1 DEF RequestInv, Source
<1>5. Assembling' /\ Source'
  <2>1. assembled' = assembled
    BY <1>1 DEF assembled
  <2> QED BY <1>1, <2>1 DEF RequestInv, Assembling, Source
<1>6. ReadAlike'
  <2>1. \A j \in 1 .. pos + 1 : j = pos + 1 \/ j \in 1 .. pos
    BY <1>1
  <2> QED BY <1>1, <1>3, <1>4, <2>1 DEF RequestInv, ReadAlike
\* The words of the packet being read are all of one kind.
<1>7. PICK f \in Nat : total = At(f, pos)
  BY <1>1 DEF OutputInv, SentCounted, partial
<1>at. At(f, 0) \in Nat /\ \A i \in Nat : At(f, i) = At(f, 0) + i
  <2>1. f * Words \in Nat
    OBVIOUS
  <2> QED BY <2>1 DEF At
<1>8. At(f, 0) \in Nat /\ total \in Nat /\ total = At(f, 0) + pos
  BY <1>1, <1>7, <1>at, Flow
<1>9. ASSUME NEW i \in 1 .. Words, At(f, i) =< total + 1
      PROVE  IF job = "boot" THEN Own(Sent(At(f, i)))' ELSE Update(Sent(At(f, i)))'
  <2>0. i \in Nat /\ At(f, i) \in Nat /\ At(f, i) = At(f, 0) + i
    BY <1>at
  <2> SUFFICES ASSUME NEW a \in Nat, a = At(f, i)
               PROVE  IF job = "boot" THEN Own(Sent(a))' ELSE Update(Sent(a))'
    BY <2>0
  <2>1. i \in 1 .. pos + 1 /\ a = total - pos + i
    BY <1>1, <1>8, <1>9, <2>0
  <2>2. CASE i = pos + 1
    <3>1. a = total + 1
      BY <1>1, <1>8, <2>1, <2>2
    <3>2. Sent(a)'.pkt = rbuf[pos + 1] /\ Sent(a)'.port = out_port
      BY <1>2, <3>1
    <3> QED BY <1>4, <3>2 DEF Own, Update, Request
  <2>3. CASE i # pos + 1
    <3>1. i \in 1 .. pos /\ a \in 1 .. total
      BY <1>1, <1>8, <2>0, <2>1, <2>3
    <3>2. Sent(a).pkt = acc[i] /\ Sent(a).port = out_port
      BY <1>1, <2>1, <3>1 DEF OutputInv, BeingRead
    <3>3. IF job = "boot" THEN acc[i] = Request(out_port) ELSE acc[i].kind = "update"
      BY <1>1, <3>1 DEF RequestInv, ReadAlike
    <3>4. Sent(a)' = Sent(a)
      BY <1>2, <3>1
    <3> QED BY <3>2, <3>3, <3>4 DEF Own, Update, Request
  <2> QED BY <2>2, <2>3
<1>10. SentAlike'
  <2> SUFFICES ASSUME NEW g \in Nat, NEW i \in 1 .. Words, NEW j \in 1 .. Words,
                      At(g, i) =< total + 1, At(g, j) =< total + 1
               PROVE  \/ Own(Sent(At(g, i)))' /\ Own(Sent(At(g, j)))'
                      \/ Update(Sent(At(g, i)))' /\ Update(Sent(At(g, j)))'
    BY <1>2 DEF SentAlike
  <2>1. CASE g = f
    BY <1>9, <2>1
  <2>2. CASE g # f
    <3>1. ASSUME NEW k \in 1 .. Words, At(g, k) =< total + 1
          PROVE  At(g, k) \in 1 .. total
      <4>1. At(g, k) \in Nat /\ At(g, k) >= 1
        BY AtLeast
      <4>2. At(f, pos + 1) = total + 1 /\ pos + 1 \in 1 .. Words
        BY <1>1, <1>8, <1>at
      <4>3. At(g, k) # total + 1
        BY <2>2, <4>2, OneWord
      <4> QED BY <1>8, <3>1, <4>1, <4>3
    <3>2. At(g, i) \in 1 .. total /\ At(g, j) \in 1 .. total
      BY <3>1
    <3>3. \/ Own(Sent(At(g, i))) /\ Own(Sent(At(g, j)))
          \/ Update(Sent(At(g, i))) /\ Update(Sent(At(g, j)))
      BY <1>8, <3>2 DEF RequestInv, SentAlike
    <3>4. Sent(At(g, i))' = Sent(At(g, i)) /\ Sent(At(g, j))' = Sent(At(g, j))
      BY <1>2, <3>2
    <3> QED BY <3>3, <3>4 DEF Own, Update
  <2> QED BY <2>1, <2>2
<1> QED BY <1>5, <1>6, <1>10 DEF RequestInv

LEMMA RequestBeat ==
  ASSUME Types, Handshake, OutputInv, RequestInv, Beat PROVE RequestInv'
<1> USE WordsAssumption
<1>1. UNCHANGED <<pc, job, queue, wpos, stb, we, out_port, rbuf, state, pos, acc>>
  BY DEF Beat, cpu, regs, engine
<1>2. BeatMoves /\ total \in Nat
  BY BeatOutput, Flow
<1>3. Assembling' /\ Source' /\ ReadAlike'
  <2>1. assembled' = assembled
    BY <1>1 DEF assembled
  <2> QED BY <1>1, <2>1 DEF RequestInv, Assembling, Source, ReadAlike
\* Word i of packet f is word i of the same packet, or of the next one.
<1>4. \E d \in {0, 1} : \A g \in Nat, i \in 1 .. Words :
        At(g, i) =< total' =>
          At(g + d, i) =< total /\ Sent(At(g, i))' = Sent(At(g + d, i))
  <2>1. CASE /\ total >= Words /\ total' = total - Words
             /\ \A k \in 1 .. total - Words : Sent(k)' = Sent(k + Words)
    <3>1. ASSUME NEW g \in Nat, NEW i \in 1 .. Words, At(g, i) =< total'
          PROVE  At(g + 1, i) =< total /\ Sent(At(g, i))' = Sent(At(g + 1, i))
      <4>1. At(g, i) \in Nat /\ At(g, i) >= 1 /\ At(g + 1, i) = At(g, i) + Words
        BY AtLeast, Stream
      <4>2. At(g, i) \in 1 .. total - Words
        BY <1>2, <2>1, <3>1, <4>1
      <4> QED BY <1>2, <2>1, <4>1, <4>2
    <3> QED BY <3>1
  <2>2. CASE total' = total /\ \A k \in 1 .. total : Sent(k)' = Sent(k)
    <3>1. ASSUME NEW g \in Nat, NEW i \in 1 .. Words, At(g, i) =< total'
          PROVE  At(g + 0, i) =< total /\ Sent(At(g, i))' = Sent(At(g + 0, i))
      <4>1. At(g, i) \in 1 .. total /\ g + 0 = g
        BY <1>2, <2>2, <3>1, AtLeast
      <4> QED BY <2>2, <3>1, <4>1
    <3> QED BY <3>1
  <2> QED BY <1>2, <2>1, <2>2 DEF BeatMoves
<1>5. SentAlike'
  <2>1. PICK d \in {0, 1} : \A g \in Nat, i \in 1 .. Words :
          At(g, i) =< total' =>
            At(g + d, i) =< total /\ Sent(At(g, i))' = Sent(At(g + d, i))
    BY <1>4
  <2> SUFFICES ASSUME NEW g \in Nat, NEW i \in 1 .. Words, NEW j \in 1 .. Words,
                      At(g, i) =< total', At(g, j) =< total'
               PROVE  \/ Own(Sent(At(g, i)))' /\ Own(Sent(At(g, j)))'
                      \/ Update(Sent(At(g, i)))' /\ Update(Sent(At(g, j)))'
    BY DEF SentAlike
  <2>2. g + d \in Nat
    OBVIOUS
  <2>3. /\ At(g + d, i) =< total /\ Sent(At(g, i))' = Sent(At(g + d, i))
        /\ At(g + d, j) =< total /\ Sent(At(g, j))' = Sent(At(g + d, j))
    BY <2>1
  <2>4. \/ Own(Sent(At(g + d, i))) /\ Own(Sent(At(g + d, j)))
        \/ Update(Sent(At(g + d, i))) /\ Update(Sent(At(g + d, j)))
    BY <2>2, <2>3 DEF RequestInv, SentAlike
  <2> QED BY <2>3, <2>4 DEF Own, Update
<1> QED BY <1>3, <1>5 DEF RequestInv

LEMMA RequestAssemble ==
  ASSUME Types, Handshake, RequestInv, Assemble PROVE Assembling' /\ Source'
<1> USE WordsAssumption
<1> DEFINE word == [kind |-> IF job = "boot" THEN "request" ELSE "update",
                    port |-> Head(queue)]
           Right(w) == IF job = "boot" THEN w = Request(Head(queue)) ELSE w.kind = "update"
<1>1. /\ pc = "assemble" /\ wpos \in 1 .. Words /\ rbuf \in [1 .. Words -> Packet]
      /\ rbuf' = [rbuf EXCEPT ![wpos] = word]
      /\ UNCHANGED <<job, queue, stb, we, out_port, state>>
  BY DEF Assemble, regs, engine, Types
<1>2. Right(word)
  BY DEF Request
<1>3. \A k \in 1 .. Words : rbuf'[k] = IF k = wpos THEN word ELSE rbuf[k]
  BY <1>1
<1>4. \A k \in 1 .. wpos - 1 : Right(rbuf[k])
  BY <1>1 DEF RequestInv, Assembling, assembled
<1> HIDE DEF word, Right
<1>5. \A k \in 1 .. wpos : Right(rbuf'[k])
  <2> SUFFICES ASSUME NEW k \in 1 .. wpos PROVE Right(rbuf'[k])
    OBVIOUS
  <2>1. k \in 1 .. Words /\ (k = wpos \/ k \in 1 .. wpos - 1)
    BY <1>1
  <2>2. CASE k = wpos
    BY <1>2, <1>3, <2>1, <2>2
  <2>3. CASE k # wpos
    BY <1>3, <1>4, <2>1, <2>3
  <2> QED BY <2>2, <2>3
<1>6. Assembling'
  <2>1. CASE wpos < Words
    <3>1. pc' = "assemble" /\ wpos' = wpos + 1
      BY <1>1, <2>1 DEF Assemble
    <3>2. assembled' = wpos
      BY <1>1, <3>1 DEF assembled
    <3> QED BY <1>1, <1>5, <3>1, <3>2 DEF Assembling, Right
  <2>2. CASE wpos = Words
    <3>1. wpos' = 1 /\ pc' \in {"grant", "sync"} /\ (job = "boot" => pc' = "grant")
      BY <1>1, <2>2 DEF Assemble
    <3>2. assembled' = wpos
      BY <2>2, <3>1 DEF assembled
    <3> QED BY <1>1, <1>5, <3>1, <3>2 DEF Assembling, Right
  <2> QED BY <1>1, <2>1, <2>2
<1>7. Source'
  <2>1. CASE job = "boot"
    BY <1>1, <2>1 DEF Source, Handshake
  <2>2. CASE job # "boot"
    <3>1. \A k \in 1 .. Words : rbuf[k].kind = "update" => rbuf'[k].kind = "update"
      BY <1>2, <1>3, <2>2 DEF Right
    <3> QED BY <1>1, <2>2, <3>1 DEF RequestInv, Source
  <2> QED BY <2>1, <2>2
<1> QED BY <1>6, <1>7

LEMMA RequestGrant ==
  ASSUME Types, Handshake, RequestInv, Grant PROVE Assembling' /\ Source'
<1>1. /\ pc = "grant" /\ state = "IDLE" /\ out_port' = Head(queue)
      /\ UNCHANGED <<job, wpos, rbuf, state>>
  BY DEF Grant, Settled, engine, Handshake, Types
<1>2. wpos = 1
  BY <1>1 DEF RequestInv, Assembling
<1>3. /\ pc' \in {"await", "assemble", "loop"} /\ (job = "boot" => pc' = "await")
  <2>1. CASE job = "boot"
    BY <2>1 DEF Grant
  <2>2. CASE job # "boot"
    BY <2>2 DEF Grant, Types
  <2> QED BY <2>1, <2>2
<1>4. \A k \in 1 .. Words : IF job = "boot" THEN rbuf[k] = Request(Head(queue))
                                            ELSE rbuf[k].kind = "update"
  BY <1>1 DEF RequestInv, Assembling, assembled
<1>5. Assembling'
  <2>1. pc' = "assemble" => assembled' = 0
    BY <1>1, <1>2 DEF assembled
  <2> QED BY <1>1, <1>2, <1>3, <2>1 DEF Assembling
<1>6. Source'
  BY <1>1, <1>3, <1>4 DEF Source
<1> QED BY <1>5, <1>6

LEMMA RequestStep ==
  ASSUME Types, Handshake, OutputInv, RequestInv, [Next]_vars PROVE RequestInv'
<1>1. CASE ReadWord
  BY <1>1, RequestRead
<1>2. CASE Beat
  BY <1>2, RequestBeat
<1>3. CASE StartTransfer
  <2>1. /\ UNCHANGED <<pc, job, queue, wpos, stb, we, out_port, rbuf, pipe, wire, outFifo>>
        /\ state = "IDLE" /\ stb /\ pos' = 0
        /\ state' = IF we THEN "WRITE" ELSE "READ"
    BY <1>3 DEF StartTransfer, cpu, regs, output
  <2>2. assembled' = assembled /\ passed' = passed /\ total' = total
        /\ (\A k : Sent(k)' = Sent(k))
    BY <2>1 DEF assembled, passed, total, Sent
  <2>3. Assembling' /\ Source' /\ ReadAlike'
    BY <2>1, <2>2 DEF RequestInv, Assembling, Source, ReadAlike
  <2>4. SentAlike'
    BY <2>2 DEF RequestInv, SentAlike, Own, Update
  <2> QED BY <2>3, <2>4 DEF RequestInv
<1>4. CASE WriteWord \/ Release
  <2>1. /\ UNCHANGED <<pc, job, queue, wpos, stb, we, out_port, rbuf, pipe, wire, outFifo>>
        /\ state # "READ" /\ state' # "READ" /\ (state' = "IDLE" => ~stb)
    <3>1. CASE WriteWord
      BY <3>1 DEF WriteWord, cpu, regs, output
    <3>2. CASE Release
      BY <3>2 DEF Release, cpu, regs, output
    <3> QED BY <1>4, <3>1, <3>2
  <2>2. assembled' = assembled
    BY <2>1 DEF assembled
  <2>3. Assembling' /\ Source'
    BY <2>1, <2>2 DEF RequestInv, Assembling, Source
  <2> QED BY <2>1, <2>3, RequestFrame
<1>5. CASE Arrive \/ Expire \/ UNCHANGED vars
  <2>1. /\ UNCHANGED <<pc, job, queue, wpos, stb, we, out_port, rbuf, pipe, wire, outFifo>>
        /\ UNCHANGED <<state, pos, acc>>
    BY <1>5 DEF Arrive, Expire, vars, cpu, regs, engine, output
  <2>2. assembled' = assembled
    BY <2>1 DEF assembled
  <2>3. Assembling' /\ Source'
    BY <2>1, <2>2 DEF RequestInv, Assembling, Source
  <2> QED BY <2>1, <2>3, RequestFrame
<1>6. CASE Firmware
  <2>1. UNCHANGED <<outFifo, pipe, wire, acc, state, pos>>
    BY <1>6 DEF Firmware, Assemble, Sync, Grant, AwaitBoot, AwaitSweep, StartSweep,
                GrantInput, Idle, AckOut, AckIn, Disassemble, engine, output
  <2>3. state = "READ" => UNCHANGED <<out_port, job>>
    <3>1. CASE Grant \/ AwaitBoot
      BY <3>1 DEF Grant, AwaitBoot, Handshake
    <3>2. CASE StartSweep \/ Disassemble
      BY <3>2 DEF StartSweep, Disassemble, Handshake
    <3>3. CASE ~Grant /\ ~AwaitBoot /\ ~StartSweep /\ ~Disassemble
      BY <1>6, <3>3 DEF Firmware, Assemble, Sync, AwaitSweep, GrantInput, Idle,
                        AckOut, AckIn, regs, cpu
    <3> QED BY <3>1, <3>2, <3>3
  <2>4. Assembling' /\ Source'
    <3>1. CASE Assemble
      BY <3>1, RequestAssemble
    <3>2. CASE Grant
      BY <3>2, RequestGrant
    <3>3. CASE Sync
      <4>1. /\ pc = "sync" /\ pc' = "grant" /\ stb' = FALSE
            /\ UNCHANGED <<job, queue, wpos, rbuf>>
        BY <3>3 DEF Sync
      <4>2. assembled' = assembled
        BY <4>1 DEF assembled
      <4> QED BY <4>1, <4>2 DEF RequestInv, Assembling, Source
    <3>4. CASE AwaitBoot
      <4>1. /\ pc = "await" /\ pc' \in {"assemble", "loop"} /\ stb' = FALSE /\ wpos' = wpos
        BY <3>4 DEF AwaitBoot
      <4>2. wpos = 1
        BY <4>1 DEF RequestInv, Assembling
      <4>3. pc' = "assemble" => assembled' = 0
        BY <4>1, <4>2 DEF assembled
      <4> QED BY <4>1, <4>2, <4>3 DEF Assembling, Source
    <3>5. CASE AwaitSweep
      BY <2>1, <3>5 DEF AwaitSweep, RequestInv, Assembling, Source
    <3>6. CASE StartSweep \/ Disassemble
      <4>1. /\ pc \in {"loop", "process"} /\ pc' \in {"assemble", "loop"} /\ ~stb
            /\ stb' = stb /\ wpos' = wpos
        BY <3>6 DEF StartSweep, Disassemble, Handshake, regs
      <4>2. wpos = 1
        BY <4>1 DEF RequestInv, Assembling
      <4>3. pc' = "assemble" => assembled' = 0
        BY <4>1, <4>2 DEF assembled
      <4> QED BY <4>1, <4>2, <4>3 DEF Assembling, Source
    <3>7. CASE GrantInput \/ AckOut \/ AckIn
      <4>1. /\ pc = "loop" /\ pc' \in {"loop", "process"} /\ wpos' = wpos
            /\ (we' = TRUE \/ stb' = FALSE)
        BY <3>7 DEF GrantInput, AckOut, AckIn, cpu
      <4> QED BY <4>1 DEF RequestInv, Assembling, Source
    <3>8. CASE Idle
      <4>1. pc = "loop" /\ UNCHANGED <<pc, wpos, job, stb, we, out_port, rbuf>>
        BY <3>8 DEF Idle, regs
      <4> QED BY <2>1, <4>1 DEF RequestInv, Assembling, Source
    <3> QED BY <1>6, <3>1, <3>2, <3>3, <3>4, <3>5, <3>6, <3>7, <3>8 DEF Firmware
  <2>5. state' = "READ" => UNCHANGED <<job, state, out_port, pos, acc>>
    BY <2>1, <2>3
  <2> QED BY <2>1, <2>4, <2>5, RequestFrame
<1> QED BY <1>1, <1>2, <1>3, <1>4, <1>5, <1>6 DEF Next, Engine

\* The requests of the boot leave as they were assembled, each by its own port,
\* although they share one buffer: start() waits for each (main.c:80-91).
THEOREM RequestsAlwaysIntact == Spec => RequestsIntact
<1>1. Inv /\ RequestInv /\ [Next]_vars => RequestInv'
  BY RequestStep DEF Inv
<1>2. Inv /\ RequestInv /\ [Next]_vars =>
        [Leaves /\ leaving[1].pkt.kind = "request" =>
           \A k \in 1 .. Words :
             leaving[k].pkt = leaving[1].pkt /\ leaving[k].port = leaving[1].pkt.port]_vars
  <2> SUFFICES ASSUME Inv, RequestInv, Next, Leaves, leaving[1].pkt.kind = "request",
                      NEW k \in 1 .. Words
               PROVE  leaving[k].pkt = leaving[1].pkt /\ leaving[k].port = leaving[1].pkt.port
    OBVIOUS
  <2>1. /\ 1 \in 1 .. Words /\ total >= Words /\ total \in Nat
        /\ leaving[1] = Sent(1) /\ leaving[k] = Sent(k)
    BY WordsAssumption, LeavesWhole, Flow DEF Inv
  <2>2. At(0, 1) = 1 /\ At(0, k) = k /\ k =< total /\ 1 =< total
    BY <2>1, Stream, WordsAssumption
  <2>3. Own(Sent(1)) /\ Own(Sent(k))
    BY <2>1, <2>2 DEF RequestInv, SentAlike, Update
  <2>4. Sent(k).port = Sent(1).port
    BY <2>1, <2>2 DEF Inv, OutputInv, SentFramed
  <2>5. /\ leaving[k].pkt = Request(leaving[1].port)
        /\ leaving[1].pkt = Request(leaving[1].port)
    BY <2>1, <2>3, <2>4 DEF Own
  <2>6. leaving[1].pkt.port = leaving[1].port
    BY <2>5 DEF Request
  <2> QED BY <2>1, <2>4, <2>5, <2>6
<1> QED BY <1>1, <1>2, RequestInit, InvHolds, PTL DEF Spec, RequestsIntact
=============================================================================
