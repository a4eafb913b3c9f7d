# Verification of the Core IPv6 Router

TLA+ models, TLC runs and TLAPS proofs for the router in `src/`: an FPGA
datapath that forwards IPv6, answers neighbour discovery and hands RIPng packets
to a RISC-V core whose firmware keeps the routing table. `new/` below stands for
`src/tanlabs/tanlabs.srcs/sources_1/new/`.

## 1. The system

| Part | State | Operations | Talks to |
|---|---|---|---|
| RIPng handler, `firmware/protocol.c`, `timer.c`, `main.c` | `memory_rte`, `rte_map`, spare indexes, multicast timer | boot, request, response, periodic sweep, ageing | tries, next hop table, DMA |
| Software tries, `firmware/trie/` | VC trie and binary trie in BRAM, default-route flag | insert, lookup, delete, modify | hardware tries (same BRAM) |
| DMA link, `new/wb/dma.sv`, `dma_adapter.sv`, `include/dma.h` | engine state, FIFOs, STB/WE/ACK, checksum | grant, transfer, acknowledge | firmware, RIP pipeline |
| Input arbiter, `new/arbiters/in_arbiter.sv` | FSM | route a frame to NS, NA, RIP or forward | pipelines |
| Output arbiter and frame filter, `new/arbiters/out_arbiter.sv`, `new/frame_filter.v` | FSM, drop flag | one frame at a time to the egress | pipelines |
| Forwarding, `new/pipelines/pipeline_forward.sv` | valid/ready stages | check, look up, rewrite, drop | hardware tries, next hop table, neighbour cache |
| NS, NA, NUD, `new/pipelines/pipeline_n*.sv` | FSMs over two-beat frames | answer an NS, learn an address, probe | neighbour cache, output arbiter |
| Neighbour cache, `new/dataStructures/neighbor_cache.sv` | 4 ports x 8 entries | read twice, write once per cycle | forward and RIP pipelines, NS, NA |
| Hardware tries, `new/dataStructures/trie*.sv` | pipeline registers | longest prefix match | BRAM shared with the CPU |
| CPU and bus, `new/cpu/`, `new/wb/` | registers, Wishbone | run the firmware | everything |

**What is hard.** The firmware is one thread without interrupts, but it races
with a clock it reads modulo 256, with an engine that reads the buffer it
writes, and with packets that come whenever they like; one route lives in four
structures. The datapath is a set of state machines on one clock that hand
beats, drop flags and a checksum to each other with valid/ready, so everything
depends on which of two things happens first. The two meet in the tries, which
the firmware rewrites word by word while the datapath reads them. Nothing is
persisted, but the board's reset restarts the firmware at any instruction and
clears neither the block RAMs nor `.data`.

**What makes each part correct.**

- *RIPng handler*: the four structures describe the same routes; timers tell the
  true age; a dead route leaves; only its own port may worsen a route; direct
  routes are untouchable; what is advertised is what the table says, poisoned.
- *DMA link*: every accepted packet reaches the firmware once, whole, with its
  port; every packet sent leaves whole, by its port, with its own checksum; no
  wait is endless. (Both of the last hold on conditions only, see `dma` in section 3.)
- *Neighbour cache*: one entry per address and port; a lookup gives the newest
  MAC; a full port replaces its oldest entry.
- *Arbiters and pipelines*: frames leave whole and unmixed; a frame dropped at
  its first beat is dropped to its last; no source waits for ever.
- *Tries*: whatever is inserted, refused, changed and deleted, the two tries are
  one map; no node is in use twice; the datapath, reading while the firmware
  writes, gets the longest match.

## 2. Modules

### RipTable (with MCRipTable)

State and code: `trie`, `rte_map`, `memory_rte`, `spare_memory_index`,
`nexthop_table`, `spare_nexthop_index`, `multicast_timer` are the firmware's
globals (`trie` stands for the two tries of `tries.c`, as the map they
implement, including that the binary trie reports inner nodes). `pc` and `cur`
are the place in `start()`/`disassemble()`; `pending` is `send_entries`; `sent`
is what the last step gave to `send_response`. `age`, `via`, `hopsLapped`,
`slotsLapped`, `sinceSweep` are history.

Actions: `config_direct_route`; `StartSweep`, `SweepPort` (one port of
`send_unsolicited_response`); `GrantInput`, `Receive`; `RequestRte`,
`WholeTableRequest`; `ResponseRte`, whose disjuncts are the branches of
`disassemble`: `IgnoreRte`, `Withdraw`, `WithdrawLost`, `Worsen`, `SwitchHop`,
`Renew`, `Improve`, `SkipUnreachable`, `AddRoute`, `TrieFull`; `RejectPacket`,
`EndPacket`; and `Tick` of the mtime counter.

Abstractions: a packet is read one RTE at a time, so its contents are chosen as
they are read (a packet of at most `MaxRtes`); a header that fails a check is a
`RejectPacket`. The clock does not advance inside the handling of one RTE nor
inside one port's sweep. `rte_map` is indexed by prefix. Record 0, which the
code reads when a lookup hits an inner node of the binary trie, is kept. The
addresses in packets are the speakers' of `Neighbours`.

Bounds of the map that stands for the tries: inner nodes are those on the paths of
routes. The code also finds the entry points for a prefix of one bit
(`binary_trie.c:90-106`), so no prefix announced here has one bit; and the nodes a
refused insertion leaves behind (`binary_trie.c:158`), which `Tries` models and
this map does not. No prefix of more than 64 bits is announced to the binary trie:
it would be accepted, never be found again (`trie128.sv:45`) and take a new record
each time it is received.

### DmaLink (with MCDmaLink)

State: `stb`, `we`, `out_port` are the CSRs the CPU writes; `state`, `pos`,
`dma_port_id`, `acc`, `checksum`, `checksum_valid` the engine; `inFifo`, `frame`
the input FIFO and the frame in the filter; `outFifo`, `pipe`, `wire`
the output FIFO and the entry of `pipeline_rip`; `wbuf`, `rbuf` the two SRAM
blocks; `pc`, `job`, `queue`, `wpos` the firmware. `accepted` and `fresh` (the engine has
not been started since it read the last packet) are history.

Actions: `Arrive`; `StartTransfer`, `WriteWord`, `ReadWord`, `Release` of the
engine; `Beat` of the pipeline; `Assemble`, `Sync`, `Grant`, `AwaitBoot`,
`AwaitSweep`, `StartSweep`, `GrantInput`, `Idle`, `AckOut`, `AckIn`,
`Disassemble` of the firmware; `Expire` of the multicast timer.

CPU, engine and datapath share one clock (`core_clk = eth_clk`). The actions
interleave freely except where the clock leaves no choice:

- `Settled`: between clearing and setting STB the CPU makes three other bus
  writes, and the engine needs one cycle to go from DONE to IDLE.
- `WriteWord` finds a word whenever the engine writes: the ingress interconnect
  runs in packet mode, so a frame arrives without gaps.

A beat at the entry of the RIP pipeline may wait for as long as it likes, since the
output arbiter may be serving another source (`pipeline_rip.sv:84, 155`). Nothing
in the firmware or the engine looks at that: the next packet is assembled, granted
and read while the ones before are still in the output FIFO, which holds two of
them (`pipeline_rip.sv:24`).

### NeighborCache and NeighborMap (with MCNeighborCache)

`NeighborMap` is what readers may rely on: per port a map from addresses to MAC
addresses with at most `NUM_ENTRIES` keys, changed by `Update`, `Insert` and
`Replace`. `NeighborCache` is the circuit, a step a clock cycle: `entries`,
`next_replace_addr`, the write register `buffer` of `frame_datapath.sv`, the NA
pipeline (`na_state`, `na`), the write pulse of the NS pipeline (`ns`), and
`order`, a history of which of two addresses a port learned first. `Matches`, `Highest`,
`Empty`, `Lowest` are the priority loops over the CAM; `WriteController` decides
between `Update`, `Insert` and `Replace`; `cache_w` and `na_ready` are the
arbiter. `ImplementsMap` is the refinement, through `map == [p, a |-> what port 0
of the CAM reads]`.

An NA is the entry it teaches; the verdict on its checksum takes any time. The NS
pulse never lasts two cycles in a row: NS_CACHE raises it and NS_SEND_2 lowers
it. The ageing of entries and the probes it would start are commented out in the
source and so are not in the model.

### Egress (with MCEgress)

Everything from the pipelines' output registers to the transmit FIFO, a step a
clock cycle, every module in every step: `PipelineNs` with its states (`InitStart`
to `NsSend2`) and its output register `NsOut`, which follows the state a cycle
later; `PipelineNud` and `NudOut`; the registers `fw_out` and `rip_out`
(`FW_OUT_REG`); `OutArbiter` with `next_state` and the combinational `out` and
`*_ready`; `FrameFilter` with `drop_current`; `WidthConverter`. `open` and `alone`
are history.

Abstractions: a beat is its number in its frame and whether the frame is marked
to drop; checksums take any number of cycles; the 30 s timer may run out at any
time in NS_IDLE; a forwarded or RIP frame has two beats or more (56 bytes per
beat, and an Ethernet frame has at least 60) and its next beat may come after
any pause. NS_BOOT is never entered, since reset goes to NS_INIT; `drop_next` is
always 0.

### Forward and BeatFifo (with MCForward)

`BeatFifo` is what the pipeline promises: a queue that takes in and gives out at
most one beat a cycle. `Forward` is every register of `pipeline_forward.sv` that
holds a beat and the handshake of the trie stages between them (`trie128.sv`,
`trie8.sv`), a step a clock cycle, named after the always blocks: `FW_IN_REG`,
`FW_FWT_IN_REG`, `Trie128` (with `next_state`, `stage_ready`), `NEXTHOP_BEAT`,
`NC_BEAT`, `NC_BEAT_BUFFER`, `NC_READY`, `FW_CACHE_R_PORT_REG`, `FW_CACHE_REG`,
`FW_OUT_REG`. `InFlight` lists the beats inside, and `ImplementsFifo` is the
refinement. `nc_used` is history: the beat in `nc_beat` has gone on although the
register still shows it.

Abstractions: a beat is whether it is the first of its frame, and the port its
frame must leave by. The port is unknown until the last stage has finished, and
later beats of a frame get theirs from `cache_r_port_id_reg` only. Headers, MAC
addresses, hop limit and the mark to drop travel in the beat and move nothing.
The rest of the router is `out_ready`, low for at most `MaxWait` cycles in a row.

### BTrie, VcTrie, Tries and RouteMap (with MCTries)

`RouteMap` is what the rest of the firmware relies on: a partial map from
prefixes to next hop indexes, changed by one call at a time, in one step or not
at all; only a new route may be refused. It has a reset, and stops promising
anything where a reset leaves old routes behind (`trusted`).

`BTrie` is `binary_trie.c`: the words of the block RAMs (`bram`), the two cached
indexes of each RAM, and the call in progress (`bt`, with the prefix, how many of
its bits have been followed and the node reached). Every iteration of a loop and
every write is a step: `BTrieWalk` follows one bit, `BTrieNew` takes a slot
(`LowestEmpty` is the search that follows), `BTrieLink` leads the parent to it,
`BTrieStore` writes the route; `BTrieClear` takes it out, `BTrieUnlink` frees one
node and goes on to its parent; `BTrieInitBram` is a reset. `owner` is history:
the path a slot is the node of.

`VcTrie` is `vc_trie.cpp`: `vcbram` holds the children and the bin of every node,
`node_num` the last node created per RAM, `vc` the call. `VcDescend` goes down one
bit and creates the node if there is none; `VcExcessive` gives up; an entry is
written in three steps (`VcPlaceLength`, `VcPlacePrefix`, `VcPlaceHop`), modified
in one and invalidated in two. `VCTrieReset` forgets the count of nodes and
leaves the nodes as they are.

`Tries` is `tries.c` on top of both, with the calls `protocol.c` makes: a prefix is
inserted when a lookup finds nothing, changed and deleted while it has a record
(`filed`). `next_hop` is the datapath's side, `trie8.sv` and `trie128.sv`: all
matches on the path (`VcMatches`, `BtMatches`), the length each stage reports for
them (`Reported`), and which one survives the comparators (`Beats`). `PendingCall`
and `Map` are the refinement of `RouteMap`, for the two tries (`TriesImplementMap`)
and for the binary trie alone (`BTrieImplementsMap`).

Abstractions: a prefix is the sequence of its bits, a node a pair of RAM and
index. A lookup of the datapath is taken at one instant between two writes. ::/0
is a flag in the code and `DefaultHop` here. The code inserts no prefix of one bit:
its lookup finds the entry points, which always exist. Bounds: `MaxTop` (in the
code `bram_tops` of a full RAM grows with each refusal, without end), one reset
(`warm`). Assumed: no next hop has index 31, which marks a free entry although the
ring in `protocol.c:354` may hand it out; no prefix has all 128 bits, for which
the code shifts past the last RAM. `BT_LEVELS` is a constant of its own since the
hardware has RAMs for 64 bits only (`trie128.sv:45`), where the firmware believes
in 128: a longer prefix that goes to the binary trie is accepted and never
matched, and `Kept` leaves it out of the map.

## 3. Runs

| Run | Question | Instance |
|---|---|---|
| `rip_table` | do the route structures, timers and advertisements stay right under every order of requests, responses, sweeps and ticks? | 2 ports, 2 speakers, a direct route each, one route to learn, metrics 1, 2, 16, both tries, five slots, eleven hops, packets of two RTEs, 2-tick timeout and 1-tick GC on a clock modulo 3 |
| `rip_quiet` | does everything a dead neighbour taught go away? | 1 port, nested prefixes in the binary trie, fair ticks and main loop |
| `rip_hops` | (violated) does the next hop of every learned route leave by the route's port? | as `rip_table` |
| `dma` | do packets cross the link whole, once and with their own port, when do they take their own checksum, and when does the firmware always get back to its loop? | 2 ports, three-word packets, an input FIFO of four words, an output FIFO of six |
| `dma_overwrite` | (violated) does a response leave as it was assembled? | as `dma` |
| `cache` | is the cache a map of the last addresses learned, one entry per address, oldest out first, and does every NA with a good checksum reach it? | 2 ports of 2 entries, 3 addresses, 2 MAC addresses, symmetric in all |
| `egress` | do frames leave whole and unmixed, and does the arbiter always come back from a source whose frames end? | a full beat of 3 words, a last beat of an answer of 2, 2 boot announcements, forwarded and RIP frames of 2 beats, forwarded ones may be dropped |
| `egress_torn` | (violated) does every answer leave whole? | as `egress` |
| `forward` | is the forwarding pipeline a queue of beats, each with its frame's port? | 2 trie stages of 5 cycles, 2 ports, output busy for at most 2 cycles |
| `forward_lost` | (violated) does a finished beat stay at its stage until it is taken? | 2 stages of 4 cycles, 1 port, output busy for up to 6 cycles |
| `tries` | do the tries stay in shape and one map, whatever fills up and whenever a reset comes, and does the datapath find the longest match? | 2 stages of 3 levels, 3 nested prefixes, 2 next hops, one entry per node, RAMs of 4 and 1 nodes and of 7 words, one reset |
| `tries_longest` | (violated) does a lookup always give the longest match? | as `tries` |

Why the bounds are enough. The interesting events of the table need two
speakers on different ports contending for one prefix, a slot freed and taken
again (five slots: one reserved, two direct, two for learned routes, so
`spare_memory_index` wraps), and the hop table filling up (six usable entries
above the reserved ones). The clock is as short as `TimerAssumption` allows, so
wrap-around happens all the time. Two RTEs per packet and two RTEs per sent
packet reach both the flush of a full packet and that at the end. For the link,
three words tell first, middle and last apart, two packets do not fit the input
FIFO and two fill the output FIFO, the least its comment demands, so that a third is
read while two wait; and two ports distinguish neighbours in a sweep.

A cache port is full after two entries, and the third address forces a
replacement; the second port is what makes the shared replace address matter. In
the egress, `RATIO` 3 and `TAIL` 2 keep what the code's 7 and 4 give: the second
beat of an answer is more than one word, so the downsizer is still busy in the
cycle in which NS_SEND_2 shows that beat once more, and a full beat is longer
than the two cycles between the beats of an answer. Two announcements tell the
last from the others. RIP frames are never marked in the run, to keep the
liveness check within minutes; the theorem below does not need that bound.

Two trie stages tell the last from the others and let one stage show its beat
while the next is working; `PERIOD` 5 with `MaxWait` 2 is the tightest pair the
theorem allows, so every register fills up.

Three prefixes in the tries compete for the entries of two nodes, so each kind of
refusal happens and routes end up in both tries. RAM 0 of the binary trie has
three slots to hand out and the prefixes need four nodes there, so an insertion
is refused half-way and a later one meets the nodes it left. Three levels per
stage tell the first, an inner and the last node of a stage apart, and 0011
reaches into the second stage. Four nodes of the variable-stride trie make RAM 0
full after one more than its two entry nodes.

Fairness. `rip_quiet` assumes the CPU keeps running (it never sleeps and has no
interrupts), a granted transfer ends, packets end (their length is bounded by
the MTU) and time passes. `dma` assumes weak fairness of the engine and of the
firmware as a whole, never of single branches, and that a frame that has begun
arriving goes on; new frames and expiries need not happen. That the output arbiter
takes a waiting beat in the end is a premise of the liveness properties
(`ArbiterReturns`), not fairness of the specification. `egress` assumes that the
transmit FIFO keeps taking words, that a begun frame of the RIP pipeline is
continued (a packet takes a checksum only when all of it is in the output FIFO, the
second conjunct of `OutputFramed`), and that the waits of the NS pipeline end: the
checksum units take a fixed number of cycles, the input arbiter delivers the second
beat of a frame, and in NS_IDLE the timer counts to its limit whatever happens. A
forwarded frame may stop for ever in the middle, as `forward_lost` shows.

What `dma` and `egress` show less than one would wish:

- A packet takes its own checksum if the engine was not started again before its
  second beat was let in (`Timely`). The firmware does not wait for that: when
  the arbiter keeps a packet waiting, the next read clears `checksum_valid`
  (`dma.sv:513`), and the packet then leaves with what the one checksum register
  holds, the sum of the transfer finished last. What stays is that a packet takes no
  checksum before all its words are summed, and leaves with all its words.
- The firmware gets back to its loop (`MainLoopLives`), and input is served
  (`InputServed`), if the arbiter returns and there are not for ever two whole
  packets waiting behind the checksum of a third (`Overfull`). Two of them fill the
  output FIFO; the third then cannot be read to its end, its checksum never
  becomes valid, and none of the three moves: without the premise the property is
  violated. In the code the FIFO has 1024 words, so the packets must be near the
  MTU and the arbiter busy for as long as they take to assemble, or stuck as below.
- The arbiter comes back from every source but the forwarding pipeline, and from
  that one as long as forwarded frames end. While a RIP frame holds the arbiter the
  last beat of a forwarded frame can vanish (`forward_lost`); the arbiter then
  stays with that frame until another forwarded frame brings a last beat, and RIP
  packets and answers wait until then. (`[]<>(state = "IDLE")` alone is violated.)

What the violated runs show:

- `rip_hops`: an unknown neighbour whose first RTE is handled overwrites entry 5
  of the next hop table (`protocol.c:348`), although routes of an earlier
  neighbour may point there. The datapath then uses the wrong port.
- `dma_overwrite`: `send_response` assembles before it waits, so a packet can
  leave with words of the next.
- `egress_torn`: NS_SEND_1 and NS_INIT_SEND_1 leave on a ready that is sampled a
  cycle before the beat is valid. If another pipeline gets the arbiter in that
  cycle, the first beat is overwritten and the second leaves as a frame of its
  own, even for an NS whose checksum was wrong. `NaWholeAlone` (in `egress`) is
  the part that does hold: undisturbed answers leave whole and only for legal
  solicitations. In one of the torn orders the arbiter is left in NS with half a
  frame sent; `EgressRecovers` holds there because the next NS, or at the latest
  the 30 s announcement, brings a last beat. Until then nothing else is sent.
- `forward_lost`: a trie stage lowers `out_valid` in every IDLE cycle
  (`trie8.sv:318`), whether or not its beat was taken. When the output is busy for
  longer than a lookup takes, for instance with a long RIP frame, beats vanish from
  forwarded frames, last beats included. `ImplementsFifo` (in `forward`) is what holds
  while the output is only as busy as the width converter makes it.

- `tries_longest`: `state_level` is back at 0 when the node of a stage's last level
  arrives (`trie8.sv:116`), so a match there is reported as long as where the stage
  begins, and a shorter route wins. `HwAnswers` (in `tries`) is what holds: the
  longest match wins when no candidate is in such a node; with one, the answer is
  still the next hop of a route that covers the address, or the default.

Two more things seen by reading, with no run of their own: the replace address is
shared by the four ports of the cache, so a replacement on one full port moves the
cursor of another, which may then lose a newer entry than its oldest
(`neighbor_cache.sv:185`; `FifoAlone` says that with one full port the order
holds); and read port 1 compares with the address of read port 0
(`neighbor_cache.sv:114`).

What holds less than it seems: the periodic sweep stops at `spare_memory_index`,
which is a cursor and no upper bound (`protocol.c:775`). `TimerExact`,
`SweepCoversTable` and `RoutesFade` therefore stop at the first wrap of that
cursor (`slotsLapped`); after it, routes above the cursor are neither aged nor
sent.

## 4. Proofs

All for every number of ports, slots, hops, prefixes and speakers and every
value of the timers within the named assumptions.

- `RipTableProofs!TypeCorrect`: `Spec => []TypeOK`. `TypeOK` is not inductive by
  itself: the boot loop writes consecutive indexes, so the invariant adds how far
  boot has come (`BootInv`), and `Next` is taken action by action.
- `RipTableMapProofs!MapAlwaysConsistent`: `Spec => []MapConsistent`. The
  invariant adds that the spare slot is free, record 0 is never listed, only announced
  prefixes are in the binary trie (`BinaryHeard`) and boot inserts each direct prefix
  once. ::/0 is included under `NoneCovers` (see `AdvertsAlwaysTrue`). Each branch of `ResponseRte` is one lemma.
- `RipTableTimerProofs!TimersAlwaysExact` and `SweepsAlwaysCover`: the modular
  timers are exact because every listed slot is below the spare index until it
  wraps, so every sweep sees it, and `sinceSweep` bounds the time between
  inspections; `TimerAssumption` closes the gap to the wrap.
- `RipTableMapProofs!DirectAlwaysStays`: `Spec => DirectStays`. A step writes the
  record of the prefix it is about or the spare slot, and the trie at that prefix;
  by `MapInv` no other prefix has the record of a direct route.
- `RipTableMapProofs!HopPortsAgree`: `Spec => []HopPortAgrees` if no neighbour sends
  from the zero address. Until the spare index wraps, no route points above it and
  a used entry above the default one keeps its port (`HopsBelow`, `HopsMatch`). The
  condition is needed: `disassemble` does not refuse `::` as a source, and it would
  be found in an entry a reset has cleared, which another speaker then overwrites.
- `RipTableMapProofs!AdvertsAlwaysTrue`: `Spec => AdvertsTrue` if no announced prefix
  covers another that may be in the binary trie (`NoneCovers`: always so with the VC
  trie alone, and in the run, which uses both tries). The condition is needed:
  without it the RTE of a prefix that is an inner node of the binary trie is taken
  for a change of record 0 (`protocol.c:358`) and announced, although the table has
  no route for it. Answers wait in `send_entries` while later RTEs
  change the table. The invariant (`PendingTrue`) says that the last answer for each
  prefix is still true, because an RTE changes what is heard of no prefix but its
  own (`OthersSame`), for which it queues a new answer.
- `RipTableMapProofs!SearchAlwaysEnds`: `Spec /\ []Room => []NeverHung`, where `Room` says
  that the tries hold fewer routes than there are records besides record 0. By
  `MapInv` a valid record is that of one route, so if all were valid there would be
  as many routes as records (`FullMeansNoRoom`, a pigeonhole argument); and the CPU
  is caught only when all are (`HungWhenFull`). The hypothesis is about the routes
  and not about the code: `NUM_MEMORY_RTE` is 230000, less than the nodes the tries
  may use. Without `NoneCovers` ::/0 must not be announced (`DefaultSilent`): it is
  no node of a trie, and record 0 may become a second record of it.
  The run has room for all its routes.
- `RipTableTimerProofs!OnlyOwnPortsWorsen`: `Spec => OnlyOwnPortWorsens`, also after
  `spare_memory_index` has wrapped: a timer then no longer shows the age of a route,
  but never more than it (`AgeCovers`), so no route lapses early.

- `NeighborCacheProofs!KeysAlwaysUnique` and `CacheImplementsMap`: no address has
  two entries, and every step of the circuit is one step of `NeighborMap` or a
  stutter. With unique keys the set of matches is a singleton, so the priority
  loop reads the one entry written last, and the valid entries and the known
  addresses are in bijection, so the CAM is full exactly when the map is.
  `NaAlwaysLearned`: `Spec => NaLearned`; the NS pipeline's pulse lasts one cycle, so
  an NA waits at most one.
- `NeighborCacheProofs!TypeCorrect` and `OldestGoesAlone`: `Spec => []TypeOK` and
  `Spec => FifoAlone`. The invariant (`OrderInv`) says that a port is filled from the
  bottom, that `next_replace_addr` stays 0 while no port is full, and that the
  entries of a port that alone may be full are as old as their distance from it.
- `EgressProofs!TypeCorrect` and `ForwardedFramesWhole`: `Spec => []FwRipWhole`
  for every converter width and frames of any number of beats of both pipelines,
  any of them marked to drop. The invariant (`FramesInv`) says where each output
  register stands in its frame, given the arbiter's state, the filter's flags and
  the last beat that left; it holds through the cycles in which answers are torn,
  because a second beat of an answer that comes alone is a last beat and leaves
  the filter at the start of a frame. `RegisterInFrame` is the argument for one
  register, used for both.
- `EgressProofs!AnswersWholeAlone`: `Spec => []NaWholeAlone`. `AloneInv` follows an
  answer of the NS pipeline that no other pipeline disturbs through `ns_state`,
  `ns_out` (a cycle behind), the arbiter, the filter and the converter. `ns_out` goes
  on showing a beat that was taken; it is not taken twice because the converter is
  busy for `RATIO` cycles after a full beat and `TAIL` after the last one.
- `ForwardProofs!TypeCorrect` and `NothingLostOrDoubled`:
  `PERIOD >= MaxWait + 3 => (Spec => []BeatsMoveOnce)` for any number of stages.
  The invariant is that a stage never has longer to work than the one after it, and
  that a finishing stage finds the next one idle (`ChainInv`), so only the last
  stage ever waits; and that the registers behind it have been emptied by the time
  it finishes, as `out_ready` is low for at most `MaxWait` cycles and `nc_ready`
  comes a cycle later (`TailInv`). The bound is tight: TLC finds a beat passed on
  twice with `PERIOD = MaxWait + 2`. In the code a stage takes 11 cycles and the
  converter keeps `out_ready` low for 6.
- `ForwardProofs!PipelineIsFifo`: `PERIOD >= MaxWait + 3 => (Spec => ImplementsFifo)`,
  for any number of stages. Two neighbouring registers either keep their beats or
  hand one on (`HandsOn`), and a chain of such pairs moves as a queue does. For the
  trie, whose share of the queue is a recursive function over the stages (`InTrie`),
  this is proved by least counterexample: before the first stage at which the claim
  fails there is one at which it holds. The invariant (`FifoInv`) adds to `MoveInv`
  where the port of a frame is known while its beats pass (`PortInv`: a beat that is
  not the first shows the port that was looked up for the one before it).

- `TriesProofs!BTrieShaped`: `BTrieSpec => []BTShape`, and `TriesShaped`, the same for
  `Spec` of `Tries`, through `TriesImplementBTrie`: every step of the two tries is a
  step of the binary trie or leaves it alone. For every stride, number of RAMs,
  capacity, set of prefixes and sequence of calls, refusals and resets. `BTShape`
  is the conjunction of `OwnersPlaced` to `DeleteTrue`, and inductive with the types
  (`BTrieTyped`). The two parts that carry it: `BottomsFree`, the next slot is
  nobody's, except between the two writes of a deletion, when it may be the node
  about to be unlinked; and `NodesMarked`, a node in use never reads as zero, which
  is how the search for a free slot tells them apart. `LinkInv` and `UnlinkInv` are
  the long cases: a new child must not make a second path to a node, and a freed
  one must leave no path to it. The proof needs that a RAM the hardware lacks
  reads as zero.
- `TriesProofs!TriesTyped`: `Spec => []TypeOK` of `Tries`: both tries, the call in
  progress and the records keep their types, so no RAM of the hardware trie hands
  out a node past its depth. The invariant (`TriesInv`) adds where the call stands
  in the trie (`Standing`) and that what it was asked is what it passes on
  (`PassedOn`). A reset leaves old children in the nodes; an entry is still only
  written into a bin that exists, because the walk that found it read its tag there
  (`LookupIn`), and a new node is the least free one of its RAM.
- `TriesProofs!BTrieIsMap`: `Spec => BTrieImplementsMap`. By `BTShape` a path has at most
  one node, so a route is what one word says; a write changes the map at the prefix
  of the call under way or nowhere: linking adds a path to a fresh node, clearing
  takes the route of the deleted prefix, unlinking takes a node that has none, and
  after a reset no path leads to an old word. What walks find (`NodeOf`, a recursive
  function over depths) before and after a write is compared by least counterexample.
- `TriesProofs!TriesAreMap`: `Spec => TriesImplementMap`, the same of both tries until
  a reset, for every stride, bin size, number of nodes and set of prefixes. No entry
  of the variable-stride trie holds the path of its node, so the invariant (`BothInv`)
  says that there are paths, one per node handed out, under which everything is in
  place (`Sound`): the nodes are a tree and those never handed out are as they were
  loaded (`Tree`); an entry is unused, in use or the one being written
  (`EntriesWhole`, `HalfTrue`); the entry of a route comes before all that a lookup
  could take for it, also what a deletion left behind (`FirstTrue`); the call knows
  where it stands (`CallStands`: an insertion that went deeper left nothing of its
  prefix above); and no prefix has a route in both tries (`ApartTrue`). When a node is
  created the paths are extended by its own (`Grown`), which no route moves for. Nothing
  is claimed after a reset, when the nodes are handed out again as they are.
- `TriesProofs!TriesIndexed`: `Spec => []IndexesDistinct`. The index of an entry lies
  between the sums of its stage and the next, which only grow, so the stage, the
  node and the slot are read back from it (`PlaceIndex`); those of the binary trie
  begin where these end. By `BothInv` an entry that is found is the route of one
  prefix, and by `BTShape` a node is that of one path. The last nodes of the binary
  trie may lead into a RAM the hardware does not have: no route is there, and no
  route shares the index of such a node either (`NodesAny`, `LevelKept`).
- `TriesProofs!AnswersRight`: `Spec => []HwAnswers`, for every set of addresses and
  whatever word the firmware has written last. A comparator of the datapath sees an
  entry and the address only, not the prefix the entry was written for; so the
  invariant adds that every entry in use stands for a prefix that was inserted
  (`NamedInv`; there may be several assignments of paths to nodes, `OwnOnce` shows
  that they agree), and that so does every route in the binary trie (`StoredKnown`).
  Then a match is a route that covers the address and nothing else (`VcMatchRight`,
  `BtMatchRight`), and a route that covers it is a match (`CoveringMatched`), reported
  with its length unless its node is the last of a stage. Candidates are cuts of one
  address, so the longest is one, and both tries' best matches exist because a node
  per depth bounds the slots (`BestIs`).

- `DmaLinkProofs`: `TypeCorrect`, `InputAlwaysIntact`, `InputAlwaysHeld`,
  `OutputAlwaysFramed` and `RequestsAlwaysIntact`, all the safety properties of the
  `dma` run, for every number of ports, packet length and FIFO size with room for a
  frame. `Handshake` says who owns the registers: a transfer is under way only
  while STB is set, and one that writes only while the firmware is in its loop.
  `InputInv` counts: the words moved so far and those in the FIFO make whole frames
  and the part that has arrived of the next (`Counted`), and word `i` of frame `f`
  belongs to accepted packet `f` (`Filed`), so the last word of a frame is the one
  that ends the transfer. `OutputAlwaysFramed` is about a stream
  (`Sent`): the beats let in of the packet now leaving, then the words in the output
  FIFO. It consists of whole packets and the part read of the next
  (`SentCounted`), each on one port and ended by its last word (`SentFramed`), however
  many of them wait. `Piped` ties the entry of the pipeline to the beats it let in:
  past the first beat the last one of that packet is in the FIFO, because the first
  is let in only under a valid checksum, when the engine has no packet half read; a
  new read cannot take that away. `Summed` says that as long as no transfer has begun
  since a packet was read (`fresh`), the checksum is that of the last `Words` words of
  the stream; with no other packet behind the one leaving (`Timely`) those are its
  own. `LeavesWhole` puts these together for the step that lets a beat in.
  `RequestInv` adds that the words of a packet in the stream are all requests of its own
  port or all of responses (`SentAlike`), and that the buffer holds a request only while the firmware
  waits for it. The assumption on the constants is that the input FIFO has room for a
  frame and the output FIFO for two packets.

Only model-checked: liveness (`RoutesFade`, `MainLoopLives`, `InputServed`,
`EgressRecovers`), which is out of the prover's reach.

## 5. Not modelled yet, and plan

Modelled so far: the routing table, the DMA link, the neighbour cache, the egress,
the forwarding pipeline, both software tries and the hardware's lookup in them.
Next, in this order:

1. `InArbiter`, routing of frames and head-of-line blocking, with the NS and NA
   pipelines as consumers and `Egress` composed behind it.
2. The next hop table adapter (four words per address, read by the datapath while
   the CPU writes them) and the Wishbone clock crossing and arbiters.
3. A datapath lookup spread over cycles, with the firmware's writes in between: a
   lookup that stands on a node while it is freed and handed out again.
4. A reset of the whole firmware: `memory_rte`, `rte_map` and `spare_memory_index`
   lie in `.data` (`memory.c:3-6`) and keep what they held, while the binary trie
   and the flag of ::/0 start anew.

Left out for good: `cpu/cache.sv` (commented out in `tanlabs.sv`, the CPU reads memory
directly), `forward_table.sv`, `fwt_lookup.sv` and `binary_trie.sv` (used by test benches
only), UART, SRAM and vendor FIFOs (I/O and vendor cores), `printf`,
the instruction set of the CPU, checksum arithmetic, simulation and test benches.
