# TLA+ models of the Renode/SystemC examples

The repository holds small SystemC programs that are co-simulated with Renode.
Each program contains a model (a peripheral, a DMA controller, a signals unit)
and a `renode_bridge`, which turns Renode's messages into TLM transactions and
signal changes and back. The bridge belongs to Renode and is not part of this
repository; neither is the SystemC kernel. Both are modelled from how the
examples use them, and marked external in `PROJECT.json`.

What makes these programs hard to test is shared by all of them:

- **cooperative processes and delta cycles**: SC_THREADs and SC_METHODs of one
  simulation interleave only at `wait` and `return`, and a signal or FIFO
  written in one delta cycle changes in the next;
- **blocking remote calls**: a transaction that leaves through the bridge stops
  the *whole* simulation until Renode answers, and Renode is itself blocked on
  the transactions it sends;
- **edges and events**: a thread that waits for an edge or an event sees only
  those that come while it waits.

## Inventory

| Component | State | Operations | Interacts through | Hard because | Correct when |
|---|---|---|---|---|---|
| multiple-peripherals, data path (`peripheral.cpp`, `fifo_adapter.cpp`, `top.cpp`, `main.c`) | two FIFOs, memory, counters, irq of every peripheral | `timer_done_thread`, `forward_fifo`, `fifo_data_received_method`, `on_fifo_in`, `b_transport` | direct connections (blocking), interrupt | three processes in a ring, full FIFOs, methods sensitive to `data_written()` alone | no byte lost, doubled, reordered or stored out of bounds; irq only on complete data; no circular wait; the example ends |
| multiple-peripherals, timing (`peripheral.cpp`) | start time, event, timer register, time stamp of the last transfer | `start_timer`, `update_timer`, pacing | annotated delays | unsigned time, rollover, repeated starts | rollover on time, exact reads, one transfer per cycle |
| dma (`dmac.cpp`) | registers, thread, two signals | register writes, `dmac_loop` | system bus, bus request/free lines | edge of bus free, registers rewritten before the grant, overlap, wrap, failing access | a transfer is one block copy under a request that Renode knows of |
| hmp-signals, riscv-signals | register file, driven signals, trigger flags and event | `handle_control`, `apply_control_write`, `system_bus_writer`, `handle_memory` | GPIO both ways, writes to Renode's bus | trigger against sleeping thread, partial writes, GPIO against read | signals mirror registers, no trigger lost, reads current |
| cortex-m-signals | outputs, inputs, handler, reset thread | `receive_b_transport`, `handle_read`, `handle_write`, `on_system_reset_request` | GPIO both ways | reply against report, edges during the pulse, two writers of one signal | report before reply, reads current, no request lost, no pulse cut short, every access answered |
| interrupts, interrupts-native | one line, a period | `interrupt_loop`, acknowledge, address routing | GPIO, bus | raise and acknowledge in one delta | an interrupt that is not acknowledged stays up |
| direct-connection, tlm-non-blocking(-native), multi-core (`peripheral.cpp`, `memory_peripheral.cpp`, robot test) | a value, a register or a memory; the program of two cores | `receive_bus_b_transport`, `receive_direct_connection_b_transport`, `nb_transport_fw`, `peq_thread`, `Memory::b_transport`, `transport_dbg` | bus, direct connection, two bridges to one memory | peripherals that call each other, a queue between request and access, a counter that two cores load and store | every access is one atomic step; nothing hangs but circular waits; no increment is lost |
| dmi, dmi-native (`dmi_test.cpp`, `main.cpp`) | Renode's memory and translated code, `test_state`, the CPU's memory and done register | `dmi_test_sequence`, `mark_memory_done`, `mark_cpu_done`, `reset`, `handle_done_register`, `get_direct_mem_ptr` | bus, DMI pointer, translation block invalidation, GPIO | Renode touches memory between any two steps; the CPU is done before, during or after the test; accesses that straddle memory and register | the native done line speaks of the latest test, that of dmi of some test; no stale code; stores stay in memory |
| gpio-connection(-native), timesync(-native), transaction-delay, test-synchronization, benchmark | none of interest | copy a line, return the time, send timed writes | GPIO, bus | - | not modelled, see below |
| lt | the vendored loosely-timed example of the SystemC distribution | - | - | - | not modelled |

## Modules

| Module | Models |
|---|---|
| `ScFifo` | `sc_fifo<T>` with its delta-cycle semantics (operators only) |
| `TransferChain` | abstract: the chain of peripherals as counters that follow each other |
| `PeripheralChain` | the ring of multiple-peripherals: `INSTANCE`s `TransferChain` with a refinement mapping |
| `PeripheralTiming` | timer and transfer pacing of the same peripheral |
| `AtomicCopy` | abstract: a DMA transfer as one block copy |
| `Dmac` | the DMA controller: `INSTANCE`s `AtomicCopy` |
| `SignalsUnit` | hmp-signals and riscv-signals; the variable `program` says which |
| `SignalsPeripheral` | cortex-m-signals |
| `Interrupts` | interrupts and interrupts-native; the variable `program` says which |
| `Dmi` | dmi and dmi-native; the variable `program` says which |
| `AtomicTargets` | abstract: registers and memory words on which an access is one step |
| `BusTargets` | direct-connection, tlm-non-blocking, its native form and multi-core, again told apart by `program`: `INSTANCE`s `AtomicTargets` |
| `MCPeripheralChain`, `MCSignalsUnit`, `MCInterrupts`, `MCDmi` | constants for TLC |
| `PeripheralChainProofs`, `DmacProofs`, `TimingProofs`, `DmiProofs`, `BusTargetsProofs`, `InterruptsProofs`, `SignalsUnitProofs`, `SignalsPeripheralProofs` | theorems |

Definitions marked *Fault* in a comment are deliberate mistakes that the code
could have made. No specification uses them; each is kept to show that a
property fails when the definition after it is replaced by it (`mutants` in
`PROJECT.json`).

### How state and actions correspond to the code

**PeripheralChain.** `active[n]` is the process of simulation `n` that is between
two waits. `timer_done_thread` is `TimerDone` (the event) and `StreamByte` (one
`fifo.write`; disabled while the FIFO is full, which is the blocking write).
`RunMethod` / `MethodReturns` bracket an activation of `forward_fifo`
(`ForwardByte` is one turn of its loop) or `fifo_data_received_method`
(`ReceiveByte`). Both leave a `call[n]`, and no process of `n` runs until it is
answered: by `ServeFifo` (`on_fifo_in`), or by `ServeDma` and, when the count
reaches the size of memory, `RaiseIrq` (`b_transport` before and after its
`wait`). `UpdatePhase` commits both FIFOs and triggers the methods.
Uninitialised memory is `Garbage`. Timing is left out here, so the timer may
roll over at any moment.

**PeripheralTiming.** `Access` is the arrival of a register access, which
`b_transport` starts with `wait(delay)`; `StartTimer` and `ReadTimer` are the
rest of it. `Pace` is the pacing part of `fifo_data_received_method`, and may
happen any number of times in one instant, as its loop does, at any time after
the first cycle (a byte comes from a timer that has rolled over).
Time differences wrap (`TimeDiff`), and a conversion that does not fit the
register yields any value (`ToTimer`).

**Dmac.** `loop` is the position in `dmac_loop`; each `b_transport` of the loop
is an action, because Renode sees them apart. `before` is a history variable:
the memory as the transfer found it. `led` is `bus_request` as Renode was last
told. `early_grant` records that `bus_free` rose in the delta cycle of the
request. A failed access leads to "dead": the thread returns (or, with assertions
compiled in, the program ends) and the request stays up.

**SignalsUnit.** Both programs have the same shape and differ in three places,
which test `program`: the settling wait of hmp, the second core, and where the
pending flag is tested and cleared. The registers are one byte for each kind of
line and two bytes for the wide values, enough for partial and spanning
accesses. The bus sends what lies behind the registers to `handle_memory`
(`MemoryAccess`): one byte, so that an access can begin inside and end outside. `owed` is a history variable: a
trigger that no bus write has followed.

**SignalsPeripheral.** The output lines that the code handles alike are one line
of the model. `notify` is the set of outputs whose bridge method is runnable.
`driver` is the process to which `core_reset_in` belongs: the signal has the
default writer policy (SC_ONE_WRITER), so a write by another process than the
first (`HandleWriteFails`, `RaiseResetFails`) ends the simulation, as an offset
that no case handles does (`Abort`).

**Interrupts.** `left` counts the seconds until `interrupt_loop` wakes up, so the
model needs no bound on time. `EnterHandler` and `Acknowledge` are the CPU,
which may be slow: a line that Renode still sees up after its acknowledge starts
the handler again. `entered` is a history variable.

**Dmi.** `thread` is the next step of `dmi_test_sequence`; each of its calls into
Renode and each `memcpy` is an action, because Renode's CPU and Monitor run at
the same time. They are `Translate` (code is fetched), `RenodeStore`,
`gpio_port_write` (a test is begun) and, in the native example, the accesses to
`systemc_cpu_target`: `DoneRegisterAccess` and `MemoryAccess` over the I/O path,
`CpuDmiStore` once the memory is mapped. `backed` says where Renode has memory
at all, so every failure of the sequence occurs; a failed step leads to
"returned". Memory is two words, one for each half of the test, and `code` is
what the CPU has translated of them. `verified`, `cpu_stored` and `passed` are
history variables: what has happened since the test began, and whether any test
has found both words.

**BusTargets.** `stage` and `access` follow the access of each of two masters.
In direct-connection and tlm-non-blocking a read or copy leaves the process and
blocks it (`Busy`): `ReadPeer`, `PeerAnswers` and `Return` are the two halves of
`receive_bus_b_transport` and the other peripheral's handler between them;
`CopyOut` and `RenodeWrites` are the same for the write into Renode, whose
destination the master chooses: memory, or the value of either peripheral, which
the process of that peripheral has to be free for. The native
register is served at once (`b_transport`) or behind the payload event queue
(`nb_transport_fw`, `peq_thread`). The masters of multi-core run the ping-pong
program of `multi-core-read-write.robot`: `core` is where in it a core is, and
`CoreAfter` is what it does with an answer.

## Runs

| Run | Shows | Bounds |
|---|---|---|
| `chain_safety` | no byte lost, doubled, reordered, stranded or out of bounds; irq means complete; refinement of `TransferChain` | 3 peripherals, all started, 3 bytes, FIFOs of 1: full FIFOs, blocked calls and every overlap of three streams occur. Circular wait is reachable here (see below), so deadlock is not checked |
| `chain_liveness` | one starter, as `main.c`: no circular wait, the CPU gets its interrupt; deadlock checked | 6 bytes through FIFOs of 3, so each FIFO fills and drains twice |
| `timing` | rollover on time, exact reads up to the last cycle | clock of 2 ticks, timer of 4 cycles, starts up to tick 3 with delays 0 and 1, time past the latest rollover |
| `timing_pacing` | *violation*: finding 1 | same |
| `timing_rollover` | *violation*: finding 2 | same |
| `dmac` | block copy, the request that Renode knows of covers the accesses (but for a grant in the delta of the request), no missed grant, a granted transfer ends | 4 addresses (one faulty), 2 byte values, up to 2 bytes: disjoint, overlapping either way, wrapping, failing |
| `signals` | signals mirror registers, settled reads, no trigger lost | both programs, one-byte and spanning accesses of registers and memory, each also past the end |
| `cortexm` | report before reply, current reads, no lost reset request, a pulse that is never cut short, every access answered unless the simulation ends; it may end, so deadlock is not checked | complete: the model has no bound |
| `interrupts` | every change of a line is reported, no interrupt is taken away by the other handler, the first interrupter keeps interrupting | complete, with the intervals of `top.cpp` |
| `dmi` | the done line of dmi-native speaks of the latest test and that of dmi of some test so far, stale code does not outlive the invalidation, a test that begins ends | both programs, every choice of unbacked words, two bytes of memory and a done register of two, with accesses inside, across and past every boundary; tests repeat without bound |
| `bus_targets` | refinement of `AtomicTargets`, no lost increment, an access hangs only in a circular wait | all four programs, two masters, two values, copies to memory and to either peripheral, a counter up to 5 from either start. Circular waits hang and masters may stop, so deadlock is not checked |
| `cortexm_nvic` | *violation*: finding 3 | complete |

## Fairness

All liveness runs assume that the SystemC kernel runs what is runnable: weak
fairness of every process step and of the update phase. In `PeripheralChain`
the bridges also answer the calls they receive, and the software's start
command arrives. In `PeripheralTiming`, time advances (Renode's periodic time
sync). `Dmac` assumes nothing about Renode granting the bus, so what is claimed
begins at the grant. `SignalsUnit` needs strong fairness of the update phase:
the bridge may serve several messages in one delta cycle, which disables it for
a while, but the periodic time sync makes the bridge's thread wait again and
again, and the delta cycle then ends. In `Dmi` only the thread is fair: nothing
forces Renode to begin a test, or the CPU to store. `BusTargets` needs strong
fairness of the handlers: the other master's accesses make a peripheral busy
again and again, but requests queue up at the bridge in the order they arrive,
so each has its turn.

## Findings

1. `peripheral.cpp:189`: `time_stamp - previous_time_stamp` underflows when the
   previous transfer was delayed into the future. Of three bytes that arrive in
   one instant, the first takes effect at once and the second a cycle later; the
   third is not delayed either and shares the cycle of the first, against the
   comment at 186.
   `PacingExact` says how far this goes, for every clock period: a byte that
   comes while the last transfer is still ahead is not delayed at all and
   overtakes it; every other one is paced as intended.
2. `peripheral.cpp:126`: in the last cycle before the rollover, where it is
   rounded up to the rollover itself, and ever after, the cycle count does not
   fit the timer register, and the annotated delay is not the remainder that the
   comment at 124 promises.
3. `signals_peripheral.cpp:88`: NVIC writes return before the commit wait, so
   the reply can leave before the line is reported, against the comment at 43.

Observed while modelling, without a run: if two or more peripherals of the ring
are started, they can all be inside a blocking call at once and hang
(`NoCircularWait` holds for one starter, which is what `main.c` does; the run's
mutant starts more). The README of multiple-peripherals says B writes to C
"after receiving all the data"; `fifo_data_received_method` writes byte by byte.
The native interrupt example ignores its interval argument, while its `main.c`
prints "every 3 seconds" for the second interrupter. The offsets in the
cortex-m-signals README differ from the `Signal` enumeration. riscv-signals
connects interrupt 0, which its README says should remain unconnected. In
direct-connection, the read at `peripheral.cpp:36` carries the comment "TODO
This never returns". In the model it does return, as it does in the robot test,
unless there is a circular wait (`AccessEnds`): two reads of the two peripherals
that are under way at once never return. In tlm-non-blocking, a copy that is
aimed at the peripheral itself never returns either, nor one aimed at a
peripheral that is reading the first. A write to a non-zero address of
tlm-non-blocking completes without ever setting a response status. In
cortex-m-signals, `core_reset_in` has two writers but the default writer policy
(the interrupts example declares SC_MANY_WRITERS for the same situation): after
a CoreResetIn write a reset request ends the simulation, and after a reset
request a CoreResetIn write does; no robot test does both on one machine. The
test of dmi never lowers its done line: after the first success the line says
nothing of later tests, not even of one that failed; the native example resets
it. In dma, a `bus_free` that rises in the delta cycle of the request can start
and end the copy before Renode is told of the request.

## Proofs

TLAPS proves, for every value of the constants that satisfies the named
assumptions (`ChainAssumption`, `DmacAssumption`, `TimingAssumption`,
`DmiAssumption`, `BusAssumption`, `IntervalAssumption`, `AccessAssumption`;
`SignalsPeripheral` has no constants):

- **`PeripheralChainProofs`**: types (`TypeCorrect`), `InterruptCorrect`,
  `StoresCorrect`, `NoLostWakeup`, `Refinement` and `OneStarterNeverHangs`, for
  any ring, memory size and FIFO size. "The interrupt means complete data" is
  not inductive: it says nothing of bytes on their way. `ChainInv`
  (`ChainInvariant`) accounts for each of them. For a sender p, the bytes stored
  by its successor, those in the successor's adapter FIFO, the one inside p's
  blocked call and those in p's own FIFO are, in that order, exactly the bytes
  streamed so far (`Located`); the bytes p has stored are those written into its
  successor, plus the one inside a DMA call. Each action moves one byte over
  one boundary, and one lemma per boundary (`LocatedEmit`, `LocatedForward`,
  `LocatedServe`, `LocatedStore`) does the sequence reasoning. The ring needs
  `Succ` to be a bijection: with two predecessors, streams would mix.
  `OneStarterNeverHangs` needs a peripheral that is neither the starter nor its
  successor, which receives nothing on its FIFO and so never calls.
- **`DmacProofs`**: types, `RequestCovers`, `CopyProgress`, `GrantNotMissed`
  and `DmacRefinement`, for any address width, byte set, set of faulty
  addresses and length below the width. `RequestCovers` needs no more than that an
update phase comes only when the bridge has reported the line. The strengthening
of the copy is `ProgressInv`: at
  byte i, memory is `before` with the first i bytes copied and everything
  outside the destination block untouched. The step needs that wrapped
  addresses i apart are distinct (`PlusInjective`) and that a destination that
  does not start inside the source never overwrites a byte still to be read
  (`PlusOverlap`).
- **`TimingProofs`**: types, `RolloverOnTime` and `ReadsExact`, for any clock
  period, timer width and annotated delays. The rollover needs that a start is
  never more than one bus beat away (`TimerInv`), so a repeated start is never
  earlier than the first and changes neither the start time nor the event.
  Exactness needs that no read is served before the timer has started to count,
  because the start returned its beat as a delay: then the unsigned difference
  does not wrap, and rounding up (`CeilProduct`) fits the register.
  `PacingExact` gives the time at which every paced transfer takes effect. It
  needs that the last time stamp is never more than a cycle ahead (`StampInv`),
  so a difference that wraps is always larger than a cycle.
- **`DmiProofs`**: types, `DoneCorrect` and `FreshCode`, for any size of memory
  and done register and any accesses. "The line is up exactly when both words
  matched and the CPU stored" is made inductive by where the thread is: the
  position says which words have matched (`Checked`), and the two flags of
  `test_state` are what has happened since the test began (`StateIsTrue`). For dmi
  the line is up exactly when some test has passed, which is all it can say.
- **`BusTargetsProofs`**: types, `TurnsCorrect` and `Refinement`, for any limit,
  start value and data. The cores' program has no lock, so the argument is
  parity: a core that has loaded a value of its own parity still finds it when
  it stores, since the other one waits for the parity to change (`CoreAt`). The
  refinement needs that a peripheral has one call under way, and that its value
  does not change while a copy of it is on its way to Renode (`CallInv`).
  `ExactlyHalf` is the last check of the robot test (lines 137 and 138), for
  every even limit: a core that is done has seen the limit, and the counter only
  grows (`ResultInv`), so parity fixes the number of increments. `CircularWaits`
  is the safety part of `AccessEnds`: a call that finds the peripheral it needs
  busy waits for a call that needs none, or is part of a circle.
- **`InterruptsProofs`**: types, `LinesReported` and `NoneDropped`, for any
  intervals. A line goes through the written, the committed and the reported
  value; `ServedInv` says for each that it goes down only if the handler of that
  line was entered, and `RouteOwn` that an acknowledge reaches its own
  interrupter.
- **`SignalsUnitProofs`**: types, `SignalsMirror`, `TriggersNotStranded` and
  `ReadsSettled`, for accesses of any length at any offset. That the signals
  mirror the registers rests on `ApplyMirrors`: a signal that
  `apply_control_write` does not drive again has none of its bytes in the range
  written (`MissesBytes`), and the signal depends on no other. The trigger needs
  an invariant for each program, because they clear the flag at different
  places. In hmp the flag is up exactly while a write is owed, and then the event
  is notified or the thread is past its wait (`HmpTrigger`). In riscv the flag
  goes down before the write, so that a write may be owed while the flag is down
  and the flag may be up with no write owed; what holds is that it is never up
  while the thread sleeps with nobody to wake it (`RiscvTrigger`).
- **`SignalsPeripheralProofs`**: types, `ReadsCurrent`, `ReportsFirst`,
  `RequestsNotLost` and `PulseReachesCore`. None of the four is inductive.
  Current reads need that Renode's level is on its way until the first wait is
  over (`InputInv`); the report needs where a committed write is, from
  `out_next` through `out` to `reported`, at each wait of the handler
  (`WriteInv`), and that a line whose method has run is as Renode knows it
  (`ReportInv`); the request needs that the line stays up from the edge to the
  end of the thread's wait, so the next edge finds it listening (`ResetterInv`);
  the pulse, and the report of a CoreResetIn write, need that `core_reset_in`
  belongs to the process that is at work on it (`DriverInv`), so nobody else
  changes the line between the two writes of the thread (`PulseInv`).

Every invariant and action property of the passing runs, and every refinement, is
stated by one of these theorems. Only model-checked: liveness (`ExampleCompletes`, `TimerExpires`,
`GrantedTransferEnds`, `TriggeredWriteHappens`, `TransactionEnds`,
`FirstKeepsInterrupting`, `TestReports`, `AccessEnds`), which is out of the
prover's reach.

## Assumptions and limits

- A call through the bridge blocks the simulation until Renode answers, and
  direct connections are served by the peer's bridge thread only when no other
  process of the peer runs.
- DMA lengths are below 2^31 and below the address space.
- No other bus master stores while `dmac_loop` copies (`CpuStore` is disabled
  then): this is what the bus request and grant are for, and what
  `ImplementsAtomicCopy` and `ProgressInv` rest on. Where Renode raises
  `bus_free` by itself, in the delta cycle of the request, the other masters do
  not know of the copy and the assumption is theirs to keep.
- The writer check of `sc_signal` counts SystemC processes only. In
  interrupts-native the acknowledge writes a line of the default policy that
  `interrupt_loop` writes too, but it comes from Renode's call into the native
  bridge and not from a process, so it passes.
- A copy of tlm-non-blocking goes to memory or to the value (address 0) of a
  peripheral. A copy into the copy window of a peripheral, which makes that one
  copy its own value to the address it receives, is not modelled; such chains
  can close a circular wait of their own.
- Assertions on malformed accesses (reads of write-only registers, unknown
  offsets in dma) end the program and are not modelled.
- `nb_transport_fw` of the peripheral completes at once, as the bridge's does;
  the other phases of the protocol only end and free the payload.
- Renode's memory, its translation cache and the DMI grant are modelled from
  what `dmi_test.cpp` relies on: a bus access or a store of Renode's own drops
  the translation of the word, a write through the pointer does not.
- Not modelled: `lt` (vendored), the benchmark, test-synchronization (it tests
  the bridge), gpio-connection, timesync and transaction-delay (no state); and the
  mailbox program of `multi-core-read-write.robot`, which takes the same accesses
  as the ping-pong program.
- The original all-SystemC platform of multiple-peripherals is modelled only by
  `TransferChain`. Its timer register is 64 bits wide, so that the rollover lies
  beyond what `sc_time` can hold and the conversion at `peripheral.cpp:107` is
  undefined; what `virtual_platform.cpp` and `testcase.cpp` then do depends on
  the machine.

## Plan

1. Done: the ring with its abstract chain and proofs; the DMA controller with
   its abstract copy and proofs; timing with proofs; the interrupters with
   proofs; the signals models with their memory and proofs; the DMI tests with
   proofs; the bus targets with their abstract specification and proofs.
2. Left: further theorems that no run states, where they say more than the
   runs do, as `PacingExact` and `ExactlyHalf` do: the bound on the delay that a
   read after the rollover may annotate (finding 2), and the refinement of
   `TransferChain` carried on to what its counters promise.
