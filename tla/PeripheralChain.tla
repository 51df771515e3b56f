--------------------------- MODULE PeripheralChain --------------------------
(***************************************************************************)
(* The multiple-peripherals example: a ring of identical SystemC           *)
(* peripherals, one operating-system process each, joined through Renode.  *)
(* A peripheral whose timer has rolled over streams 0 .. N-1 through its   *)
(* FIFO to its successor; the successor inverts every byte, keeps it in    *)
(* its memory and DMA-writes it into the memory of the next peripheral,    *)
(* which raises its interrupt when N bytes have arrived.                   *)
(*                                                                         *)
(* Processes of one SystemC simulation are scheduled cooperatively:        *)
(* active[n] is the process of n that is in the middle of its loop.  A     *)
(* call that leaves the process (FIFO and DMA direct connections) blocks   *)
(* the whole simulation of n until Renode brings the answer; call[n] is    *)
(* that call, and it is served by the bridge of Succ[n].                   *)
(***************************************************************************)
EXTENDS Integers, Sequences, ScFifo

CONSTANTS Node,      \* the peripherals
          Succ,      \* Succ[n]: where n's direct connections 0 and 1 lead
          N,         \* memory.size()
          FifoSize,  \* capacity of both sc_fifo<uint8_t> of a peripheral
          MaxByte,   \* the largest byte (255)
          Starters,  \* the peripherals whose cmd_start_timer the CPU writes
          IrqNode    \* the peripheral whose interrupt is wired to the CPU

ASSUME ChainAssumption ==
    /\ Succ \in [Node -> Node]
    /\ \A m, n \in Node : Succ[m] = Succ[n] => m = n
    /\ \A n \in Node : \E m \in Node : Succ[m] = n
    /\ N \in Nat \ {0}
    /\ FifoSize \in Nat \ {0}
    /\ MaxByte \in Nat
    /\ N <= MaxByte + 1
    /\ Starters \subseteq Node
    /\ IrqNode \in Node

VARIABLES
    timer,                 \* "stopped", "counting" or "done" (timer_done)
    streamed,              \* i of timer_done_thread
    fifo,                  \* Impl::fifo, read by the adapter
    adapter,               \* fifo_adapter::fifo, read by the peripheral
    triggered,             \* SC_METHODs made runnable by data_written()
    active,                \* the process of n that holds the simulation
    call,                  \* n's outstanding call into Renode
    memory,
    memory_index,
    memory_written_count,
    irq_signal,
    example_done           \* main.c

vars == <<timer, streamed, fifo, adapter, triggered, active, call, memory,
          memory_index, memory_written_count, irq_signal, example_done>>

Byte == 0 .. MaxByte
Garbage == -1              \* whatever uninitialised memory holds
Index == 0 .. N - 1

\* Fault: a stream that starts at 1.
ToByteFromOne(i) == (i + 1) % (MaxByte + 1)

ToByte(i) == i % (MaxByte + 1)     \* int to uint8_t
Invert(v) == MaxByte - v           \* v ^ 0xFF

Method == {"forward_fifo", "fifo_data_received_method"}
Process == Method \cup {"timer_done_thread"}
None == "none"

(* A call is with Renode or being served ("pending"), or has written its   *)
(* byte and waits to raise the interrupt ("irq").                          *)
NoCall == [op |-> "none", address |-> 0, data |-> 0, stage |-> "pending"]
FifoCall(v) == [op |-> "fifo", address |-> 0, data |-> v, stage |-> "pending"]
\* Faults: set_address forgotten, or called after memory_index was incremented.
DmaCallNoAddress(a, v) == [op |-> "dma", address |-> 0, data |-> v, stage |-> "pending"]
DmaCallNextAddress(a, v) ==
    [op |-> "dma", address |-> a + 1, data |-> v, stage |-> "pending"]

DmaCall(a, v) == [op |-> "dma", address |-> a, data |-> v, stage |-> "pending"]
Calls == [op : {"none", "fifo", "dma"}, address : Nat, data : Byte,
          stage : {"pending", "irq"}]
-----------------------------------------------------------------------------
Init ==
    /\ timer = [n \in Node |-> "stopped"]
    /\ streamed = [n \in Node |-> 0]
    /\ fifo = [n \in Node |-> EmptyFifo]
    /\ adapter = [n \in Node |-> EmptyFifo]
    /\ triggered = [n \in Node |-> {}]
    /\ active = [n \in Node |-> None]
    /\ call = [n \in Node |-> NoCall]
    /\ memory = [n \in Node |-> [k \in Index |-> Garbage]]
    /\ memory_index = [n \in Node |-> 0]
    /\ memory_written_count = [n \in Node |-> 0]
    /\ irq_signal = [n \in Node |-> FALSE]
    /\ example_done = FALSE

(* Fault: any command starts the timer.                                    *)
StartTimerAnyCommand(n) ==
    /\ timer[n] = "stopped"
    /\ active[n] = None
    /\ timer' = [timer EXCEPT ![n] = "counting"]
    /\ UNCHANGED <<streamed, fifo, adapter, triggered, active, call, memory,
                   memory_index, memory_written_count, irq_signal, example_done>>

(* The CPU writes cmd_start_timer; the bridge of n delivers the write when *)
(* no other process of n holds the simulation.                             *)
StartTimer(n) ==
    /\ n \in Starters
    /\ timer[n] = "stopped"
    /\ active[n] = None
    /\ timer' = [timer EXCEPT ![n] = "counting"]
    /\ UNCHANGED <<streamed, fifo, adapter, triggered, active, call, memory,
                   memory_index, memory_written_count, irq_signal, example_done>>

(* timer_done_event fires: timer_done_thread sets timer_done.              *)
TimerDone(n) ==
    /\ timer[n] = "counting"
    /\ active[n] = None
    /\ timer' = [timer EXCEPT ![n] = "done"]
    /\ UNCHANGED <<streamed, fifo, adapter, triggered, active, call, memory,
                   memory_index, memory_written_count, irq_signal, example_done>>

(* One fifo.write(i) of timer_done_thread.  The thread keeps the           *)
(* simulation until the FIFO is full (it then waits for data_read_event)   *)
(* or the last byte is written.                                            *)
StreamByte(n) ==
    /\ timer[n] = "done"
    /\ active[n] \in {None, "timer_done_thread"}
    /\ streamed[n] < N
    /\ NumFree(fifo[n], FifoSize) > 0
    /\ fifo' = [fifo EXCEPT ![n] = Written(@, ToByte(streamed[n]))]
    /\ streamed' = [streamed EXCEPT ![n] = @ + 1]
    /\ active' = [active EXCEPT ![n] =
           IF streamed[n] + 1 < N /\ NumFree(fifo[n], FifoSize) > 1
           THEN "timer_done_thread" ELSE None]
    /\ UNCHANGED <<timer, adapter, triggered, call, memory, memory_index,
                   memory_written_count, irq_signal, example_done>>

(* The kernel starts a method that data_written() made runnable.           *)
RunMethod(n, m) ==
    /\ active[n] = None
    /\ m \in triggered[n]
    /\ triggered' = [triggered EXCEPT ![n] = @ \ {m}]
    /\ active' = [active EXCEPT ![n] = m]
    /\ UNCHANGED <<timer, streamed, fifo, adapter, call, memory, memory_index,
                   memory_written_count, irq_signal, example_done>>

(* Fault: the byte is sent without being taken out of the FIFO.            *)
ForwardByteAgain(n) ==
    /\ active[n] = "forward_fifo"
    /\ call[n] = NoCall
    /\ NumAvailable(fifo[n]) > 0
    /\ call' = [call EXCEPT ![n] = FifoCall(Head(fifo[n].q))]
    /\ UNCHANGED <<timer, streamed, fifo, adapter, triggered, active, memory,
                   memory_index, memory_written_count, irq_signal, example_done>>

(* forward_fifo: nb_read succeeds and the byte goes out in a b_transport.  *)
ForwardByte(n) ==
    /\ active[n] = "forward_fifo"
    /\ call[n] = NoCall
    /\ NumAvailable(fifo[n]) > 0
    /\ call' = [call EXCEPT ![n] = FifoCall(Head(fifo[n].q))]
    /\ fifo' = [fifo EXCEPT ![n] = Taken(@)]
    /\ UNCHANGED <<timer, streamed, adapter, triggered, active, memory,
                   memory_index, memory_written_count, irq_signal, example_done>>

(* fifo_data_received_method: read a byte, keep it inverted in memory and  *)
(* send it on with nb_transport_fw.                                        *)
ReceiveByte(n) ==
    /\ active[n] = "fifo_data_received_method"
    /\ call[n] = NoCall
    /\ NumAvailable(adapter[n]) > 0
    /\ LET value == Invert(Head(adapter[n].q)) IN
       /\ memory' = [memory EXCEPT ![n][memory_index[n]] = value]
       /\ call' = [call EXCEPT ![n] = DmaCall(memory_index[n], value)]
    /\ adapter' = [adapter EXCEPT ![n] = Taken(@)]
    /\ memory_index' = [memory_index EXCEPT ![n] = @ + 1]
    /\ UNCHANGED <<timer, streamed, fifo, triggered, active,
                   memory_written_count, irq_signal, example_done>>

(* Fault: a method handles one byte and returns (if instead of while).     *)
MethodReturnsEarly(n) ==
    /\ call[n] = NoCall
    /\ active[n] \in Method
    /\ active' = [active EXCEPT ![n] = None]
    /\ UNCHANGED <<timer, streamed, fifo, adapter, triggered, call, memory,
                   memory_index, memory_written_count, irq_signal, example_done>>

(* A method's loop finds nothing more to read and the method returns.      *)
MethodReturns(n) ==
    /\ call[n] = NoCall
    /\ \/ active[n] = "forward_fifo" /\ NumAvailable(fifo[n]) = 0
       \/ active[n] = "fifo_data_received_method" /\ NumAvailable(adapter[n]) = 0
    /\ active' = [active EXCEPT ![n] = None]
    /\ UNCHANGED <<timer, streamed, fifo, adapter, triggered, call, memory,
                   memory_index, memory_written_count, irq_signal, example_done>>

(* on_fifo_in in the successor of p: fifo.write waits while the FIFO is    *)
(* full; the answer then releases p.                                       *)
ServeFifo(p) ==
    LET n == Succ[p] IN
    /\ call[p].op = "fifo"
    /\ active[n] = None
    /\ NumFree(adapter[n], FifoSize) > 0
    /\ adapter' = [adapter EXCEPT ![n] = Written(@, call[p].data)]
    /\ call' = [call EXCEPT ![p] = NoCall]
    /\ UNCHANGED <<timer, streamed, fifo, triggered, active, memory,
                   memory_index, memory_written_count, irq_signal, example_done>>

(* b_transport on memory_if of the successor of p, up to its second wait.  *)
ServeDma(p) ==
    LET n == Succ[p] IN
    /\ call[p].op = "dma"
    /\ call[p].stage = "pending"
    /\ active[n] = None
    /\ memory' = [memory EXCEPT ![n][call[p].address] = call[p].data]
    /\ memory_written_count' = [memory_written_count EXCEPT ![n] = @ + 1]
    /\ call' = [call EXCEPT ![p] =
           IF memory_written_count[n] + 1 = N THEN [@ EXCEPT !.stage = "irq"]
                                              ELSE NoCall]
    /\ UNCHANGED <<timer, streamed, fifo, adapter, triggered, active,
                   memory_index, irq_signal, example_done>>

(* The rest of that b_transport after wait(delay): the interrupt.          *)
RaiseIrq(p) ==
    LET n == Succ[p] IN
    /\ call[p].stage = "irq"
    /\ active[n] = None
    /\ irq_signal' = [irq_signal EXCEPT ![n] = TRUE]
    /\ call' = [call EXCEPT ![p] = NoCall]
    /\ UNCHANGED <<timer, streamed, fifo, adapter, triggered, active, memory,
                   memory_index, memory_written_count, example_done>>

(* Update phase of n's kernel: the FIFOs commit the delta's reads and      *)
(* writes, and data_written() triggers the methods sensitive to it.        *)
UpdatePhase(n) ==
    /\ active[n] = None
    /\ triggered[n] = {}
    /\ UpdateRequested(fifo[n]) \/ UpdateRequested(adapter[n])
    /\ fifo' = [fifo EXCEPT ![n] = Committed(@)]
    /\ adapter' = [adapter EXCEPT ![n] = Committed(@)]
    /\ triggered' = [triggered EXCEPT ![n] =
           (IF fifo[n].wr > 0 THEN {"forward_fifo"} ELSE {}) \cup
           (IF adapter[n].wr > 0 THEN {"fifo_data_received_method"} ELSE {})]
    /\ UNCHANGED <<timer, streamed, active, call, memory, memory_index,
                   memory_written_count, irq_signal, example_done>>

(* interrupt_handler of main.c, which also disables the interrupt.         *)
InterruptHandler ==
    /\ irq_signal[IrqNode]
    /\ ~example_done
    /\ example_done' = TRUE
    /\ UNCHANGED <<timer, streamed, fifo, adapter, triggered, active, call,
                   memory, memory_index, memory_written_count, irq_signal>>

(* Every process of the ring has nothing left to do: Renode idles.         *)
Finished ==
    /\ \A n \in Node : /\ timer[n] = "done" \/ n \notin Starters
                       /\ streamed[n] = N \/ n \notin Starters
                       /\ active[n] = None
                       /\ triggered[n] = {}
                       /\ ~UpdateRequested(fifo[n])
                       /\ ~UpdateRequested(adapter[n])
    /\ UNCHANGED vars

Step(n) ==
    \/ StartTimer(n) \/ TimerDone(n) \/ StreamByte(n)
    \/ \E m \in Method : RunMethod(n, m)
    \/ ForwardByte(n) \/ ReceiveByte(n) \/ MethodReturns(n)
    \/ ServeFifo(n) \/ ServeDma(n) \/ RaiseIrq(n)
    \/ UpdatePhase(n)

Next == (\E n \in Node : Step(n)) \/ InterruptHandler \/ Finished

Spec == Init /\ [][Next]_vars

(* Each simulation is driven forward by Renode's periodic time sync and    *)
(* the bridges answer what they receive, so no enabled step waits forever. *)
Fairness ==
    /\ \A n \in Node :
          /\ WF_vars(StartTimer(n)) /\ WF_vars(TimerDone(n))
          /\ WF_vars(StreamByte(n))
          /\ \A m \in Method : WF_vars(RunMethod(n, m))
          /\ WF_vars(ForwardByte(n)) /\ WF_vars(ReceiveByte(n))
          /\ WF_vars(MethodReturns(n))
          /\ WF_vars(ServeFifo(n)) /\ WF_vars(ServeDma(n)) /\ WF_vars(RaiseIrq(n))
          /\ WF_vars(UpdatePhase(n))
    /\ WF_vars(InterruptHandler)

FairSpec == Spec /\ Fairness
-----------------------------------------------------------------------------
(* Every variable has its type.  memory_index and memory_written_count     *)
(* stay within the array they count over.                                  *)
TypeOK ==
    /\ timer \in [Node -> {"stopped", "counting", "done"}]
    /\ streamed \in [Node -> 0 .. N]
    /\ fifo \in [Node -> ScFifoOf(Byte)]
    /\ adapter \in [Node -> ScFifoOf(Byte)]
    /\ triggered \in [Node -> SUBSET Method]
    /\ active \in [Node -> Process \cup {None}]
    /\ call \in [Node -> Calls]
    /\ memory \in [Node -> [Index -> Byte \cup {Garbage}]]
    /\ memory_index \in [Node -> 0 .. N]
    /\ memory_written_count \in [Node -> 0 .. N]
    /\ irq_signal \in [Node -> BOOLEAN]
    /\ example_done \in BOOLEAN

(* A raised interrupt means that the whole memory of the peripheral holds  *)
(* the inverted stream: no byte lost, doubled, reordered or still on its   *)
(* way when memory_written_count reaches memory.size().                    *)
InterruptMeansComplete ==
    \A n \in Node : irq_signal[n] =>
        \A k \in Index : memory[n][k] = Invert(ToByte(k))

(* A byte that reaches the peripheral always has a place in memory:        *)
(* fifo_data_received_method, which checks nothing, never indexes past the *)
(* end, nor does a DMA write that is on its way to the successor.          *)
StoresStayInMemory ==
    \A n \in Node :
        /\ memory_index[n] + Len(adapter[n].q) <= N
        /\ call[n].op = "dma" => call[n].address \in Index

(* Both methods drain their FIFO on every activation, so a byte that can   *)
(* be read always has an activation coming: with dont_initialize and a     *)
(* sensitivity to data_written() alone, a byte left behind would wait for  *)
(* the next write, which for the last byte never comes.                    *)
NoStrandedByte ==
    \A n \in Node :
        /\ NumAvailable(fifo[n]) > 0 =>
              "forward_fifo" \in triggered[n] \cup {active[n]}
        /\ NumAvailable(adapter[n]) > 0 =>
              "fifo_data_received_method" \in triggered[n] \cup {active[n]}

(* Not every peripheral of the ring waits for its successor at once: a     *)
(* peripheral inside a call cannot serve one.                              *)
NoCircularWait == \E n \in Node : call[n] = NoCall

(* The example ends: the interrupt of the wired peripheral reaches the CPU *)
(* (main.c polls example_done forever otherwise).                          *)
ExampleCompletes == <>example_done

Chain == INSTANCE TransferChain
    WITH emitted <- streamed, stored <- memory_index,
         written <- memory_written_count, interrupted <- irq_signal

(* The ring with its FIFOs, adapters, methods and blocking calls           *)
(* implements the chain of counters.                                       *)
ImplementsChain == Chain!ChainSpec

(* Where the bytes of a stream are.  Reading from the far end: the         *)
(* successor has stored idx bytes, its adapter FIFO aq holds the next      *)
(* ones, then come the c bytes (0 or 1) inside the blocked call of         *)
(* forward_fifo, then those in the sender's FIFO fq; together they are the *)
(* st bytes timer_done_thread has streamed, in order.                      *)
Located(st, idx, aq, c, fq) ==
    /\ st = idx + Len(aq) + c + Len(fq)
    /\ \A j \in 1 .. Len(aq) : aq[j] = idx + j - 1
    /\ \A j \in 1 .. Len(fq) : fq[j] = idx + Len(aq) + c + j - 1

InCall(p, op) == IF call[p].op = op /\ call[p].stage = "pending" THEN 1 ELSE 0

StreamInv(p) ==
    LET n == Succ[p]
    IN  /\ Located(streamed[p], memory_index[n], adapter[n].q,
                   InCall(p, "fifo"), fifo[p].q)
        /\ call[p].op = "fifo" =>
              /\ call[p].data = memory_index[n] + Len(adapter[n].q)
              /\ call[p].stage = "pending"

(* The bytes p has stored are those its successor has been written, but    *)
(* for the one inside the blocked DMA call.                                *)
DmaInv(p) ==
    LET n == Succ[p]
    IN  /\ memory_index[p] = memory_written_count[n] + InCall(p, "dma")
        /\ call[p].op = "dma" /\ call[p].stage = "pending" =>
              /\ call[p].address = memory_written_count[n]
              /\ call[p].data = Invert(call[p].address)
        /\ call[p].stage = "irq" =>
              /\ call[p].op = "dma"
              /\ call[p].address \in Index
              /\ memory_written_count[n] = N

MemoryInv(n) ==
    \A k \in Index :
        k < memory_index[n] \/ k < memory_written_count[n] =>
            memory[n][k] = Invert(k)

IrqInv(n) == irq_signal[n] => memory_written_count[n] = N

(* The strengthening of InterruptMeansComplete and StoresStayInMemory that *)
(* is inductive: every byte of every stream is accounted for, in order,    *)
(* wherever it is between timer_done_thread and the last DMA write.        *)
ChainInv ==
    \A n \in Node : StreamInv(n) /\ DmaInv(n) /\ MemoryInv(n) /\ IrqInv(n)
=============================================================================
