----------------------- MODULE PeripheralChainProofs ------------------------
(***************************************************************************)
(* For every ring, memory size and FIFO size, and whichever peripherals    *)
(* the software starts: the chain delivers its streams intact and          *)
(* implements TransferChain, and it cannot hang when one peripheral alone  *)
(* is started and the ring has a third.                                    *)
(***************************************************************************)
EXTENDS PeripheralChain, TLAPS

Inv == TypeOK /\ ChainInv

-----------------------------------------------------------------------------
(* What the sc_fifo operations do to a well-typed channel.                 *)

(* fifo.write appends one element and keeps the readable ones.             *)
LEMMA WrittenFacts ==
    ASSUME NEW f \in ScFifoOf(Byte), NEW v \in Byte
    PROVE  /\ Written(f, v) \in ScFifoOf(Byte)
           /\ Written(f, v).q = Append(f.q, v)
           /\ NumAvailable(Written(f, v)) = NumAvailable(f)
BY DEF ScFifoOf, Written, NumAvailable

(* A read of a channel with something available takes the oldest element.  *)
LEMMA TakenFacts ==
    ASSUME NEW f \in ScFifoOf(Byte), NumAvailable(f) > 0
    PROVE  /\ f.q # <<>>
           /\ Head(f.q) \in Byte
           /\ Taken(f) \in ScFifoOf(Byte)
           /\ Taken(f).q = Tail(f.q)
BY DEF ScFifoOf, Taken, NumAvailable

(* The update phase changes what is readable, not what is queued.          *)
LEMMA CommittedFacts ==
    ASSUME NEW f \in ScFifoOf(Byte)
    PROVE  /\ Committed(f) \in ScFifoOf(Byte)
           /\ Committed(f).q = f.q
           /\ NumAvailable(Committed(f)) = NumAvailable(f) + f.wr
BY DEF ScFifoOf, Committed, NumAvailable

(* Bytes below N survive the conversion to uint8_t and stay bytes when     *)
(* inverted.                                                               *)
LEMMA ByteFacts ==
    /\ \A k \in 0 .. N : k < N => ToByte(k) = k /\ k \in Byte
    /\ \A v \in Byte : Invert(v) \in Byte
BY ChainAssumption DEF ToByte, Invert, Byte

-----------------------------------------------------------------------------
(* How a byte moves along a stream.                                        *)

(* Writing byte st into the sender's FIFO.                                 *)
LEMMA LocatedEmit ==
    ASSUME NEW st \in Byte, NEW idx \in Nat, NEW c \in {0, 1},
           NEW aq \in Seq(Byte), NEW fq \in Seq(Byte),
           Located(st, idx, aq, c, fq)
    PROVE  Located(st + 1, idx, aq, c, Append(fq, st))
<1>1. st \in Nat
  BY ChainAssumption DEF Byte
<1> QED
  BY <1>1 DEF Located

(* Moving the head of the sender's FIFO into a call.                       *)
LEMMA LocatedForward ==
    ASSUME NEW st \in Nat, NEW idx \in Nat,
           NEW aq \in Seq(Byte), NEW fq \in Seq(Byte), fq # <<>>,
           Located(st, idx, aq, 0, fq)
    PROVE  Located(st, idx, aq, 1, Tail(fq)) /\ Head(fq) = idx + Len(aq)
BY DEF Located

(* Moving the byte of the call into the adapter's FIFO.                    *)
LEMMA LocatedServe ==
    ASSUME NEW st \in Nat, NEW idx \in Nat, NEW v \in Byte,
           NEW aq \in Seq(Byte), NEW fq \in Seq(Byte),
           Located(st, idx, aq, 1, fq), v = idx + Len(aq)
    PROVE  Located(st, idx, Append(aq, v), 0, fq)
BY DEF Located

(* Storing the head of the adapter's FIFO.                                 *)
LEMMA LocatedStore ==
    ASSUME NEW st \in Nat, NEW idx \in Nat, NEW c \in {0, 1},
           NEW aq \in Seq(Byte), NEW fq \in Seq(Byte), aq # <<>>,
           Located(st, idx, aq, c, fq)
    PROVE  Located(st, idx + 1, Tail(aq), c, fq) /\ Head(aq) = idx /\ idx < st
BY DEF Located

(* What has arrived was streamed.                                          *)
LEMMA LocatedBound ==
    ASSUME NEW st \in 0 .. N, NEW idx \in Nat, NEW c \in {0, 1},
           NEW aq \in Seq(Byte), NEW fq \in Seq(Byte),
           Located(st, idx, aq, c, fq)
    PROVE  idx + Len(aq) <= N /\ idx <= st
<1>1. N \in Nat
  BY ChainAssumption
<1> QED
  BY <1>1 DEF Located

(* The types of the parts of a peripheral's state.                         *)
LEMMA NodeFacts ==
    ASSUME TypeOK, NEW p \in Node
    PROVE  /\ Succ[p] \in Node
           /\ streamed[p] \in 0 .. N
           /\ memory_index[p] \in 0 .. N
           /\ memory_written_count[p] \in 0 .. N
           /\ fifo[p] \in ScFifoOf(Byte)
           /\ fifo[p].q \in Seq(Byte)
           /\ adapter[p] \in ScFifoOf(Byte)
           /\ adapter[p].q \in Seq(Byte)
           /\ call[p] \in Calls
           /\ InCall(p, "fifo") \in {0, 1}
           /\ InCall(p, "dma") \in {0, 1}
<1>1. fifo[p] \in ScFifoOf(Byte) /\ adapter[p] \in ScFifoOf(Byte)
  BY DEF TypeOK
<1>2. fifo[p].q \in Seq(Byte) /\ adapter[p].q \in Seq(Byte)
  BY <1>1 DEF ScFifoOf
<1> QED
  BY <1>1, <1>2, ChainAssumption DEF TypeOK, InCall

-----------------------------------------------------------------------------
(* The initial state satisfies the invariant.                              *)
LEMMA InitInv == Init => Inv
<1> SUFFICES ASSUME Init PROVE Inv
  OBVIOUS
<1>1. EmptyFifo \in ScFifoOf(Byte) /\ NoCall \in Calls
  BY ChainAssumption DEF EmptyFifo, ScFifoOf, NoCall, Calls, Byte
<1>2. TypeOK
  <2>1. memory \in [Node -> [Index -> Byte \cup {Garbage}]]
    BY DEF Init
  <2>2. /\ triggered \in [Node -> SUBSET Method]
        /\ active \in [Node -> Process \cup {None}]
        /\ irq_signal \in [Node -> BOOLEAN]
        /\ example_done \in BOOLEAN
    BY DEF Init
  <2>3. 0 \in 0 .. N
    BY ChainAssumption
  <2> QED
    BY <1>1, <2>1, <2>2, <2>3 DEF Init, TypeOK
<1>3. ASSUME NEW p \in Node PROVE StreamInv(p) /\ DmaInv(p) /\ MemoryInv(p) /\ IrqInv(p)
  BY <1>3, ChainAssumption
     DEF Init, StreamInv, Located, DmaInv, MemoryInv, IrqInv, InCall, NoCall, EmptyFifo, Index
<1> QED
  BY <1>2, <1>3 DEF Inv, ChainInv

-----------------------------------------------------------------------------
(* One lemma per action: what a step of it leaves true.                    *)

(* Steps that touch neither the FIFOs, the calls nor the memory.           *)
LEMMA QuietStepInv ==
    ASSUME Inv,
           UNCHANGED <<streamed, fifo, adapter, call, memory, memory_index,
                       memory_written_count, irq_signal>>,
           timer' \in [Node -> {"stopped", "counting", "done"}],
           triggered' \in [Node -> SUBSET Method],
           active' \in [Node -> Process \cup {None}],
           example_done' \in BOOLEAN
    PROVE  Inv'
<1>1. TypeOK'
  BY DEF Inv, TypeOK
<1>2. ASSUME NEW p \in Node
      PROVE  StreamInv(p)' /\ DmaInv(p)' /\ MemoryInv(p)' /\ IrqInv(p)'
  BY <1>2 DEF Inv, ChainInv, StreamInv, DmaInv, MemoryInv, IrqInv, InCall
<1> QED
  BY <1>1, <1>2 DEF Inv, ChainInv

(* timer_done_thread writes the next byte.                                 *)
LEMMA StreamByteInv ==
    ASSUME Inv, NEW n \in Node, StreamByte(n)
    PROVE  Inv'
<1> DEFINE v == ToByte(streamed[n])
<1> TypeOK /\ ChainInv
  BY DEF Inv
<1>1. streamed[n] \in 0 .. N /\ streamed[n] < N /\ v = streamed[n] /\ v \in Byte
  BY ByteFacts, NodeFacts DEF StreamByte
<1> HIDE DEF v
<1>3. /\ Written(fifo[n], v) \in ScFifoOf(Byte)
      /\ Written(fifo[n], v).q = Append(fifo[n].q, v)
  <2>1. fifo[n] \in ScFifoOf(Byte)
    BY NodeFacts
  <2> QED
    BY <1>1, <2>1, WrittenFacts
<1>4. fifo' = [fifo EXCEPT ![n] = Written(fifo[n], v)]
  BY DEF StreamByte, v
<1>5. streamed' = [streamed EXCEPT ![n] = streamed[n] + 1]
  BY DEF StreamByte
<1>6. TypeOK'
  <2>1. active' \in [Node -> Process \cup {None}]
    BY DEF TypeOK, StreamByte, Process
  <2>2. fifo' \in [Node -> ScFifoOf(Byte)] /\ streamed' \in [Node -> 0 .. N]
    <3>1. streamed[n] + 1 \in 0 .. N
      BY <1>1, ChainAssumption
    <3> QED
      BY <1>3, <1>4, <1>5, <3>1 DEF TypeOK
  <2> QED
    BY <2>1, <2>2 DEF TypeOK, StreamByte
<1>7. ASSUME NEW p \in Node
      PROVE  StreamInv(p)' /\ DmaInv(p)' /\ MemoryInv(p)' /\ IrqInv(p)'
  <2>1. DmaInv(p)' /\ MemoryInv(p)' /\ IrqInv(p)'
    BY <1>7 DEF ChainInv, DmaInv, MemoryInv, IrqInv, InCall, StreamByte
  <2>2. StreamInv(p) /\ UNCHANGED <<memory_index, adapter, call>>
    BY DEF ChainInv, StreamByte
  <2>3. CASE p # n
    <3>1. fifo'[p] = fifo[p] /\ streamed'[p] = streamed[p]
      BY <1>4, <1>5, <2>3 DEF TypeOK
    <3> QED
      BY <2>1, <2>2, <3>1 DEF StreamInv, InCall
  <2>4. CASE p = n
    <3>1. fifo'[n] = Written(fifo[n], v) /\ streamed'[n] = streamed[n] + 1
      BY <1>4, <1>5 DEF TypeOK
    <3>3. Located(streamed[n], memory_index[Succ[n]], adapter[Succ[n]].q,
                  InCall(n, "fifo"), fifo[n].q)
      BY <2>2, <2>4 DEF StreamInv
    <3>4. Located(streamed[n] + 1, memory_index[Succ[n]], adapter[Succ[n]].q,
                  InCall(n, "fifo"), fifo'[n].q)
      <4>1. /\ memory_index[Succ[n]] \in Nat /\ InCall(n, "fifo") \in {0, 1}
            /\ adapter[Succ[n]].q \in Seq(Byte) /\ fifo[n].q \in Seq(Byte)
        BY NodeFacts
      <4> QED
        BY <1>1, <1>3, <3>1, <3>3, <4>1, LocatedEmit
    <3> QED
      BY <2>1, <2>2, <2>4, <3>1, <3>4 DEF StreamInv, InCall
  <2> QED
    BY <2>3, <2>4
<1> QED
  BY <1>6, <1>7 DEF Inv, ChainInv

(* forward_fifo moves the oldest byte of the FIFO into its call.           *)
LEMMA ForwardByteInv ==
    ASSUME Inv, NEW n \in Node, ForwardByte(n)
    PROVE  Inv'
<1> DEFINE v == Head(fifo[n].q)
<1> TypeOK /\ ChainInv
  BY DEF Inv
<1>1. /\ fifo[n].q # <<>> /\ v \in Byte
      /\ Taken(fifo[n]) \in ScFifoOf(Byte)
      /\ Taken(fifo[n]).q = Tail(fifo[n].q)
  <2>1. fifo[n] \in ScFifoOf(Byte) /\ NumAvailable(fifo[n]) > 0
    BY NodeFacts DEF ForwardByte
  <2> QED
    BY <2>1, TakenFacts
<1> HIDE DEF v
<1>2. fifo' = [fifo EXCEPT ![n] = Taken(fifo[n])]
  BY DEF ForwardByte
<1>3. call' = [call EXCEPT ![n] = FifoCall(v)] /\ call[n] = NoCall
  BY DEF ForwardByte, v
<1>4. FifoCall(v) \in Calls
  BY <1>1 DEF FifoCall, Calls
<1>5. TypeOK'
  <2>1. fifo' \in [Node -> ScFifoOf(Byte)] /\ call' \in [Node -> Calls]
    BY <1>1, <1>2, <1>3, <1>4 DEF TypeOK
  <2> QED
    BY <2>1 DEF TypeOK, ForwardByte
<1>6. UNCHANGED <<streamed, adapter, memory, memory_index,
                  memory_written_count, irq_signal>>
  BY DEF ForwardByte
<1>7. ASSUME NEW p \in Node
      PROVE  StreamInv(p)' /\ DmaInv(p)' /\ MemoryInv(p)' /\ IrqInv(p)'
  <2>1. StreamInv(p) /\ DmaInv(p) /\ MemoryInv(p) /\ IrqInv(p)
    BY DEF ChainInv
  <2>2. MemoryInv(p)' /\ IrqInv(p)'
    BY <1>6, <2>1 DEF MemoryInv, IrqInv
  <2>3. CASE p # n
    <3>1. fifo'[p] = fifo[p] /\ call'[p] = call[p]
      BY <1>2, <1>3, <2>3 DEF TypeOK
    <3> QED
      BY <1>6, <2>1, <2>2, <3>1 DEF StreamInv, DmaInv, InCall
  <2>4. CASE p = n
    <3>1. fifo'[n].q = Tail(fifo[n].q) /\ call'[n] = FifoCall(v)
      BY <1>1, <1>2, <1>3 DEF TypeOK
    <3>2. DmaInv(n)'
      BY <1>3, <1>6, <2>1, <2>4, <3>1 DEF DmaInv, InCall, FifoCall, NoCall
    <3>3. Located(streamed[n], memory_index[Succ[n]], adapter[Succ[n]].q, 0, fifo[n].q)
      BY <1>3, <2>1, <2>4 DEF StreamInv, InCall, NoCall
    <3>4. /\ Located(streamed[n], memory_index[Succ[n]], adapter[Succ[n]].q, 1, Tail(fifo[n].q))
          /\ v = memory_index[Succ[n]] + Len(adapter[Succ[n]].q)
      <4>1. /\ memory_index[Succ[n]] \in Nat /\ streamed[n] \in Nat
            /\ adapter[Succ[n]].q \in Seq(Byte) /\ fifo[n].q \in Seq(Byte)
        BY NodeFacts
      <4> QED
        BY <1>1, <3>3, <4>1, LocatedForward DEF v
    <3>5. InCall(n, "fifo")' = 1
      BY <3>1 DEF InCall, FifoCall
    <3>6. StreamInv(n)'
      BY <1>6, <3>1, <3>4, <3>5 DEF StreamInv, FifoCall
    <3> QED
      BY <2>2, <2>4, <3>2, <3>6
  <2> QED
    BY <2>3, <2>4
<1> QED
  BY <1>5, <1>7 DEF Inv, ChainInv

(* on_fifo_in puts the byte of the call into the adapter's FIFO.           *)
LEMMA ServeFifoInv ==
    ASSUME Inv, NEW q \in Node, ServeFifo(q)
    PROVE  Inv'
<1> DEFINE n == Succ[q]
           v == call[q].data
<1> TypeOK /\ ChainInv
  BY DEF Inv
<1>1. n \in Node /\ v \in Byte /\ call[q].op = "fifo"
  BY NodeFacts DEF ServeFifo, Calls
<1> HIDE DEF n, v
<1>2. adapter' = [adapter EXCEPT ![n] = Written(adapter[n], v)]
  BY DEF ServeFifo, n, v
<1>3. call' = [call EXCEPT ![q] = NoCall]
  BY DEF ServeFifo
<1>4. /\ Written(adapter[n], v) \in ScFifoOf(Byte)
      /\ Written(adapter[n], v).q = Append(adapter[n].q, v)
  <2>1. adapter[n] \in ScFifoOf(Byte)
    BY <1>1, NodeFacts
  <2> QED
    BY <1>1, <2>1, WrittenFacts
<1>5. TypeOK'
  <2>1. NoCall \in Calls
    BY ChainAssumption DEF NoCall, Calls, Byte
  <2>2. adapter' \in [Node -> ScFifoOf(Byte)] /\ call' \in [Node -> Calls]
    BY <1>2, <1>3, <1>4, <2>1 DEF TypeOK
  <2> QED
    BY <2>2 DEF TypeOK, ServeFifo
<1>6. UNCHANGED <<streamed, fifo, memory, memory_index,
                  memory_written_count, irq_signal>>
  BY DEF ServeFifo
<1>7. ASSUME NEW p \in Node
      PROVE  StreamInv(p)' /\ DmaInv(p)' /\ MemoryInv(p)' /\ IrqInv(p)'
  <2>1. StreamInv(p) /\ DmaInv(p) /\ MemoryInv(p) /\ IrqInv(p)
    BY DEF ChainInv
  <2>2. MemoryInv(p)' /\ IrqInv(p)'
    BY <1>6, <2>1 DEF MemoryInv, IrqInv
  <2>3. CASE p # q
    <3>1. call'[p] = call[p]
      BY <1>3, <2>3 DEF TypeOK
    <3>2. Succ[p] # n
      BY <2>3, ChainAssumption DEF n
    <3>3. adapter'[Succ[p]] = adapter[Succ[p]]
      BY <1>2, <3>2, NodeFacts DEF TypeOK
    <3> QED
      BY <1>6, <2>1, <2>2, <3>1, <3>3 DEF StreamInv, DmaInv, InCall
  <2>4. CASE p = q
    <3>1. adapter'[n].q = Append(adapter[n].q, v) /\ call'[q] = NoCall
      BY <1>1, <1>2, <1>3, <1>4 DEF TypeOK
    <3>2. DmaInv(q)'
      BY <1>1, <1>3, <1>6, <2>1, <2>4, <3>1 DEF DmaInv, InCall, NoCall
    <3>3. /\ Located(streamed[q], memory_index[n], adapter[n].q, 1, fifo[q].q)
          /\ v = memory_index[n] + Len(adapter[n].q)
      BY <1>1, <2>1, <2>4 DEF StreamInv, InCall, n, v
    <3>4. Located(streamed[q], memory_index[n], Append(adapter[n].q, v), 0, fifo[q].q)
      <4>1. /\ memory_index[n] \in Nat /\ streamed[q] \in Nat
            /\ adapter[n].q \in Seq(Byte) /\ fifo[q].q \in Seq(Byte)
        BY <1>1, NodeFacts
      <4> QED
        BY <1>1, <3>3, <4>1, LocatedServe
    <3>5. InCall(q, "fifo")' = 0
      BY <3>1 DEF InCall, NoCall
    <3>6. StreamInv(q)'
      BY <1>6, <3>1, <3>4, <3>5 DEF StreamInv, NoCall, n
    <3> QED
      BY <2>2, <2>4, <3>2, <3>6
  <2> QED
    BY <2>3, <2>4
<1> QED
  BY <1>5, <1>7 DEF Inv, ChainInv

(* fifo_data_received_method stores the oldest byte and calls the DMA.     *)
LEMMA ReceiveByteInv ==
    ASSUME Inv, NEW n \in Node, ReceiveByte(n)
    PROVE  Inv'
<1> DEFINE k == memory_index[n]
           v == Invert(Head(adapter[n].q))
<1> TypeOK /\ ChainInv
  BY DEF Inv
<1>1. /\ adapter[n].q # <<>> /\ Head(adapter[n].q) \in Byte
      /\ Taken(adapter[n]) \in ScFifoOf(Byte)
      /\ Taken(adapter[n]).q = Tail(adapter[n].q)
  <2>1. adapter[n] \in ScFifoOf(Byte) /\ NumAvailable(adapter[n]) > 0
    BY NodeFacts DEF ReceiveByte
  <2> QED
    BY <2>1, TakenFacts
<1>2. PICK r \in Node : Succ[r] = n
  BY ChainAssumption
<1>3. /\ Located(streamed[r], k + 1, Tail(adapter[n].q), InCall(r, "fifo"), fifo[r].q)
      /\ Head(adapter[n].q) = k /\ k < streamed[r]
  <2>1. Located(streamed[r], k, adapter[n].q, InCall(r, "fifo"), fifo[r].q)
    BY <1>2 DEF ChainInv, StreamInv
  <2>2. /\ streamed[r] \in Nat /\ k \in Nat /\ InCall(r, "fifo") \in {0, 1}
        /\ adapter[n].q \in Seq(Byte) /\ fifo[r].q \in Seq(Byte)
    BY NodeFacts
  <2> QED
    BY <1>1, <2>1, <2>2, LocatedStore
<1>4. k \in Index /\ k \in Nat /\ k + 1 \in 0 .. N /\ v \in Byte /\ v = Invert(k)
  <2>1. streamed[r] \in 0 .. N /\ k \in 0 .. N
    BY NodeFacts
  <2> QED
    BY <1>1, <1>3, <2>1, ByteFacts, ChainAssumption DEF Index
<1> HIDE DEF k, v
<1>5. /\ adapter' = [adapter EXCEPT ![n] = Taken(adapter[n])]
      /\ memory' = [memory EXCEPT ![n] = [memory[n] EXCEPT ![k] = v]]
      /\ memory_index' = [memory_index EXCEPT ![n] = k + 1]
      /\ call' = [call EXCEPT ![n] = DmaCall(k, v)]
      /\ call[n] = NoCall
  BY DEF ReceiveByte, k, v
<1>6. TypeOK'
  <2>1. DmaCall(k, v) \in Calls
    BY <1>4 DEF DmaCall, Calls
  <2>2. memory' \in [Node -> [Index -> Byte \cup {Garbage}]]
    BY <1>4, <1>5 DEF TypeOK
  <2>3. /\ adapter' \in [Node -> ScFifoOf(Byte)]
        /\ memory_index' \in [Node -> 0 .. N]
        /\ call' \in [Node -> Calls]
    BY <1>1, <1>4, <1>5, <2>1 DEF TypeOK
  <2> QED
    BY <2>2, <2>3 DEF TypeOK, ReceiveByte
<1>7. UNCHANGED <<streamed, fifo, memory_written_count, irq_signal>>
  BY DEF ReceiveByte
<1>8. ASSUME NEW p \in Node PROVE IrqInv(p)'
  BY <1>7 DEF ChainInv, IrqInv
<1>9. ASSUME NEW p \in Node PROVE MemoryInv(p)'
  <2>1. MemoryInv(p)
    BY DEF ChainInv
  <2>2. CASE p # n
    BY <1>5, <1>7, <2>1, <2>2 DEF MemoryInv, TypeOK
  <2>3. CASE p = n
    <3>1. /\ memory'[n] = [memory[n] EXCEPT ![k] = v] /\ memory_index'[n] = k + 1
          /\ memory[n] \in [Index -> Byte \cup {Garbage}]
      BY <1>5 DEF TypeOK
    <3>2. memory_index[n] = k
      BY DEF k
    <3>3. ASSUME NEW j \in Index, j < k + 1 \/ j < memory_written_count[n]
          PROVE  memory'[n][j] = Invert(j)
      <4>1. CASE j = k
        BY <1>4, <3>1, <4>1
      <4>2. CASE j # k
        <5>1. j < k \/ j < memory_written_count[n]
          BY <1>4, <3>3, <4>2, ChainAssumption DEF Index
        <5> QED
          BY <2>1, <2>3, <3>1, <3>2, <3>3, <4>2, <5>1 DEF MemoryInv
      <4> QED
        BY <4>1, <4>2
    <3> QED
      BY <1>7, <2>3, <3>1, <3>3 DEF MemoryInv
  <2> QED
    BY <2>2, <2>3
<1>10. ASSUME NEW p \in Node PROVE DmaInv(p)'
  <2>1. DmaInv(p)
    BY DEF ChainInv
  <2>2. CASE p # n
    <3>1. call'[p] = call[p] /\ memory_index'[p] = memory_index[p]
      BY <1>5, <2>2 DEF TypeOK
    <3> QED
      BY <1>7, <2>1, <3>1 DEF DmaInv, InCall
  <2>3. CASE p = n
    <3>1. call'[n] = DmaCall(k, v) /\ memory_index'[n] = k + 1
      BY <1>5 DEF TypeOK
    <3>2. k = memory_written_count[Succ[n]] + 0
      BY <1>5, <2>1, <2>3 DEF DmaInv, InCall, NoCall, k
    <3>3. memory_written_count[Succ[n]] \in Nat
      BY NodeFacts
    <3>4. InCall(n, "dma")' = 1
      BY <3>1 DEF InCall, DmaCall
    <3> QED
      BY <1>4, <1>7, <2>3, <3>1, <3>2, <3>3, <3>4 DEF DmaInv, DmaCall
  <2> QED
    BY <2>2, <2>3
<1>11. ASSUME NEW p \in Node PROVE StreamInv(p)'
  <2>1. StreamInv(p)
    BY DEF ChainInv
  <2>2. InCall(p, "fifo")' = InCall(p, "fifo")
    BY <1>5 DEF InCall, DmaCall, NoCall, TypeOK
  <2>3. call'[p].op = "fifo" => call[p].op = "fifo" /\ call'[p] = call[p]
    BY <1>5 DEF DmaCall, TypeOK
  <2>4. CASE p # r
    <3>1. Succ[p] # n
      BY <1>2, <2>4, ChainAssumption
    <3>2. adapter'[Succ[p]] = adapter[Succ[p]] /\ memory_index'[Succ[p]] = memory_index[Succ[p]]
      BY <1>5, <3>1, NodeFacts DEF TypeOK
    <3> QED
      BY <1>7, <2>1, <2>2, <2>3, <3>2 DEF StreamInv
  <2>5. CASE p = r
    <3>1. adapter'[n].q = Tail(adapter[n].q) /\ memory_index'[n] = k + 1
      BY <1>1, <1>5 DEF TypeOK
    <3>2. Located(streamed[r], k + 1, Tail(adapter[n].q), InCall(r, "fifo"), fifo[r].q)
      BY <1>3 DEF k
    <3>3. k + 1 + Len(Tail(adapter[n].q)) = memory_index[n] + Len(adapter[n].q)
      <4>1. adapter[n].q \in Seq(Byte)
        BY NodeFacts
      <4> QED
        BY <1>1, <1>4, <4>1 DEF k
    <3> QED
      BY <1>2, <1>7, <2>1, <2>2, <2>3, <2>5, <3>1, <3>2, <3>3 DEF StreamInv
  <2> QED
    BY <2>4, <2>5
<1> QED
  BY <1>6, <1>8, <1>9, <1>10, <1>11 DEF Inv, ChainInv

(* b_transport on memory_if writes the byte of the DMA call.               *)
LEMMA ServeDmaInv ==
    ASSUME Inv, NEW q \in Node, ServeDma(q)
    PROVE  Inv'
<1> DEFINE n == Succ[q]
           k == memory_written_count[n]
           c == IF k + 1 = N THEN [call[q] EXCEPT !.stage = "irq"] ELSE NoCall
<1> TypeOK /\ ChainInv
  BY DEF Inv
<1>1. /\ n \in Node /\ call[q] \in Calls
      /\ call[q].op = "dma" /\ call[q].stage = "pending"
  BY NodeFacts DEF ServeDma
<1>2. /\ call[q].address = k /\ call[q].data = Invert(k)
      /\ memory_index[q] = k + 1
  BY <1>1 DEF ChainInv, DmaInv, InCall
<1>3. k \in Index /\ k \in Nat /\ k + 1 \in 0 .. N /\ Invert(k) \in Byte
  <2>1. memory_index[q] \in 0 .. N /\ k \in 0 .. N
    BY <1>1, NodeFacts
  <2>2. k < N /\ k \in Nat
    BY <1>2, <2>1, ChainAssumption
  <2> QED
    BY <2>1, <2>2, ByteFacts, ChainAssumption DEF Index
<1>4. /\ c \in Calls /\ c.op # "fifo"
      /\ ~(c.op = "dma" /\ c.stage = "pending")
      /\ c.stage = "irq" => c.op = "dma" /\ c.address = k /\ k + 1 = N
  <2>1. NoCall \in Calls
    BY ChainAssumption DEF NoCall, Calls, Byte
  <2> QED
    BY <1>1, <1>2, <2>1 DEF Calls, NoCall
<1> HIDE DEF n, k, c
<1>5. /\ memory' = [memory EXCEPT ![n] = [memory[n] EXCEPT ![k] = Invert(k)]]
      /\ memory_written_count' = [memory_written_count EXCEPT ![n] = k + 1]
      /\ call' = [call EXCEPT ![q] = c]
  BY <1>2 DEF ServeDma, n, k, c
<1>6. TypeOK'
  <2>1. memory' \in [Node -> [Index -> Byte \cup {Garbage}]]
    BY <1>1, <1>3, <1>5 DEF TypeOK
  <2>2. memory_written_count' \in [Node -> 0 .. N] /\ call' \in [Node -> Calls]
    BY <1>3, <1>4, <1>5 DEF TypeOK
  <2> QED
    BY <2>1, <2>2 DEF TypeOK, ServeDma
<1>7. UNCHANGED <<streamed, fifo, adapter, memory_index, irq_signal>>
  BY DEF ServeDma
<1>8. ASSUME NEW p \in Node PROVE IrqInv(p)'
  <2>1. IrqInv(p)
    BY DEF ChainInv
  <2>2. CASE p = n
    <3>1. ~irq_signal[n]
      BY <1>3, <2>1, <2>2, ChainAssumption DEF IrqInv, Index, k
    <3> QED
      BY <1>7, <2>2, <3>1 DEF IrqInv
  <2>3. CASE p # n
    BY <1>5, <1>7, <2>1, <2>3 DEF IrqInv, TypeOK
  <2> QED
    BY <2>2, <2>3
<1>9. ASSUME NEW p \in Node PROVE MemoryInv(p)'
  <2>1. MemoryInv(p)
    BY DEF ChainInv
  <2>2. CASE p # n
    BY <1>5, <1>7, <2>1, <2>2 DEF MemoryInv, TypeOK
  <2>3. CASE p = n
    <3>1. /\ memory'[n] = [memory[n] EXCEPT ![k] = Invert(k)]
          /\ memory_written_count'[n] = k + 1
          /\ memory[n] \in [Index -> Byte \cup {Garbage}]
      BY <1>1, <1>5 DEF TypeOK
    <3>2. memory_written_count[n] = k
      BY DEF k
    <3>3. ASSUME NEW j \in Index, j < memory_index[n] \/ j < k + 1
          PROVE  memory'[n][j] = Invert(j)
      <4>1. CASE j = k
        BY <1>3, <3>1, <4>1
      <4>2. CASE j # k
        <5>1. j < memory_index[n] \/ j < k
          BY <1>3, <3>3, <4>2, ChainAssumption DEF Index
        <5> QED
          BY <2>1, <2>3, <3>1, <3>2, <3>3, <4>2, <5>1 DEF MemoryInv
      <4> QED
        BY <4>1, <4>2
    <3> QED
      BY <1>7, <2>3, <3>1, <3>3 DEF MemoryInv
  <2> QED
    BY <2>2, <2>3
<1>10. ASSUME NEW p \in Node PROVE DmaInv(p)'
  <2>1. DmaInv(p)
    BY DEF ChainInv
  <2>2. CASE p # q
    <3>1. Succ[p] # n
      BY <2>2, ChainAssumption DEF n
    <3>2. /\ call'[p] = call[p]
          /\ memory_written_count'[Succ[p]] = memory_written_count[Succ[p]]
      BY <1>5, <2>2, <3>1, NodeFacts DEF TypeOK
    <3> QED
      BY <1>7, <2>1, <3>2 DEF DmaInv, InCall
  <2>3. CASE p = q
    <3>1. call'[q] = c /\ memory_written_count'[n] = k + 1
      BY <1>1, <1>5 DEF TypeOK
    <3>2. InCall(q, "dma")' = 0
      BY <1>4, <3>1 DEF InCall
    <3> QED
      BY <1>2, <1>3, <1>4, <1>7, <2>3, <3>1, <3>2 DEF DmaInv, n
  <2> QED
    BY <2>2, <2>3
<1>11. ASSUME NEW p \in Node PROVE StreamInv(p)'
  <2>1. StreamInv(p)
    BY DEF ChainInv
  <2>2. InCall(p, "fifo")' = InCall(p, "fifo")
    BY <1>1, <1>4, <1>5 DEF InCall, TypeOK
  <2>3. call'[p].op = "fifo" => call[p].op = "fifo" /\ call'[p] = call[p]
    BY <1>4, <1>5 DEF TypeOK
  <2> QED
    BY <1>7, <2>1, <2>2, <2>3 DEF StreamInv
<1> QED
  BY <1>6, <1>8, <1>9, <1>10, <1>11 DEF Inv, ChainInv

(* The rest of that b_transport raises the interrupt.                      *)
LEMMA RaiseIrqInv ==
    ASSUME Inv, NEW q \in Node, RaiseIrq(q)
    PROVE  Inv'
<1> DEFINE n == Succ[q]
<1> TypeOK /\ ChainInv
  BY DEF Inv
<1>1. n \in Node /\ call[q].stage = "irq"
  BY NodeFacts DEF RaiseIrq
<1>2. call[q].op = "dma" /\ memory_written_count[n] = N
  BY <1>1 DEF ChainInv, DmaInv
<1> HIDE DEF n
<1>3. /\ irq_signal' = [irq_signal EXCEPT ![n] = TRUE]
      /\ call' = [call EXCEPT ![q] = NoCall]
      /\ UNCHANGED <<streamed, fifo, adapter, memory, memory_index,
                     memory_written_count>>
  BY DEF RaiseIrq, n
<1>4. TypeOK'
  <2>1. NoCall \in Calls
    BY ChainAssumption DEF NoCall, Calls, Byte
  <2>2. call' \in [Node -> Calls] /\ irq_signal' \in [Node -> BOOLEAN]
    BY <1>3, <2>1 DEF TypeOK
  <2> QED
    BY <2>2 DEF TypeOK, RaiseIrq
<1>5. ASSUME NEW p \in Node
      PROVE  StreamInv(p)' /\ DmaInv(p)' /\ MemoryInv(p)' /\ IrqInv(p)'
  <2>1. StreamInv(p) /\ DmaInv(p) /\ MemoryInv(p) /\ IrqInv(p)
    BY DEF ChainInv
  <2>2. MemoryInv(p)' /\ IrqInv(p)'
    BY <1>1, <1>2, <1>3, <2>1 DEF MemoryInv, IrqInv, TypeOK
  <2>3. /\ InCall(p, "fifo")' = InCall(p, "fifo")
        /\ InCall(p, "dma")' = InCall(p, "dma")
    BY <1>1, <1>3 DEF InCall, NoCall, TypeOK
  <2>4. call'[p] = call[p] \/ call'[p] = NoCall
    BY <1>3 DEF TypeOK
  <2>5. NoCall.op # "fifo" /\ NoCall.op # "dma" /\ NoCall.stage # "irq"
    BY DEF NoCall
  <2>6. StreamInv(p)'
    BY <1>3, <2>1, <2>3, <2>4, <2>5 DEF StreamInv
  <2>7. DmaInv(p)'
    BY <1>3, <2>1, <2>3, <2>4, <2>5 DEF DmaInv
  <2> QED
    BY <2>2, <2>6, <2>7
<1> QED
  BY <1>4, <1>5 DEF Inv, ChainInv

(* The update phase only changes what is readable.                         *)
LEMMA UpdatePhaseInv ==
    ASSUME Inv, NEW n \in Node, UpdatePhase(n)
    PROVE  Inv'
<1> TypeOK /\ ChainInv
  BY DEF Inv
<1>1. /\ Committed(fifo[n]) \in ScFifoOf(Byte) /\ Committed(fifo[n]).q = fifo[n].q
      /\ Committed(adapter[n]) \in ScFifoOf(Byte) /\ Committed(adapter[n]).q = adapter[n].q
  BY NodeFacts, CommittedFacts
<1>2. /\ fifo' = [fifo EXCEPT ![n] = Committed(fifo[n])]
      /\ adapter' = [adapter EXCEPT ![n] = Committed(adapter[n])]
      /\ UNCHANGED <<streamed, call, memory, memory_index, memory_written_count,
                     irq_signal>>
  BY DEF UpdatePhase
<1>3. TypeOK'
  <2>1. fifo' \in [Node -> ScFifoOf(Byte)] /\ adapter' \in [Node -> ScFifoOf(Byte)]
    BY <1>1, <1>2 DEF TypeOK
  <2>2. triggered' \in [Node -> SUBSET Method]
    BY DEF TypeOK, UpdatePhase, Method
  <2> QED
    BY <2>1, <2>2 DEF TypeOK, UpdatePhase
<1>4. \A p \in Node : fifo'[p].q = fifo[p].q /\ adapter'[p].q = adapter[p].q
  BY <1>1, <1>2 DEF TypeOK
<1>5. ASSUME NEW p \in Node
      PROVE  StreamInv(p)' /\ DmaInv(p)' /\ MemoryInv(p)' /\ IrqInv(p)'
  <2>1. StreamInv(p) /\ DmaInv(p) /\ MemoryInv(p) /\ IrqInv(p)
    BY DEF ChainInv
  <2>2. Succ[p] \in Node
    BY NodeFacts
  <2>3. DmaInv(p)' /\ MemoryInv(p)' /\ IrqInv(p)'
    BY <1>2, <2>1 DEF DmaInv, MemoryInv, IrqInv, InCall
  <2>4. StreamInv(p)'
    BY <1>2, <1>4, <2>1, <2>2 DEF StreamInv, InCall
  <2> QED
    BY <2>3, <2>4
<1> QED
  BY <1>3, <1>5 DEF Inv, ChainInv

(* Every step of the ring keeps the invariant.                             *)
LEMMA NextInv == Inv /\ [Next]_vars => Inv'
<1> SUFFICES ASSUME Inv, [Next]_vars PROVE Inv'
  OBVIOUS
<1> TypeOK
  BY DEF Inv
<1>1. ASSUME NEW n \in Node, StartTimer(n) \/ TimerDone(n) PROVE Inv'
  <2>1. timer' \in [Node -> {"stopped", "counting", "done"}]
    BY <1>1 DEF StartTimer, TimerDone, TypeOK
  <2> QED
    BY <1>1, <2>1, QuietStepInv DEF StartTimer, TimerDone, TypeOK
<1>2. ASSUME NEW n \in Node, NEW m \in Method, RunMethod(n, m) PROVE Inv'
  <2>1. /\ triggered' \in [Node -> SUBSET Method]
        /\ active' \in [Node -> Process \cup {None}]
    BY <1>2 DEF RunMethod, TypeOK, Process
  <2> QED
    BY <1>2, <2>1, QuietStepInv DEF RunMethod, TypeOK
<1>3. ASSUME NEW n \in Node, MethodReturns(n) PROVE Inv'
  <2>1. active' \in [Node -> Process \cup {None}]
    BY <1>3 DEF MethodReturns, TypeOK
  <2> QED
    BY <1>3, <2>1, QuietStepInv DEF MethodReturns, TypeOK
<1>4. CASE InterruptHandler
  BY <1>4, QuietStepInv DEF InterruptHandler, TypeOK
<1>5. CASE Finished \/ UNCHANGED vars
  BY <1>5, QuietStepInv DEF Finished, vars, TypeOK
<1>6. ASSUME NEW n \in Node, Step(n) PROVE Inv'
  BY <1>1, <1>2, <1>3, <1>6, StreamByteInv, ForwardByteInv, ReceiveByteInv,
     ServeFifoInv, ServeDmaInv, RaiseIrqInv, UpdatePhaseInv DEF Step
<1> QED
  BY <1>4, <1>5, <1>6 DEF Next

(* The inductive invariant holds in every reachable state: every byte of   *)
(* every stream is accounted for, in order, between timer_done_thread and  *)
(* the DMA write that delivers it.                                         *)
THEOREM ChainInvariant == Spec => [](TypeOK /\ ChainInv)
<1>1. Inv => TypeOK /\ ChainInv
  BY DEF Inv
<1> QED
  BY InitInv, NextInv, <1>1, PTL DEF Spec

(* Every variable keeps its type; the unchecked counters memory_index and  *)
(* memory_written_count never leave 0 .. memory.size().                    *)
THEOREM TypeCorrect == Spec => []TypeOK
<1>1. TypeOK /\ ChainInv => TypeOK
  OBVIOUS
<1> QED
  BY ChainInvariant, <1>1, PTL

(* A raised interrupt means the memory holds the whole inverted stream.    *)
THEOREM InterruptCorrect == Spec => []InterruptMeansComplete
<1>1. TypeOK /\ ChainInv => InterruptMeansComplete
  <2> SUFFICES ASSUME TypeOK, ChainInv, NEW n \in Node, irq_signal[n], NEW k \in Index
               PROVE  memory[n][k] = Invert(ToByte(k))
    BY DEF InterruptMeansComplete
  <2>1. memory_written_count[n] = N /\ MemoryInv(n)
    BY DEF ChainInv, IrqInv
  <2>2. k \in 0 .. N /\ k < N
    BY ChainAssumption DEF Index
  <2>3. memory[n][k] = Invert(k)
    BY <2>1, <2>2 DEF MemoryInv
  <2> QED
    BY <2>2, <2>3, ByteFacts
<1> QED
  BY ChainInvariant, <1>1, PTL

(* Neither the receiving method nor a DMA write leaves the memory array.   *)
THEOREM StoresCorrect == Spec => []StoresStayInMemory
<1>1. TypeOK /\ ChainInv => StoresStayInMemory
  <2> SUFFICES ASSUME TypeOK, ChainInv, NEW n \in Node
               PROVE  /\ memory_index[n] + Len(adapter[n].q) <= N
                      /\ call[n].op = "dma" => call[n].address \in Index
    BY DEF StoresStayInMemory
  <2>1. memory_index[n] + Len(adapter[n].q) <= N
    <3>1. PICK r \in Node : Succ[r] = n
      BY ChainAssumption
    <3>2. /\ streamed[r] \in 0 .. N /\ memory_index[n] \in Nat
          /\ adapter[n].q \in Seq(Byte) /\ fifo[r].q \in Seq(Byte)
          /\ InCall(r, "fifo") \in {0, 1}
      BY NodeFacts
    <3>3. Located(streamed[r], memory_index[n], adapter[n].q, InCall(r, "fifo"), fifo[r].q)
      BY <3>1 DEF ChainInv, StreamInv
    <3> QED
      BY <3>2, <3>3, LocatedBound
  <2>2. ASSUME call[n].op = "dma" PROVE call[n].address \in Index
    <3>1. DmaInv(n) /\ call[n].stage \in {"pending", "irq"}
      BY NodeFacts DEF ChainInv, Calls
    <3>2. CASE call[n].stage = "irq"
      BY <3>1, <3>2 DEF DmaInv
    <3>3. CASE call[n].stage = "pending"
      <4>1. call[n].address = memory_written_count[Succ[n]]
            /\ memory_index[n] = memory_written_count[Succ[n]] + 1
        BY <2>2, <3>1, <3>3 DEF DmaInv, InCall
      <4>2. memory_written_count[Succ[n]] \in 0 .. N /\ memory_index[n] \in 0 .. N
        BY NodeFacts
      <4> QED
        BY <4>1, <4>2, ChainAssumption DEF Index
    <3> QED
      BY <3>1, <3>2, <3>3
  <2> QED
    BY <2>1, <2>2
<1> QED
  BY ChainInvariant, <1>1, PTL

-----------------------------------------------------------------------------
(* A readable byte always has an activation of its reader coming: the      *)
(* methods of peripheral and adapter never lose a wake-up.                 *)
THEOREM NoLostWakeup == Spec => []NoStrandedByte
<1>1. Init => NoStrandedByte
  BY DEF Init, NoStrandedByte, NumAvailable, EmptyFifo
<1>2. TypeOK /\ NoStrandedByte /\ [Next]_vars => NoStrandedByte'
  <2> SUFFICES ASSUME TypeOK, NoStrandedByte, [Next]_vars,
                      NEW p \in Node
               PROVE  /\ NumAvailable(fifo'[p]) > 0 =>
                            "forward_fifo" \in triggered'[p] \cup {active'[p]}
                      /\ NumAvailable(adapter'[p]) > 0 =>
                            "fifo_data_received_method" \in triggered'[p] \cup {active'[p]}
    BY DEF NoStrandedByte
  <2> DEFINE Goal == /\ NumAvailable(fifo'[p]) > 0 =>
                            "forward_fifo" \in triggered'[p] \cup {active'[p]}
                     /\ NumAvailable(adapter'[p]) > 0 =>
                            "fifo_data_received_method" \in triggered'[p] \cup {active'[p]}
  <2>0. /\ NumAvailable(fifo[p]) > 0 =>
              "forward_fifo" \in triggered[p] \cup {active[p]}
        /\ NumAvailable(adapter[p]) > 0 =>
              "fifo_data_received_method" \in triggered[p] \cup {active[p]}
    BY DEF NoStrandedByte
  <2>1. ASSUME UNCHANGED <<fifo, adapter, triggered, active>> PROVE Goal
    BY <2>0, <2>1
  <2>2. ASSUME NEW n \in Node, StreamByte(n) PROVE Goal
    <3>1. CASE p # n
      BY <2>0, <2>2, <3>1 DEF StreamByte, TypeOK
    <3>2. CASE p = n
      <4>1. ToByte(streamed[n]) \in Byte
        BY <2>2, ByteFacts, NodeFacts DEF StreamByte
      <4>2. fifo'[n] = Written(fifo[n], ToByte(streamed[n]))
        BY <2>2 DEF StreamByte, TypeOK
      <4>3. NumAvailable(fifo'[n]) = NumAvailable(fifo[n])
        BY <4>1, <4>2, NodeFacts, WrittenFacts
      <4>4. /\ active[n] # "forward_fifo" /\ active[n] # "fifo_data_received_method"
            /\ triggered' = triggered /\ adapter' = adapter
        BY <2>2 DEF StreamByte, None
      <4> QED
        BY <2>0, <3>2, <4>3, <4>4
    <3> QED
      BY <3>1, <3>2
  <2>3. ASSUME NEW n \in Node, NEW m \in Method, RunMethod(n, m) PROVE Goal
    BY <2>0, <2>3 DEF RunMethod, TypeOK, None
  <2>4. ASSUME NEW n \in Node, ForwardByte(n) PROVE Goal
    <3>1. /\ adapter' = adapter /\ triggered' = triggered /\ active' = active
          /\ p = n => active'[p] = "forward_fifo"
          /\ p # n => fifo'[p] = fifo[p]
      BY <2>4 DEF ForwardByte, TypeOK
    <3> QED
      BY <2>0, <3>1
  <2>5. ASSUME NEW n \in Node, ReceiveByte(n) PROVE Goal
    <3>1. /\ fifo' = fifo /\ triggered' = triggered /\ active' = active
          /\ p = n => active'[p] = "fifo_data_received_method"
          /\ p # n => adapter'[p] = adapter[p]
      BY <2>5 DEF ReceiveByte, TypeOK
    <3> QED
      BY <2>0, <3>1
  <2>6. ASSUME NEW n \in Node, MethodReturns(n) PROVE Goal
    <3>1. fifo' = fifo /\ adapter' = adapter /\ triggered' = triggered
      BY <2>6 DEF MethodReturns
    <3>2. CASE p # n
      BY <2>0, <2>6, <3>1, <3>2 DEF MethodReturns, TypeOK
    <3>3. CASE p = n
      <4>1. \/ active[n] = "forward_fifo" /\ NumAvailable(fifo[n]) = 0
            \/ active[n] = "fifo_data_received_method" /\ NumAvailable(adapter[n]) = 0
        BY <2>6 DEF MethodReturns
      <4> QED
        BY <2>0, <3>1, <3>3, <4>1
    <3> QED
      BY <3>2, <3>3
  <2>7. ASSUME NEW q \in Node, ServeFifo(q) PROVE Goal
    <3>1. fifo' = fifo /\ triggered' = triggered /\ active' = active
      BY <2>7 DEF ServeFifo
    <3>2. NumAvailable(adapter'[p]) = NumAvailable(adapter[p])
      <4>1. call[q].data \in Byte /\ adapter[p] \in ScFifoOf(Byte)
        BY NodeFacts DEF Calls
      <4>2. adapter'[p] = adapter[p] \/ adapter'[p] = Written(adapter[p], call[q].data)
        BY <2>7 DEF ServeFifo, TypeOK
      <4> QED
        BY <4>1, <4>2, WrittenFacts
    <3> QED
      BY <2>0, <3>1, <3>2
  <2>8. ASSUME NEW n \in Node, UpdatePhase(n) PROVE Goal
    <3>1. CASE p # n
      BY <2>0, <2>8, <3>1 DEF UpdatePhase, TypeOK
    <3>2. CASE p = n
      <4>1. /\ fifo'[n] = Committed(fifo[n]) /\ adapter'[n] = Committed(adapter[n])
            /\ fifo[n].wr > 0 => "forward_fifo" \in triggered'[n]
            /\ adapter[n].wr > 0 => "fifo_data_received_method" \in triggered'[n]
        BY <2>8 DEF UpdatePhase, TypeOK
      <4>2. ~(NumAvailable(fifo[n]) > 0) /\ ~(NumAvailable(adapter[n]) > 0)
        BY <2>0, <2>8, <3>2 DEF UpdatePhase, None
      <4>3. /\ NumAvailable(fifo'[n]) = NumAvailable(fifo[n]) + fifo[n].wr
            /\ NumAvailable(adapter'[n]) = NumAvailable(adapter[n]) + adapter[n].wr
        BY <4>1, NodeFacts, CommittedFacts
      <4>4. /\ fifo[n].wr \in Nat /\ NumAvailable(fifo[n]) \in Int
            /\ adapter[n].wr \in Nat /\ NumAvailable(adapter[n]) \in Int
        <5>1. fifo[n] \in ScFifoOf(Byte) /\ adapter[n] \in ScFifoOf(Byte)
          BY NodeFacts
        <5> QED
          BY <5>1 DEF ScFifoOf, NumAvailable
      <4>5. /\ NumAvailable(fifo'[n]) > 0 => fifo[n].wr > 0
            /\ NumAvailable(adapter'[n]) > 0 => adapter[n].wr > 0
        BY <4>2, <4>3, <4>4
      <4> QED
        BY <3>2, <4>1, <4>5
    <3> QED
      BY <3>1, <3>2
  <2>9. ASSUME NEW n \in Node,
               StartTimer(n) \/ TimerDone(n) \/ ServeDma(n) \/ RaiseIrq(n)
        PROVE  Goal
    BY <2>1, <2>9 DEF StartTimer, TimerDone, ServeDma, RaiseIrq
  <2>10. ASSUME InterruptHandler \/ Finished \/ UNCHANGED vars PROVE Goal
    BY <2>1, <2>10 DEF InterruptHandler, Finished, vars
  <2> HIDE DEF Goal
  <2>11. Goal
    BY <2>2, <2>3, <2>4, <2>5, <2>6, <2>7, <2>8, <2>9, <2>10 DEF Next, Step
  <2> QED
    BY <2>11 DEF Goal
<1> QED
  BY <1>1, <1>2, TypeCorrect, PTL DEF Spec

-----------------------------------------------------------------------------
(* A step of the ring is a step of the chain of counters or leaves the     *)
(* counters alone.                                                         *)
LEMMA StepRefines == Inv /\ [Next]_vars => [Chain!ChainNext]_(Chain!chainVars)
<1> SUFFICES ASSUME Inv, [Next]_vars PROVE [Chain!ChainNext]_(Chain!chainVars)
  OBVIOUS
<1> TypeOK /\ ChainInv
  BY DEF Inv
<1>1. ASSUME UNCHANGED <<streamed, memory_index, memory_written_count, irq_signal>>
      PROVE  [Chain!ChainNext]_(Chain!chainVars)
  BY <1>1 DEF Chain!chainVars
<1>2. ASSUME NEW n \in Node, StreamByte(n) PROVE Chain!ChainNext
  BY <1>2 DEF StreamByte, Chain!ChainNext, Chain!Emit
<1>3. ASSUME NEW n \in Node, ReceiveByte(n) PROVE Chain!ChainNext
  <2>1. PICK r \in Node : Succ[r] = n
    BY ChainAssumption
  <2>2. memory_index[n] < streamed[r]
    <3>1. adapter[n].q # <<>>
      <4>1. adapter[n] \in ScFifoOf(Byte) /\ NumAvailable(adapter[n]) > 0
        BY <1>3, NodeFacts DEF ReceiveByte
      <4> QED
        BY <4>1, TakenFacts
    <3>2. /\ streamed[r] \in Nat /\ memory_index[n] \in Nat
          /\ adapter[n].q \in Seq(Byte) /\ fifo[r].q \in Seq(Byte)
          /\ InCall(r, "fifo") \in {0, 1}
      BY NodeFacts
    <3>3. Located(streamed[r], memory_index[n], adapter[n].q, InCall(r, "fifo"), fifo[r].q)
      BY <2>1 DEF ChainInv, StreamInv
    <3> QED
      BY <3>1, <3>2, <3>3, LocatedStore
  <2>3. Chain!Store(r)
    BY <1>3, <2>1, <2>2 DEF ReceiveByte, Chain!Store
  <2> QED
    BY <2>3 DEF Chain!ChainNext
<1>4. ASSUME NEW q \in Node, ServeDma(q) PROVE Chain!ChainNext
  <2>1. memory_index[q] = memory_written_count[Succ[q]] + 1
    BY <1>4 DEF ChainInv, DmaInv, InCall, ServeDma
  <2>2. memory_written_count[Succ[q]] < memory_index[q]
    <3>1. memory_written_count[Succ[q]] \in Nat
      BY NodeFacts
    <3> QED
      BY <2>1, <3>1
  <2>3. Chain!Write(q)
    BY <1>4, <2>2 DEF ServeDma, Chain!Write
  <2> QED
    BY <2>3 DEF Chain!ChainNext
<1>5. ASSUME NEW q \in Node, RaiseIrq(q) PROVE Chain!ChainNext
  <2>1. Succ[q] \in Node /\ memory_written_count[Succ[q]] = N
    BY <1>5, NodeFacts DEF ChainInv, DmaInv, RaiseIrq
  <2>2. Chain!Interrupt(Succ[q])
    BY <1>5, <2>1 DEF RaiseIrq, Chain!Interrupt
  <2> QED
    BY <2>1, <2>2 DEF Chain!ChainNext
<1>6. ASSUME NEW n \in Node,
             \/ StartTimer(n) \/ TimerDone(n) \/ (\E m \in Method : RunMethod(n, m))
             \/ ForwardByte(n) \/ MethodReturns(n) \/ ServeFifo(n) \/ UpdatePhase(n)
      PROVE  [Chain!ChainNext]_(Chain!chainVars)
  BY <1>1, <1>6 DEF StartTimer, TimerDone, RunMethod, ForwardByte, MethodReturns,
     ServeFifo, UpdatePhase
<1>7. ASSUME InterruptHandler \/ Finished \/ UNCHANGED vars
      PROVE  [Chain!ChainNext]_(Chain!chainVars)
  BY <1>1, <1>7 DEF InterruptHandler, Finished, vars
<1> QED
  BY <1>2, <1>3, <1>4, <1>5, <1>6, <1>7 DEF Next, Step

(* The detailed ring implements the abstract chain.                        *)
THEOREM Refinement == Spec => ImplementsChain
<1>1. Init => Chain!ChainInit
  BY DEF Init, Chain!ChainInit
<1>2. TypeOK /\ ChainInv => Inv
  BY DEF Inv
<1> QED
  BY <1>1, <1>2, ChainInvariant, StepRefines, PTL DEF Spec, ImplementsChain, Chain!ChainSpec

-----------------------------------------------------------------------------
(* Only started peripherals stream, and an idle call is NoCall.            *)
StarterInv ==
    \A n \in Node :
        /\ timer[n] # "stopped" => n \in Starters
        /\ streamed[n] # 0 => timer[n] # "stopped"
        /\ call[n].op = "none" => call[n] = NoCall

(* StarterInv holds in every reachable state.                              *)
LEMMA StarterInvariant == Spec => []StarterInv
<1>1. Init => StarterInv
  BY DEF Init, StarterInv
<1>2. TypeOK /\ ChainInv /\ StarterInv /\ [Next]_vars => StarterInv'
  <2> SUFFICES ASSUME TypeOK, ChainInv, StarterInv, [Next]_vars, NEW p \in Node
               PROVE  /\ timer'[p] # "stopped" => p \in Starters
                      /\ streamed'[p] # 0 => timer'[p] # "stopped"
                      /\ call'[p].op = "none" => call'[p] = NoCall
    BY DEF StarterInv
  <2> DEFINE Goal == /\ timer'[p] # "stopped" => p \in Starters
                     /\ streamed'[p] # 0 => timer'[p] # "stopped"
                     /\ call'[p].op = "none" => call'[p] = NoCall
  <2>0. /\ timer[p] # "stopped" => p \in Starters
        /\ streamed[p] # 0 => timer[p] # "stopped"
        /\ call[p].op = "none" => call[p] = NoCall
    BY DEF StarterInv
  <2>1. ASSUME UNCHANGED <<timer, streamed, call>> PROVE Goal
    BY <2>0, <2>1
  <2>2. ASSUME NEW n \in Node, StartTimer(n) \/ TimerDone(n) PROVE Goal
    BY <2>0, <2>2 DEF StartTimer, TimerDone, TypeOK
  <2>3. ASSUME NEW n \in Node, StreamByte(n) PROVE Goal
    BY <2>0, <2>3 DEF StreamByte, TypeOK
  <2>4. ASSUME NEW n \in Node, NEW c, c.op = "none" => c = NoCall,
               call' = [call EXCEPT ![n] = c], UNCHANGED <<timer, streamed>>
        PROVE  Goal
    BY <2>0, <2>4 DEF TypeOK
  <2>5. ASSUME NEW n \in Node,
               ForwardByte(n) \/ ReceiveByte(n) \/ ServeFifo(n) \/ RaiseIrq(n)
        PROVE  Goal
    <3>1. CASE ForwardByte(n)
      <4>1. FifoCall(Head(fifo[n].q)).op # "none"
        BY DEF FifoCall
      <4> QED
        BY <2>4, <3>1, <4>1 DEF ForwardByte
    <3>2. CASE ReceiveByte(n)
      <4>1. DmaCall(memory_index[n], Invert(Head(adapter[n].q))).op # "none"
        BY DEF DmaCall
      <4> QED
        BY <2>4, <3>2, <4>1 DEF ReceiveByte
    <3>3. CASE ServeFifo(n)
      BY <2>4, <3>3 DEF ServeFifo
    <3>4. CASE RaiseIrq(n)
      BY <2>4, <3>4 DEF RaiseIrq
    <3> QED
      BY <2>5, <3>1, <3>2, <3>3, <3>4
  <2>6. ASSUME NEW n \in Node, ServeDma(n) PROVE Goal
    <3>1. [call[n] EXCEPT !.stage = "irq"].op = "dma"
      BY <2>6, NodeFacts DEF ServeDma, Calls
    <3>2. PICK c : /\ c = [call[n] EXCEPT !.stage = "irq"] \/ c = NoCall
                   /\ call' = [call EXCEPT ![n] = c]
      BY <2>6 DEF ServeDma
    <3>3. c.op = "none" => c = NoCall
      BY <3>1, <3>2
    <3> QED
      BY <2>4, <2>6, <3>2, <3>3 DEF ServeDma
  <2>7. ASSUME NEW n \in Node,
               (\E m \in Method : RunMethod(n, m)) \/ MethodReturns(n) \/ UpdatePhase(n)
        PROVE  Goal
    BY <2>1, <2>7 DEF RunMethod, MethodReturns, UpdatePhase
  <2>8. ASSUME InterruptHandler \/ Finished \/ UNCHANGED vars PROVE Goal
    BY <2>1, <2>8 DEF InterruptHandler, Finished, vars
  <2> HIDE DEF Goal
  <2>9. Goal
    BY <2>2, <2>3, <2>5, <2>6, <2>7, <2>8 DEF Next, Step
  <2> QED
    BY <2>9 DEF Goal
<1> QED
  BY <1>1, <1>2, ChainInvariant, PTL DEF Spec

(* When the software starts one peripheral a, only a and its successor     *)
(* ever call; a third peripheral is always free to serve, so the ring      *)
(* never waits in a circle.  (With two starters it can.)                   *)
THEOREM OneStarterNeverHangs ==
    ASSUME NEW a \in Node, Starters = {a},
           NEW b \in Node, b # a, b # Succ[a]
    PROVE  Spec => []NoCircularWait
<1>1. TypeOK /\ ChainInv /\ StarterInv => NoCircularWait
  <2> SUFFICES ASSUME TypeOK, ChainInv, StarterInv PROVE call[b] = NoCall
    BY DEF NoCircularWait
  <2>1. \A n \in Node : n # a => streamed[n] = 0
    BY DEF StarterInv
  <2>2. call[b] \in Calls /\ StreamInv(b) /\ DmaInv(b)
    BY NodeFacts DEF ChainInv
  <2>3. call[b].op # "fifo"
    <3> SUFFICES ASSUME call[b].op = "fifo" PROVE FALSE
      OBVIOUS
    <3>1. Located(0, memory_index[Succ[b]], adapter[Succ[b]].q, 1, fifo[b].q)
      BY <2>1, <2>2 DEF StreamInv, InCall
    <3>2. /\ memory_index[Succ[b]] \in Nat /\ Len(adapter[Succ[b]].q) \in Nat
          /\ Len(fifo[b].q) \in Nat
      BY NodeFacts
    <3> QED
      BY <3>1, <3>2 DEF Located
  <2>4. memory_index[b] = 0
    <3>1. PICK r \in Node : Succ[r] = b
      BY ChainAssumption
    <3>2. streamed[r] = 0
      BY <2>1, <3>1
    <3>3. /\ memory_index[b] \in Nat /\ InCall(r, "fifo") \in {0, 1}
          /\ adapter[b].q \in Seq(Byte) /\ fifo[r].q \in Seq(Byte)
          /\ streamed[r] \in 0 .. N
      BY NodeFacts
    <3>4. Located(streamed[r], memory_index[b], adapter[b].q, InCall(r, "fifo"), fifo[r].q)
      BY <3>1 DEF ChainInv, StreamInv
    <3>5. memory_index[b] <= streamed[r]
      BY <3>3, <3>4, LocatedBound
    <3> QED
      BY <3>2, <3>3, <3>5
  <2>5. call[b].op # "dma"
    <3> SUFFICES ASSUME call[b].op = "dma" PROVE FALSE
      OBVIOUS
    <3>1. memory_written_count[Succ[b]] \in Nat /\ N \in Nat \ {0}
      BY NodeFacts, ChainAssumption
    <3>2. CASE call[b].stage = "pending"
      <4>1. 0 = memory_written_count[Succ[b]] + 1
        BY <2>2, <2>4, <3>2 DEF DmaInv, InCall
      <4> QED
        BY <3>1, <4>1
    <3>3. CASE call[b].stage = "irq"
      <4>1. 0 = memory_written_count[Succ[b]] + 0 /\ memory_written_count[Succ[b]] = N
        BY <2>2, <2>4, <3>3 DEF DmaInv, InCall
      <4> QED
        BY <3>1, <4>1
    <3> QED
      BY <2>2, <3>2, <3>3 DEF Calls
  <2> QED
    BY <2>2, <2>3, <2>5 DEF Calls, StarterInv
<1> QED
  BY <1>1, ChainInvariant, StarterInvariant, PTL
=============================================================================
