----------------------------- MODULE DmacProofs -----------------------------
(***************************************************************************)
(* Proofs about the DMA controller for every size of the address space,    *)
(* every set of byte values, every set of refused addresses and every      *)
(* bound on the length of a transfer.                                      *)
(***************************************************************************)
EXTENDS Dmac, TLAPS

Inv == TypeOK /\ RequestCoversAccesses /\ ProgressInv
-----------------------------------------------------------------------------
(* Address arithmetic: r_addr and w_addr, incremented once a byte, are the *)
(* registers plus the number of bytes, and n bytes from an address on are  *)
(* different addresses as long as n does not exceed the address space.     *)
LEMMA PlusStep ==
    ASSUME NEW a \in Addr, NEW k \in 0 .. AddrMod - 2
    PROVE  /\ Copy!Plus(a, k) \in Addr
           /\ Incremented(Copy!Plus(a, k)) = Copy!Plus(a, k + 1)
           /\ Copy!Plus(a, 0) = a
  BY DmacAssumption DEF Addr, Incremented, Copy!Plus

LEMMA PlusInjective ==
    ASSUME NEW a \in Addr, NEW j \in 0 .. AddrMod - 1, NEW k \in 0 .. AddrMod - 1,
           Copy!Plus(a, j) = Copy!Plus(a, k)
    PROVE  j = k
  BY DmacAssumption DEF Addr, Copy!Plus

(* If a byte of the source is where an earlier byte went, the destination  *)
(* starts inside the source.                                               *)
LEMMA PlusOverlap ==
    ASSUME NEW a \in Addr, NEW b \in Addr,
           NEW j \in 0 .. AddrMod - 1, NEW k \in 0 .. j - 1,
           Copy!Plus(a, j) = Copy!Plus(b, k)
    PROVE  b = Copy!Plus(a, j - k)
  BY DmacAssumption DEF Addr, Copy!Plus

LEMMA InitInv == Init => Inv
<1> SUFFICES ASSUME Init PROVE Inv
  OBVIOUS
<1>1. 0 \in Addr /\ 0 \in 0 .. MaxLen
  BY DmacAssumption DEF Addr
<1>2. TypeOK
  BY <1>1 DEF Init, TypeOK, LoopStates
<1>3. RequestCoversAccesses
  BY DEF Init, RequestCoversAccesses
<1>4. ProgressInv
  BY DEF Init, ProgressInv, Copying
<1> QED BY <1>2, <1>3, <1>4 DEF Inv
-----------------------------------------------------------------------------
(* Every variable keeps its type.                                          *)
LEMMA TypeStep == TypeOK /\ ProgressInv /\ [Next]_vars => TypeOK'
<1> SUFFICES ASSUME TypeOK, ProgressInv, [Next]_vars PROVE TypeOK'
  OBVIOUS
<1> USE DmacAssumption DEF TypeOK, LoopStates
<1>1. ASSUME NEW v \in Addr, WriteSource(v) \/ WriteDestination(v) PROVE TypeOK'
  BY <1>1 DEF WriteSource, WriteDestination, copyVars, requestVars, freeVars
<1>2. ASSUME NEW v \in 0 .. MaxLen, WriteLength(v) PROVE TypeOK'
  BY <1>2 DEF WriteLength, copyVars, requestVars, freeVars
<1>3. CASE WriteControl
  BY <1>3 DEF WriteControl, regVars, copyVars, requestVars, freeVars
<1>4. CASE RequestBus
  BY <1>4 DEF RequestBus, regVars, copyVars, freeVars
<1>5. ASSUME NEW b \in BOOLEAN, SetBusFree(b) PROVE TypeOK'
  BY <1>5 DEF SetBusFree, regVars, copyVars, requestVars
<1>6. CASE ReportRequest
  BY <1>6 DEF ReportRequest, regVars, copyVars, freeVars
<1>7. CASE UpdatePhase
  BY <1>7 DEF UpdatePhase, regVars, copyVars
<1>8. CASE BeginCopy
  BY <1>8 DEF BeginCopy, regVars, requestVars, freeVars
<1>9. CASE ReadByte
  BY <1>9 DEF ReadByte, regVars, requestVars, freeVars
<1>10. CASE WriteByte
  <2>1. i + 1 \in 0 .. MaxLen
    BY <1>10 DEF WriteByte, ProgressInv
  <2>2. Incremented(r_addr) \in Addr /\ Incremented(w_addr) \in Addr
    BY DEF Incremented, Addr
  <2>3. [memory EXCEPT ![w_addr] = data] \in [Addr -> Byte]
    OBVIOUS
  <2> QED BY <1>10, <2>1, <2>2, <2>3 DEF WriteByte, regVars, requestVars, freeVars
<1>11. CASE ReleaseBus
  <2>1. 0 \in Addr /\ 0 \in 0 .. MaxLen
    BY DEF Addr
  <2> QED BY <1>11, <2>1 DEF ReleaseBus, regVars, freeVars
<1>12. ASSUME NEW a \in Addr, NEW v \in Byte, CpuStore(a, v) PROVE TypeOK'
  <2>1. [memory EXCEPT ![a] = v] \in [Addr -> Byte]
    OBVIOUS
  <2> QED BY <1>12, <2>1 DEF CpuStore, regVars, copyVars, requestVars, freeVars
<1>13. CASE UNCHANGED vars
  BY <1>13 DEF vars, regVars, copyVars, requestVars, freeVars
<1> QED BY <1>1, <1>2, <1>3, <1>4, <1>5, <1>6, <1>7, <1>8, <1>9, <1>10, <1>11,
           <1>12, <1>13 DEF Next
-----------------------------------------------------------------------------
LEMMA RequestStep ==
    TypeOK /\ RequestCoversAccesses /\ [Next]_vars => RequestCoversAccesses'
<1> SUFFICES ASSUME TypeOK, RequestCoversAccesses, [Next]_vars
             PROVE RequestCoversAccesses'
  OBVIOUS
<1> USE DEF RequestCoversAccesses
<1>1. CASE UNCHANGED <<loop, bus_request, bus_request_next, led, early_grant>>
  BY <1>1
<1>2. CASE WriteControl
  BY <1>2 DEF WriteControl, requestVars, freeVars, Copying
<1>3. CASE RequestBus
  BY <1>3 DEF RequestBus, freeVars
<1>4. CASE UpdatePhase
  BY <1>4 DEF UpdatePhase, LoopWaits, TypeOK
<1>5. CASE BeginCopy
  BY <1>5 DEF BeginCopy, requestVars, freeVars
<1>6. CASE ReadByte
  BY <1>6 DEF ReadByte, requestVars, freeVars
<1>7. CASE WriteByte
  BY <1>7 DEF WriteByte, requestVars, freeVars
<1>8. CASE ReleaseBus
  BY <1>8 DEF ReleaseBus, freeVars
<1>9. ASSUME NEW v, WriteSource(v) \/ WriteDestination(v) \/ WriteLength(v)
                   \/ SetBusFree(v)
      PROVE UNCHANGED <<loop, bus_request, bus_request_next, led, early_grant>>
  BY <1>9 DEF WriteSource, WriteDestination, WriteLength, SetBusFree, requestVars, freeVars
<1>10. ASSUME NEW a, NEW v, CpuStore(a, v)
       PROVE UNCHANGED <<loop, bus_request, bus_request_next, led, early_grant>>
  BY <1>10 DEF CpuStore, requestVars, freeVars
<1>11. CASE ReportRequest
  BY <1>11 DEF ReportRequest, freeVars
<1>12. CASE UNCHANGED vars
  BY <1>1, <1>12 DEF vars, requestVars, freeVars
<1> QED BY <1>1, <1>2, <1>3, <1>4, <1>5, <1>6, <1>7, <1>8, <1>9, <1>10, <1>11,
           <1>12 DEF Next
-----------------------------------------------------------------------------
(* The effect of one WriteByte on what has been copied.                    *)
LEMMA ByteCopied ==
    ASSUME TypeOK, ProgressInv, loop = "write",
           NEW m, m = [memory EXCEPT ![w_addr] = data]
    PROVE  /\ \A a \in Addr \ Copy!Block(addr_dst, i + 1) : m[a] = before[a]
           /\ Copy!Safe => \A k \in 0 .. i :
                m[Copy!Plus(addr_dst, k)] = before[Copy!Plus(addr_src, k)]
<1>1. /\ i \in Nat /\ i < data_len /\ i \in 0 .. AddrMod - 2
      /\ addr_src \in Addr /\ addr_dst \in Addr
      /\ memory \in [Addr -> Byte] /\ before \in [Addr -> Byte]
      /\ AddrMod \in Nat
  BY DmacAssumption DEF TypeOK, ProgressInv
<1>2. /\ w_addr = Copy!Plus(addr_dst, i) /\ r_addr = Copy!Plus(addr_src, i)
      /\ w_addr \in Addr /\ r_addr \in Addr /\ data = memory[r_addr]
  BY DEF TypeOK, ProgressInv, Copying
<1>3. ASSUME NEW a \in Addr \ Copy!Block(addr_dst, i + 1) PROVE m[a] = before[a]
  <2>1. a # w_addr
    BY <1>1, <1>2 DEF Copy!Block
  <2>2. a \notin Copy!Block(addr_dst, i)
    BY <1>1 DEF Copy!Block
  <2> QED BY <1>1, <1>2, <2>1, <2>2 DEF ProgressInv, Copying
<1>4. ASSUME Copy!Safe, NEW k \in 0 .. i
      PROVE m[Copy!Plus(addr_dst, k)] = before[Copy!Plus(addr_src, k)]
  <2>1. Copy!Plus(addr_dst, k) \in Addr
    BY <1>1, PlusStep
  <2>2. CASE k = i
    <3>1. r_addr \notin Copy!Block(addr_dst, i)
      <4> SUFFICES ASSUME NEW j \in 0 .. i - 1, r_addr = Copy!Plus(addr_dst, j)
                   PROVE FALSE
        BY DEF Copy!Block
      <4>1. addr_dst = Copy!Plus(addr_src, i - j)
        <5>1. i \in 0 .. AddrMod - 1 /\ Copy!Plus(addr_src, i) = Copy!Plus(addr_dst, j)
          BY <1>1, <1>2
        <5> QED BY <1>1, <5>1, PlusOverlap
      <4>2. i - j \in 1 .. data_len - 1
        BY <1>1 DEF TypeOK
      <4> QED BY <1>4, <4>1, <4>2 DEF Copy!Safe
    <3>2. memory[r_addr] = before[r_addr]
      BY <1>2, <3>1 DEF ProgressInv, Copying
    <3> QED BY <1>1, <1>2, <2>2, <3>2
  <2>3. CASE k # i
    <3>1. k \in 0 .. i - 1 /\ k \in 0 .. AddrMod - 1 /\ i \in 0 .. AddrMod - 1
      BY <1>1, <2>3
    <3>2. Copy!Plus(addr_dst, k) # w_addr
      BY <1>1, <1>2, <2>3, <3>1, PlusInjective
    <3> QED BY <1>1, <1>4, <2>1, <3>1, <3>2 DEF ProgressInv, Copying
  <2> QED BY <2>2, <2>3
<1> QED BY <1>3, <1>4

(* A step keeps the account of what the transfer in progress has done.     *)
LEMMA ProgressStep == TypeOK /\ ProgressInv /\ [Next]_vars => ProgressInv'
<1> SUFFICES ASSUME TypeOK, ProgressInv, [Next]_vars PROVE ProgressInv'
  OBVIOUS
<1>1. CASE BeginCopy
  <2>1. /\ addr_src \in Addr /\ addr_dst \in Addr /\ data_len \in Nat
        /\ before = memory
    BY <1>1, DmacAssumption DEF TypeOK, ProgressInv, BeginCopy, Copying
  <2>2. Copy!Plus(addr_src, 0) = addr_src /\ Copy!Plus(addr_dst, 0) = addr_dst
    BY <2>1, DmacAssumption DEF Copy!Plus, Addr
  <2> QED BY <1>1, <2>1, <2>2
          DEF BeginCopy, ProgressInv, regVars, Copying
<1>2. CASE ReadByte
  <2>1. /\ i' = i /\ r_addr' = r_addr /\ w_addr' = w_addr /\ memory' = memory
        /\ addr_src' = addr_src /\ addr_dst' = addr_dst /\ data_len' = data_len
        /\ i < data_len /\ Copying
        /\ \/ loop' = "dead" /\ before' = memory
           \/ loop' = "write" /\ before' = before /\ data' = memory[r_addr]
    BY <1>2 DEF ReadByte, regVars, Copying
  <2> QED BY <2>1 DEF ProgressInv, Copying, Copy!Safe, Copy!Block, Copy!Plus
<1>3. CASE WriteByte
  <2>1. /\ addr_src' = addr_src /\ addr_dst' = addr_dst /\ data_len' = data_len
        /\ loop = "write"
    BY <1>3 DEF WriteByte, regVars
  <2>2. CASE w_addr \in Faulty
    BY <1>3, <2>2 DEF WriteByte, ProgressInv, Copying
  <2>3. CASE w_addr \notin Faulty
    <3>1. /\ memory' = [memory EXCEPT ![w_addr] = data]
          /\ i' = i + 1 /\ r_addr' = Incremented(r_addr)
          /\ w_addr' = Incremented(w_addr) /\ loop' = "read" /\ before' = before
      BY <1>3, <2>3 DEF WriteByte
    <3>2. /\ i \in 0 .. AddrMod - 2 /\ i + 1 <= data_len
          /\ addr_src \in Addr /\ addr_dst \in Addr
          /\ r_addr = Copy!Plus(addr_src, i) /\ w_addr = Copy!Plus(addr_dst, i)
      BY <2>1, DmacAssumption DEF TypeOK, ProgressInv, Copying
    <3>3. /\ r_addr' = Copy!Plus(addr_src, i + 1)
          /\ w_addr' = Copy!Plus(addr_dst, i + 1)
      BY <3>1, <3>2, PlusStep
    <3>4. /\ \A a \in Addr \ Copy!Block(addr_dst, i + 1) : memory'[a] = before[a]
          /\ Copy!Safe => \A k \in 0 .. i :
               memory'[Copy!Plus(addr_dst, k)] = before[Copy!Plus(addr_src, k)]
      BY <2>1, <3>1, ByteCopied
    <3>5. 0 .. (i + 1) - 1 = 0 .. i
      BY <3>2
    <3> QED BY <2>1, <3>1, <3>2, <3>3, <3>4, <3>5
            DEF ProgressInv, Copying, Copy!Safe, Copy!Plus, Copy!Block
  <2> QED BY <2>2, <2>3
<1>4. CASE ReleaseBus
  BY <1>4 DEF ReleaseBus, ProgressInv, Copying
<1>5. ASSUME ~Copying, ~Copying', before = memory => before' = memory' PROVE ProgressInv'
  BY <1>5 DEF ProgressInv, Copying
<1>6. ASSUME NEW v, WriteSource(v) \/ WriteDestination(v) \/ WriteLength(v)
                   \/ SetBusFree(v)
      PROVE ProgressInv'
  BY <1>5, <1>6 DEF WriteSource, WriteDestination, WriteLength, SetBusFree, Copying
<1>7. WriteControl \/ ReportRequest \/ RequestBus \/ UpdatePhase => ProgressInv'
  BY <1>5 DEF WriteControl, ReportRequest, RequestBus, UpdatePhase, LoopWaits, Copying
<1>8. ASSUME NEW a, NEW v, CpuStore(a, v) PROVE ProgressInv'
  BY <1>5, <1>8 DEF CpuStore, Copying
<1>9. CASE UNCHANGED vars
  BY <1>9 DEF vars, regVars, copyVars, ProgressInv, Copying, Copy!Safe, Copy!Block,
     Copy!Plus
<1> QED BY <1>1, <1>2, <1>3, <1>4, <1>6, <1>7, <1>8, <1>9 DEF Next

LEMMA InvStep == Inv /\ [Next]_vars => Inv'
  BY TypeStep, RequestStep, ProgressStep DEF Inv

(* The inductive invariant of dmac: types, the request line and the        *)
(* progress of dmac_loop through its copy.                                 *)
THEOREM DmacInvariant == Spec => []Inv
  BY InitInv, InvStep, PTL DEF Spec
-----------------------------------------------------------------------------
(* Every variable of dmac has its type: addresses wrap within 32 bits.     *)
THEOREM DmacTypes == Spec => []TypeOK
  BY DmacInvariant, PTL DEF Inv

(* dmac_loop accesses the bus only under a request that Renode knows of,   *)
(* unless bus_free rose in the delta cycle of the request, and keeps it    *)
(* requested until it is through.                                          *)
THEOREM RequestCovers == Spec => []RequestCoversAccesses
  BY DmacInvariant, PTL DEF Inv

(* A copy in progress has copied exactly the bytes below i.                *)
THEOREM CopyProgress == Spec => []ProgressInv
  BY DmacInvariant, PTL DEF Inv

(* dmac_loop never misses the edge of bus_free that answers its request.   *)
THEOREM GrantNotMissed == Spec => NoMissedGrant
<1>1. Inv /\ [Next]_vars =>
        [~bus_free /\ bus_free' /\ bus_request_next => loop' \in {"granted", "dead"}]_vars
  <2> SUFFICES ASSUME Inv, Next, ~bus_free, bus_free', bus_request_next
               PROVE loop' \in {"granted", "dead"}
    OBVIOUS
  <2>1. CASE UpdatePhase
    BY <2>1 DEF UpdatePhase, LoopWaits, Inv, RequestCoversAccesses
  <2>2. ASSUME NEW v, WriteSource(v) \/ WriteDestination(v) \/ WriteLength(v)
                     \/ SetBusFree(v)
        PROVE FALSE
    BY <2>2 DEF WriteSource, WriteDestination, WriteLength, SetBusFree, freeVars
  <2>3. ASSUME NEW a, NEW v, CpuStore(a, v) PROVE FALSE
    BY <2>3 DEF CpuStore, freeVars
  <2>4. ASSUME WriteControl \/ ReportRequest \/ RequestBus \/ BeginCopy \/ ReadByte
               \/ WriteByte \/ ReleaseBus
        PROVE FALSE
    BY <2>4 DEF WriteControl, ReportRequest, RequestBus, BeginCopy, ReadByte,
       WriteByte, ReleaseBus, freeVars
  <2> QED BY <2>1, <2>2, <2>3, <2>4 DEF Next
<1> QED BY <1>1, DmacInvariant, PTL DEF Spec, NoMissedGrant
-----------------------------------------------------------------------------
(* A step that ends a transfer of n bytes is the abstract copy of n bytes. *)
LEMMA EndsCopied ==
    ASSUME Inv, Copying, before' = memory, UNCHANGED regVars
    PROVE  Copy!Copied(i)
<1>1. /\ memory \in [Addr -> Byte] /\ addr_dst' = addr_dst /\ addr_src' = addr_src
      /\ data_len' = data_len
  BY DEF Inv, TypeOK, regVars
<1>2. /\ \A a \in Addr \ Copy!Block(addr_dst, i) : memory[a] = before[a]
      /\ Copy!Safe => \A k \in 0 .. i - 1 :
           memory[Copy!Plus(addr_dst, k)] = before[Copy!Plus(addr_src, k)]
  BY DEF Inv, ProgressInv
<1> QED BY <1>1, <1>2 DEF Copy!Copied, Addr, Copy!Addr

(* The byte-by-byte controller implements AtomicCopy: every start that is  *)
(* granted copies the block that the registers name at the grant, wrapping *)
(* at the end of the address space, and a refused access leaves a prefix.  *)
THEOREM DmacRefinement == Spec => ImplementsAtomicCopy
<1>1. Init => Copy!CopyInit
  BY DEF Init, Copy!CopyInit, Addr, Copy!Addr, Phase
<1>2. Inv /\ [Next]_vars => [Copy!CopyNext]_(Copy!copierVars)
  <2> SUFFICES ASSUME Inv, [Next]_vars
               PROVE Copy!CopyNext \/ UNCHANGED (Copy!copierVars)
    OBVIOUS
  <2>0. TypeOK /\ ProgressInv
    BY DEF Inv
  <2>1. ASSUME NEW v \in Addr, WriteSource(v) \/ WriteDestination(v)
        PROVE Copy!Program
    BY <2>0, <2>1 DEF WriteSource, WriteDestination, Copy!Program, Phase, TypeOK,
       Addr, Copy!Addr
  <2>2. ASSUME NEW v \in 0 .. MaxLen, WriteLength(v) PROVE Copy!Program
    BY <2>0, <2>2 DEF WriteLength, Copy!Program, Phase, TypeOK, Addr, Copy!Addr
  <2>3. ASSUME \/ \E b \in BOOLEAN : SetBusFree(b)
               \/ WriteControl \/ ReportRequest \/ UpdatePhase \/ BeginCopy
               \/ UNCHANGED vars
        PROVE UNCHANGED Copy!copierVars
    <3>1. UNCHANGED <<regVars, before>>
      BY <2>3 DEF SetBusFree, WriteControl, ReportRequest, UpdatePhase, BeginCopy, vars
    <3>2. Phase' = Phase
      BY <2>3 DEF SetBusFree, WriteControl, ReportRequest, UpdatePhase, BeginCopy, vars,
         Phase, LoopWaits, Copying
    <3> QED BY <3>1, <3>2 DEF regVars, Copy!copierVars
  <2>4. ASSUME RequestBus PROVE Copy!Request
    BY <2>4 DEF RequestBus, Copy!Request, Phase, regVars
  <2>5. ASSUME ReadByte
        PROVE UNCHANGED Copy!copierVars \/ Copy!FailedTransfer
    <3>1. CASE r_addr \in Faulty
      <4>1. Copying /\ before' = memory /\ UNCHANGED regVars /\ loop' = "dead"
            /\ i < data_len /\ loop = "read"
        BY <2>5, <3>1 DEF ReadByte, Copying
      <4>2. Copy!Copied(i)
        BY <4>1, EndsCopied
      <4>3. i \in 0 .. data_len - 1 /\ Copy!Plus(addr_src, i) \in Faulty
        BY <2>0, <3>1, <4>1 DEF TypeOK, ProgressInv
      <4>4. Phase = "requested" /\ Phase' = "failed"
        BY <4>1 DEF Phase
      <4> QED BY <4>1, <4>2, <4>3, <4>4 DEF Copy!FailedTransfer, regVars
    <3>2. CASE r_addr \notin Faulty
      BY <2>5, <3>2 DEF ReadByte, Phase, regVars, Copy!copierVars
    <3> QED BY <3>1, <3>2
  <2>6. ASSUME WriteByte
        PROVE UNCHANGED Copy!copierVars \/ Copy!FailedTransfer
    <3>1. CASE w_addr \in Faulty
      <4>1. Copying /\ before' = memory /\ UNCHANGED regVars /\ loop' = "dead"
            /\ loop = "write"
        BY <2>6, <3>1 DEF WriteByte, Copying
      <4>2. Copy!Copied(i)
        BY <4>1, EndsCopied
      <4>3. i \in 0 .. data_len - 1 /\ Copy!Plus(addr_dst, i) \in Faulty
        BY <2>0, <3>1, <4>1 DEF TypeOK, ProgressInv
      <4>4. Phase = "requested" /\ Phase' = "failed"
        BY <4>1 DEF Phase
      <4> QED BY <4>1, <4>2, <4>3, <4>4 DEF Copy!FailedTransfer, regVars
    <3>2. CASE w_addr \notin Faulty
      BY <2>6, <3>2 DEF WriteByte, Phase, regVars, Copy!copierVars
    <3> QED BY <3>1, <3>2
  <2>7. ASSUME ReleaseBus PROVE Copy!Transfer
    <3>1. Copying /\ before' = memory /\ UNCHANGED regVars /\ loop' = "start"
          /\ loop = "read" /\ i >= data_len
      BY <2>7 DEF ReleaseBus, Copying
    <3>2. i = data_len
      BY <2>0, <3>1 DEF TypeOK, ProgressInv
    <3>3. Copy!Copied(data_len)
      BY <3>1, <3>2, EndsCopied
    <3>4. Phase = "requested" /\ Phase' = "idle"
      BY <3>1 DEF Phase
    <3> QED BY <3>1, <3>3, <3>4 DEF Copy!Transfer, regVars
  <2>8. ASSUME NEW a \in Addr, NEW v \in Byte, CpuStore(a, v)
        PROVE Copy!CpuStore(a, v)
    BY <2>0, <2>8 DEF CpuStore, Copy!CpuStore, ProgressInv, Phase, regVars
  <2> QED BY <2>1, <2>2, <2>3, <2>4, <2>5, <2>6, <2>7, <2>8
          DEF Next, Copy!CopyNext, Addr, Copy!Addr
<1> QED BY <1>1, <1>2, DmacInvariant, PTL DEF Spec, ImplementsAtomicCopy, Copy!CopySpec
=============================================================================
