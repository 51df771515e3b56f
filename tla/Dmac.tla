-------------------------------- MODULE Dmac --------------------------------
(***************************************************************************)
(* The DMA controller of the dma example: its registers, its dmac_loop     *)
(* thread, the start event and the bus request / bus free handshake with   *)
(* Renode.  The thread's bus accesses go through the bridge and block the  *)
(* simulation until Renode answers, so no register write is served while   *)
(* a copy is going on; between start and grant, however, they are.         *)
(*                                                                         *)
(* Both lines are sc_signals: a write takes effect at the update phase,    *)
(* which runs when no process of the simulation is runnable.               *)
(***************************************************************************)
EXTENDS Integers

CONSTANTS AddrMod,  \* 2^32
          Byte,     \* the values of a byte of memory
          Faulty,   \* addresses for which Renode answers with an error
          MaxLen    \* bound: the longest transfer software programs

ASSUME DmacAssumption ==
    /\ AddrMod \in Nat \ {0}
    /\ MaxLen \in 0 .. AddrMod - 1
    /\ Byte # {}
    /\ Faulty \subseteq 0 .. AddrMod - 1

VARIABLES
    addr_src, addr_dst, data_len,
    loop,              \* where dmac_loop is
    i, data,           \* its locals
    r_addr, w_addr,
    bus_request,       \* current value of the signal
    bus_request_next,  \* value it takes at the next update
    bus_free,
    bus_free_next,
    early_grant,       \* bus_free rose in the delta cycle of the request
    led,               \* bus_request as Renode last heard of it
    memory,            \* what the Renode system bus reaches
    before             \* memory as the transfer that is going on found it

regVars == <<addr_src, addr_dst, data_len>>
copyVars == <<i, data, r_addr, w_addr>>
requestVars == <<bus_request, bus_request_next, led>>
freeVars == <<bus_free, bus_free_next, early_grant>>
vars == <<regVars, loop, copyVars, requestVars, freeVars, memory, before>>

Addr == 0 .. AddrMod - 1
\* Faults that the increments of the loop could have.
NotWrapped(a) == a + 1
NotIncremented(a) == a

Incremented(a) == IF a + 1 = AddrMod THEN 0 ELSE a + 1    \* ++ on uint32_t

(* "start": waiting for start_event; "woken": notified; "free": waiting    *)
(* for the edge of bus_free; "granted": seen it; "read", "write": at one   *)
(* of the two accesses of an iteration; "dead": an access failed.          *)
LoopStates == {"start", "woken", "free", "granted", "read", "write", "dead"}
-----------------------------------------------------------------------------
(* The registers are uninitialised until software writes them.             *)
Init ==
    /\ addr_src \in Addr /\ addr_dst \in Addr /\ data_len \in 0 .. MaxLen
    /\ loop = "start"
    /\ i = 0 /\ data \in Byte /\ r_addr = 0 /\ w_addr = 0
    /\ bus_request = FALSE /\ bus_request_next = FALSE /\ led = FALSE
    /\ bus_free = FALSE /\ bus_free_next = FALSE /\ early_grant = FALSE
    /\ memory \in [Addr -> Byte]
    /\ before = memory

(* dmac_loop is between two of its waits, inside an access to the bus; the *)
(* bridge's thread does not run then.                                      *)
Copying == loop \in {"read", "write"}

(* dmac_loop is suspended (or has returned).                               *)
LoopWaits == loop \in {"start", "free", "dead"}

WriteSource(v) ==
    /\ ~Copying
    /\ addr_src' = v
    /\ UNCHANGED <<addr_dst, data_len, loop, copyVars, requestVars, freeVars,
                   memory, before>>

WriteDestination(v) ==
    /\ ~Copying
    /\ addr_dst' = v
    /\ UNCHANGED <<addr_src, data_len, loop, copyVars, requestVars, freeVars,
                   memory, before>>

WriteLength(v) ==
    /\ ~Copying
    /\ data_len' = v
    /\ UNCHANGED <<addr_src, addr_dst, loop, copyVars, requestVars, freeVars,
                   memory, before>>

(* start_event.notify() is immediate: it wakes the thread if it waits for  *)
(* it, and is lost otherwise.                                              *)
WriteControl ==
    /\ ~Copying
    /\ loop' = IF loop = "start" THEN "woken" ELSE loop
    /\ UNCHANGED <<regVars, copyVars, requestVars, freeVars, memory, before>>

(* Fault: taking a line that is already up for the edge.                   *)
RequestBusByLevel ==
    /\ loop = "woken"
    /\ bus_request_next' = TRUE
    /\ loop' = IF bus_free THEN "granted" ELSE "free"
    /\ UNCHANGED <<regVars, copyVars, bus_request, led, freeVars, memory, before>>

RequestBus ==
    /\ loop = "woken"
    /\ bus_request_next' = TRUE
    /\ loop' = "free"
    /\ UNCHANGED <<regVars, copyVars, bus_request, led, freeVars, memory, before>>

(* Renode drives the bus free line: the bridge writes its GPIO output.     *)
SetBusFree(b) ==
    /\ ~Copying
    /\ bus_free_next' = b
    /\ UNCHANGED <<regVars, loop, copyVars, requestVars, bus_free, early_grant,
                   memory, before>>

(* The bridge's method on its GPIO input tells Renode of the change.       *)
ReportRequest ==
    /\ ~Copying
    /\ led # bus_request
    /\ led' = bus_request
    /\ UNCHANGED <<regVars, loop, copyVars, bus_request, bus_request_next,
                   freeVars, memory, before>>

(* Fault: heeding bus_free only once the request has been seen.            *)
UpdatePhaseOneDeltaLate ==
    /\ LoopWaits
    /\ led = bus_request
    /\ bus_free # bus_free_next \/ bus_request # bus_request_next
    /\ bus_free' = bus_free_next
    /\ bus_request' = bus_request_next
    /\ loop' = IF bus_free_next /\ ~bus_free /\ loop = "free" /\ bus_request
               THEN "granted" ELSE loop
    /\ early_grant' = (loop' = "granted" /\ ~bus_request)
    /\ UNCHANGED <<regVars, copyVars, bus_request_next, bus_free_next, led,
                   memory, before>>

(* Only a change of bus_free to true is an edge, and only a thread that    *)
(* already waits for it sees it.                                           *)
UpdatePhase ==
    /\ LoopWaits
    /\ led = bus_request
    /\ bus_free # bus_free_next \/ bus_request # bus_request_next
    /\ bus_free' = bus_free_next
    /\ bus_request' = bus_request_next
    /\ loop' = IF bus_free_next /\ ~bus_free /\ loop = "free" THEN "granted" ELSE loop
    /\ early_grant' = (loop' = "granted" /\ ~bus_request)
    /\ UNCHANGED <<regVars, copyVars, bus_request_next, bus_free_next, led,
                   memory, before>>

BeginCopy ==
    /\ loop = "granted"
    /\ r_addr' = addr_src
    /\ w_addr' = addr_dst
    /\ i' = 0
    /\ loop' = "read"
    /\ UNCHANGED <<regVars, data, requestVars, freeVars, memory, before>>

ReadByte ==
    /\ loop = "read"
    /\ i < data_len
    /\ IF r_addr \in Faulty
       THEN loop' = "dead" /\ before' = memory /\ data' = data
       ELSE loop' = "write" /\ before' = before /\ data' = memory[r_addr]
    /\ UNCHANGED <<regVars, i, r_addr, w_addr, requestVars, freeVars, memory>>

(* Fault: the loop counter does not advance.                               *)
WriteByteForever ==
    /\ loop = "write"
    /\ loop' = "read"
    /\ memory' = [memory EXCEPT ![w_addr] = data]
    /\ UNCHANGED <<regVars, copyVars, requestVars, freeVars, before>>

WriteByte ==
    /\ loop = "write"
    /\ IF w_addr \in Faulty
       THEN /\ loop' = "dead" /\ before' = memory
            /\ UNCHANGED <<memory, i, r_addr, w_addr>>
       ELSE /\ memory' = [memory EXCEPT ![w_addr] = data]
            /\ i' = i + 1
            /\ r_addr' = Incremented(r_addr)
            /\ w_addr' = Incremented(w_addr)
            /\ loop' = "read" /\ before' = before
    /\ UNCHANGED <<regVars, data, requestVars, freeVars>>

(* The locals of the iteration go out of scope.                            *)
ReleaseBus ==
    /\ loop = "read"
    /\ i >= data_len
    /\ bus_request_next' = FALSE
    /\ loop' = "start"
    /\ before' = memory
    /\ i' = 0 /\ r_addr' = 0 /\ w_addr' = 0
    /\ UNCHANGED <<regVars, data, bus_request, led, freeVars, memory>>

(* Another master of the bus.  It is assumed to keep off it while dmac_loop *)
(* copies, which is what the request is for.                               *)
CpuStore(a, v) ==
    /\ ~Copying
    /\ memory' = [memory EXCEPT ![a] = v]
    /\ before' = memory'
    /\ UNCHANGED <<regVars, loop, copyVars, requestVars, freeVars>>

Next ==
    \/ \E v \in Addr : WriteSource(v) \/ WriteDestination(v)
    \/ \E v \in 0 .. MaxLen : WriteLength(v)
    \/ WriteControl
    \/ RequestBus
    \/ \E b \in BOOLEAN : SetBusFree(b)
    \/ ReportRequest
    \/ UpdatePhase
    \/ BeginCopy \/ ReadByte \/ WriteByte \/ ReleaseBus
    \/ \E a \in Addr, v \in Byte : CpuStore(a, v)

Spec == Init /\ [][Next]_vars

(* The SystemC kernel runs what is runnable.                               *)
FairSpec ==
    /\ Spec
    /\ WF_vars(RequestBus) /\ WF_vars(ReportRequest) /\ WF_vars(UpdatePhase)
    /\ WF_vars(BeginCopy) /\ WF_vars(ReadByte) /\ WF_vars(WriteByte)
    /\ WF_vars(ReleaseBus)
-----------------------------------------------------------------------------
(* Every variable has its type.                                            *)
TypeOK ==
    /\ addr_src \in Addr /\ addr_dst \in Addr /\ data_len \in 0 .. MaxLen
    /\ loop \in LoopStates
    /\ i \in 0 .. MaxLen /\ data \in Byte /\ r_addr \in Addr /\ w_addr \in Addr
    /\ bus_request \in BOOLEAN /\ bus_request_next \in BOOLEAN /\ led \in BOOLEAN
    /\ bus_free \in BOOLEAN /\ bus_free_next \in BOOLEAN /\ early_grant \in BOOLEAN
    /\ memory \in [Addr -> Byte] /\ before \in [Addr -> Byte]

Phase == CASE loop \in {"start", "woken"} -> "idle"
           [] loop = "dead" -> "failed"
           [] OTHER -> "requested"

Copy == INSTANCE AtomicCopy
    WITH mem <- before, src <- addr_src, dst <- addr_dst, len <- data_len,
         phase <- Phase

(* Byte by byte, with registers that software may rewrite up to the grant  *)
(* and addresses that wrap, a transfer is one block copy (of a prefix, if  *)
(* an access fails).                                                       *)
ImplementsAtomicCopy == Copy!CopySpec

(* dmac_loop touches the bus only while bus_request is up, and Renode has  *)
(* been told so before the first access and not otherwise before the last. *)
(* The one exception is a bus_free that was not an answer: if it rises in  *)
(* the delta cycle of the request, the copy may begin, and end, before the *)
(* bridge has reported the request.                                        *)
RequestCoversAccesses ==
    /\ loop \in {"granted", "read", "write"} => bus_request /\ (led \/ early_grant)
    /\ loop \in {"free", "granted", "read", "write", "dead"} <=> bus_request_next

(* A thread that has asked for the bus is served by the next rising edge   *)
(* of bus_free, even one in the delta of the request: no edge goes by      *)
(* between bus_request.write(true) and the wait.                           *)
NoMissedGrant ==
    [][~bus_free /\ bus_free' /\ bus_request_next => loop' \in {"granted", "dead"}]_vars

(* What a transfer in progress has done: the bytes below i are copied, and *)
(* nothing else of the memory has changed since the grant.                 *)
ProgressInv ==
    /\ ~Copying => before = memory
    /\ Copying =>
         /\ i <= data_len
         /\ r_addr = Copy!Plus(addr_src, i) /\ w_addr = Copy!Plus(addr_dst, i)
         /\ \A a \in Addr \ Copy!Block(addr_dst, i) : memory[a] = before[a]
         /\ Copy!Safe => \A k \in 0 .. i - 1 :
              memory[Copy!Plus(addr_dst, k)] = before[Copy!Plus(addr_src, k)]
    /\ loop = "write" => i < data_len /\ data = memory[r_addr]

(* A granted transfer ends: the bus is released unless an access failed.   *)
GrantedTransferEnds == loop = "granted" ~> loop \in {"start", "dead"}
=============================================================================
