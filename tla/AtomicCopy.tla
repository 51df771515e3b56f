----------------------------- MODULE AtomicCopy -----------------------------
(***************************************************************************)
(* What software expects of the DMA controller: a requested transfer takes *)
(* effect as one block copy with the registers as they are then, and       *)
(* otherwise only the CPU changes the memory.  A transfer that meets an    *)
(* address the bus refuses has copied the bytes before it and is the last. *)
(* An overlapping transfer that runs ahead of itself promises nothing      *)
(* about the destination.                                                  *)
(***************************************************************************)
EXTENDS Naturals

CONSTANTS AddrMod,  \* addresses are 0 .. AddrMod-1
          Byte,
          Faulty,
          MaxLen

VARIABLES mem, src, dst, len,
          phase   \* "idle", "requested" or "failed"

copierVars == <<mem, src, dst, len, phase>>

Addr == 0 .. AddrMod - 1

(* Address arithmetic of the 32-bit registers, which wraps.                *)
Plus(a, k) == IF a + k < AddrMod THEN a + k ELSE a + k - AddrMod

Block(a, n) == {Plus(a, k) : k \in 0 .. n - 1}

(* The destination does not start inside the source, behind its first byte. *)
Safe == \A k \in 1 .. len - 1 : dst # Plus(src, k)

(* n bytes have been copied. *)
Copied(n) ==
    /\ mem' \in [Addr -> Byte]
    /\ \A a \in Addr \ Block(dst, n) : mem'[a] = mem[a]
    /\ Safe => \A k \in 0 .. n - 1 : mem'[Plus(dst, k)] = mem[Plus(src, k)]

CopyInit ==
    /\ mem \in [Addr -> Byte]
    /\ src \in Addr /\ dst \in Addr /\ len \in 0 .. MaxLen
    /\ phase = "idle"

CpuStore(a, v) ==
    /\ mem' = [mem EXCEPT ![a] = v]
    /\ UNCHANGED <<src, dst, len, phase>>

Program ==
    /\ src' \in Addr /\ dst' \in Addr /\ len' \in 0 .. MaxLen
    /\ UNCHANGED <<mem, phase>>

Request ==
    /\ phase = "idle"
    /\ phase' = "requested"
    /\ UNCHANGED <<mem, src, dst, len>>

Transfer ==
    /\ phase = "requested"
    /\ phase' = "idle"
    /\ Copied(len)
    /\ UNCHANGED <<src, dst, len>>

FailedTransfer ==
    /\ phase = "requested"
    /\ phase' = "failed"
    /\ \E n \in 0 .. len - 1 :
         /\ Plus(src, n) \in Faulty \/ Plus(dst, n) \in Faulty
         /\ Copied(n)
    /\ UNCHANGED <<src, dst, len>>

CopyNext ==
    \/ \E a \in Addr, v \in Byte : CpuStore(a, v)
    \/ Program \/ Request \/ Transfer \/ FailedTransfer

CopySpec == CopyInit /\ [][CopyNext]_copierVars
=============================================================================
