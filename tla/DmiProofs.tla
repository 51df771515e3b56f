------------------------------ MODULE DmiProofs ------------------------------
(***************************************************************************)
(* Theorems about module Dmi, for every size of the target's memory and    *)
(* done register, and every set of accesses.                               *)
(***************************************************************************)
EXTENDS Dmi, TLAPS

-----------------------------------------------------------------------------
(* The steps of the sequence change no variable of the target, and the     *)
(* target's steps none of the sequence.                                    *)
LEMMA InitType == Init => TypeOK
BY DmiAssumption DEF Init, TypeOK, Content, NotTranslated, Steps

LEMMA NextType == TypeOK /\ [Next]_vars => TypeOK'
<1> SUFFICES ASSUME TypeOK, [Next]_vars PROVE TypeOK'
    OBVIOUS
<1> USE DEF TypeOK, Content, NotTranslated, Steps, Word
<1>1. ASSUME NEW w \in Word, Translate(w) PROVE TypeOK'
    BY <1>1 DEF Translate, beginVars, stateVars, targetVars
<1>2. ASSUME NEW w \in Word, RenodeStore(w) PROVE TypeOK'
    BY <1>2 DEF RenodeStore, beginVars, stateVars, targetVars
<1>3. ASSUME NEW value \in BOOLEAN, gpio_port_write(value) PROVE TypeOK'
    BY <1>3 DEF gpio_port_write, renodeVars, stateVars, targetVars
<1>4. CASE UpdatePhase
    BY <1>4 DEF UpdatePhase, renodeVars, stateVars, targetVars
<1>5. CASE Begin
    BY <1>5 DEF Begin, reset, renodeVars, beginVars, stateVars, targetVars
<1>6. CASE WriteWord
    BY <1>6 DEF WriteWord, RenodeWrite, Sequence, Pattern, beginVars, stateVars, targetVars
<1>7. CASE Acquire
    BY <1>7 DEF Acquire, Sequence, beginVars, stateVars, targetVars
<1>8. CASE DmiRead
    BY <1>8 DEF DmiRead, Sequence, beginVars, stateVars, targetVars
<1>9. CASE DmiWrite
    BY <1>9 DEF DmiWrite, Sequence, Pattern, beginVars, stateVars, targetVars
<1>10. CASE Invalidate
    BY <1>10 DEF Invalidate, Sequence, beginVars, stateVars, targetVars
<1>11. CASE ReadBack
    BY <1>11 DEF ReadBack, mark_memory_done, update, renodeVars, beginVars, stateVars,
                 targetVars
<1>12. ASSUME NEW a \in Accesses, DoneRegisterAccess(a) PROVE TypeOK'
    BY <1>12 DEF DoneRegisterAccess, mark_cpu_done, update, renodeVars, beginVars,
                 stateVars, targetVars
<1>13. ASSUME NEW a \in Accesses, InMemory(a) PROVE Bytes(a) \subseteq 0 .. MemorySize - 1
    BY <1>13, DmiAssumption DEF InMemory, Bytes, Access
<1>14. ASSUME NEW a \in Accesses, MemoryAccess(a) PROVE TypeOK'
    BY <1>13, <1>14 DEF MemoryAccess, renodeVars, beginVars, stateVars, targetVars
<1>15. ASSUME NEW a \in Accesses, CpuDmiStore(a) PROVE TypeOK'
    BY <1>13, <1>15 DEF CpuDmiStore, renodeVars, beginVars, stateVars
<1>16. CASE UNCHANGED vars
    BY <1>16 DEF vars, renodeVars, beginVars, stateVars, targetVars
<1>17. QED
    BY <1>1, <1>2, <1>3, <1>4, <1>5, <1>6, <1>7, <1>8, <1>9, <1>10, <1>11, <1>12, <1>14,
       <1>15, <1>16 DEF Next, SequenceStep, TargetStep

(* Every variable keeps its type; in particular no access, over the I/O    *)
(* path or the mapped memory, writes outside systemc_cpu_target's memory.  *)
THEOREM TypeCorrect == Spec => []TypeOK
BY InitType, NextType, PTL DEF Spec
-----------------------------------------------------------------------------
(* Where the thread is says which words have matched in this test.         *)
Checked ==
    /\ thread \in {"write", "acquire", "dmi_read"} => verified = {}
    /\ thread \in {"acquire_second", "dmi_write", "invalidate", "read_back"} =>
          verified = {"first"}
    /\ thread = "returned" => verified # Word

(* test_state says what has happened since the test began.                 *)
StateIsTrue ==
    program = "native" =>
        /\ memory_done <=> verified = Word
        /\ cpu_done <=> cpu_stored
        /\ test_done <=> memory_done /\ cpu_done

DoneInv ==
    /\ TypeOK
    /\ Checked
    /\ StateIsTrue
    /\ program = "dmi" => (test_done <=> passed)

LEMMA InitDone == Init => DoneInv
BY InitType DEF Init, DoneInv, Checked, StateIsTrue, Word

(* What a step outside the sequence must leave alone.                      *)
LEMMA DoneUnchanged ==
    ASSUME DoneInv, TypeOK', UNCHANGED <<program, thread, stateVars, verified, cpu_stored, passed>>
    PROVE  DoneInv'
BY DEF DoneInv, Checked, StateIsTrue, stateVars

LEMMA NextDone == DoneInv /\ [Next]_vars => DoneInv'
<1> SUFFICES ASSUME DoneInv, [Next]_vars PROVE DoneInv'
    OBVIOUS
<1>0. TypeOK /\ TypeOK'
    BY NextType DEF DoneInv
<1>1. ASSUME NEW w \in Word, Translate(w) \/ RenodeStore(w) PROVE DoneInv'
    BY <1>0, <1>1, DoneUnchanged DEF Translate, RenodeStore
<1>2. ASSUME NEW value \in BOOLEAN, gpio_port_write(value) PROVE DoneInv'
    BY <1>0, <1>2, DoneUnchanged DEF gpio_port_write
<1>3. CASE UpdatePhase
    BY <1>0, <1>3 DEF UpdatePhase, DoneInv, Checked, StateIsTrue, stateVars
<1>4. CASE Begin
    BY <1>0, <1>4 DEF Begin, reset, DoneInv, Checked, StateIsTrue, Word, stateVars
<1>5. CASE WriteWord \/ Acquire
    BY <1>0, <1>5 DEF WriteWord, Acquire, Sequence, DoneInv, Checked, StateIsTrue, stateVars, Word
<1>6. CASE DmiRead
    BY <1>0, <1>6 DEF DmiRead, Sequence, DoneInv, Checked, StateIsTrue, stateVars, Word
<1>7. CASE DmiWrite \/ Invalidate
    BY <1>0, <1>7 DEF DmiWrite, Invalidate, Sequence, DoneInv, Checked, StateIsTrue, stateVars
<1>8. CASE ReadBack
    <2> DEFINE matched == memory["second"] = Pattern("second")
    <2>1. CASE matched
        <3>1. /\ verified' = Word /\ thread' = "wait" /\ passed'
              /\ UNCHANGED <<program, cpu_stored>>
            BY <1>8, <2>1 DEF ReadBack, DoneInv, Checked, Word
        <3>2. CASE program = "native"
            <4>1. mark_memory_done
                BY <1>8, <2>1, <3>2 DEF ReadBack
            <4>2. QED
                BY <1>0, <3>1, <3>2, <4>1 DEF mark_memory_done, update, DoneInv, Checked,
                                         StateIsTrue, TypeOK
        <3>3. CASE program # "native"
            <4>1. test_done'
                BY <1>8, <2>1, <3>3 DEF ReadBack
            <4>2. QED
                BY <1>0, <3>1, <3>3, <4>1 DEF DoneInv, Checked, StateIsTrue
        <3>4. QED
            BY <3>2, <3>3
    <2>2. CASE ~matched
        BY <1>0, <1>8, <2>2 DEF ReadBack, DoneInv, Checked, StateIsTrue, stateVars, Word
    <2>3. QED
        BY <2>1, <2>2
<1>9. ASSUME NEW a \in Accesses, DoneRegisterAccess(a) PROVE DoneInv'
    <2>1. CASE a.is_write
        BY <1>0, <1>9, <2>1 DEF DoneRegisterAccess, mark_cpu_done, update, DoneInv, Checked,
                                StateIsTrue, TypeOK
    <2>2. CASE ~a.is_write
        BY <1>0, <1>9, <2>2, DoneUnchanged DEF DoneRegisterAccess
    <2>3. QED
        BY <2>1, <2>2
<1>10. ASSUME NEW a \in Accesses, MemoryAccess(a) \/ CpuDmiStore(a) PROVE DoneInv'
    BY <1>0, <1>10, DoneUnchanged DEF MemoryAccess, CpuDmiStore
<1>11. CASE UNCHANGED vars
    BY <1>0, <1>11, DoneUnchanged DEF vars
<1>12. QED
    BY <1>1, <1>2, <1>3, <1>4, <1>5, <1>6, <1>7, <1>8, <1>9, <1>10, <1>11
       DEF Next, SequenceStep, TargetStep

(* The inductive invariant holds in every state.                           *)
THEOREM DoneInvariant == Spec => []DoneInv
BY InitDone, NextDone, PTL DEF Spec

(* test_done of native is up exactly for what the latest test has shown,   *)
(* whichever of the thread and the CPU comes first; that of dmi exactly    *)
(* when some test has passed.                                              *)
THEOREM DoneCorrect == Spec => []DoneIsEarned
<1>1. DoneInv => DoneIsEarned
    BY DEF DoneInv, TypeOK, StateIsTrue, DoneIsEarned
<1>2. QED
    BY DoneInvariant, <1>1, PTL
-----------------------------------------------------------------------------
LEMMA NextFresh == TypeOK /\ CodeIsFresh /\ [Next]_vars => CodeIsFresh'
<1> SUFFICES ASSUME TypeOK, CodeIsFresh, [Next]_vars PROVE CodeIsFresh'
    OBVIOUS
<1> USE DEF CodeIsFresh, TypeOK, Word
<1>1. ASSUME UNCHANGED <<memory, code>>, thread # "invalidate" \/ thread' = "invalidate"
      PROVE  CodeIsFresh'
    BY <1>1
<1>2. ASSUME NEW w \in Word, Translate(w) PROVE CodeIsFresh'
    BY <1>2 DEF Translate
<1>3. ASSUME NEW w \in Word, RenodeStore(w) PROVE CodeIsFresh'
    BY <1>3 DEF RenodeStore
<1>4. ASSUME NEW value \in BOOLEAN, gpio_port_write(value) PROVE CodeIsFresh'
    BY <1>1, <1>4 DEF gpio_port_write, renodeVars
<1>5. CASE UpdatePhase
    BY <1>1, <1>5 DEF UpdatePhase, renodeVars
<1>6. CASE Begin \/ Acquire \/ DmiRead \/ ReadBack
    BY <1>1, <1>6 DEF Begin, Acquire, DmiRead, ReadBack, Sequence, renodeVars
<1>7. CASE WriteWord
    BY <1>7 DEF WriteWord, RenodeWrite, Sequence
<1>8. CASE DmiWrite
    BY <1>8 DEF DmiWrite, Sequence
<1>9. CASE Invalidate
    BY <1>9 DEF Invalidate, Sequence
<1>10. ASSUME NEW a \in Accesses,
              DoneRegisterAccess(a) \/ MemoryAccess(a) \/ CpuDmiStore(a)
       PROVE  CodeIsFresh'
    BY <1>1, <1>10 DEF DoneRegisterAccess, MemoryAccess, CpuDmiStore, renodeVars
<1>11. CASE UNCHANGED vars
    BY <1>1, <1>11 DEF vars, renodeVars
<1>12. QED
    BY <1>2, <1>3, <1>4, <1>5, <1>6, <1>7, <1>8, <1>9, <1>10, <1>11
       DEF Next, SequenceStep, TargetStep

(* A stale translation exists only between the memcpy through the pointer  *)
(* and the invalidation.                                                   *)
THEOREM FreshCode == Spec => []CodeIsFresh
<1>1. Init => CodeIsFresh
    BY DEF Init, CodeIsFresh
<1>2. QED
    BY <1>1, NextFresh, TypeCorrect, PTL DEF Spec
=============================================================================
