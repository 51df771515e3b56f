--------------------------------- MODULE Dmi ---------------------------------
(***************************************************************************)
(* The dmi and dmi-native examples: a SystemC thread, dmi_test_sequence,   *)
(* checks that Renode's memory looks the same through the bus and through  *)
(* a direct memory pointer.  It writes one word over the bus and reads it  *)
(* through the pointer, then writes another through the pointer and reads  *)
(* it over the bus; the second may be code that a CPU has translated.      *)
(*                                                                         *)
(* In dmi the thread raises a line when both words matched.  In dmi-native *)
(* the CPU moreover runs from a memory that SystemC provides, at the end   *)
(* of which lies a done register, and the line (test_done) rises when the  *)
(* thread and the CPU are both done.                                       *)
(*                                                                         *)
(* The thread does not wait inside its sequence, so no signal is updated   *)
(* while it runs.  Renode's CPU and Monitor run at the same time: they     *)
(* touch memory, and call the SystemC target, between any two steps.       *)
(***************************************************************************)
EXTENDS Naturals

CONSTANTS MemorySize,  \* size of systemc_cpu_target's memory
          DoneSize,    \* size of the done register behind it
          Accesses     \* what Renode asks of systemc_cpu_target

Access == [is_write : BOOLEAN, address : Nat, length : Nat \ {0}]

ASSUME DmiAssumption ==
    /\ MemorySize \in Nat \ {0} /\ DoneSize \in Nat \ {0}
    /\ Accesses \subseteq Access

VARIABLES
    program,              \* "dmi" or "native"; never changes
    backed,               \* the words that lie in memory Renode can map
    memory, code,         \* Renode's memory, and what the CPU translated of it
    test_begin, test_begin_next,
    thread,               \* the next step of dmi_test_sequence
    memory_done, cpu_done,         \* test_state
    test_done,            \* the line to Renode
    mapped,               \* Renode has mapped systemc_cpu_target's memory
    written,              \* its bytes that have been written
    unexpected_io_access,
    verified,             \* words that matched since the last test began
    cpu_stored,           \* the CPU wrote the done register since then
    passed                \* in some test so far both words matched

renodeVars == <<backed, memory, code>>
beginVars == <<test_begin, test_begin_next>>
stateVars == <<memory_done, cpu_done, test_done>>
targetVars == <<mapped, written, unexpected_io_access>>
vars == <<program, renodeVars, beginVars, thread, stateVars, targetVars, verified,
          cpu_stored, passed>>

Word == {"first", "second"}         \* 0x20001230 and 0x20002468
Pattern(w) == IF w = "first" THEN "b1e55ed" ELSE "c0ffee"
Content == {"b1e55ed", "c0ffee", "other"}
NotTranslated == "none"

(* "returned": a failure has ended the thread, or with assertions compiled *)
(* in the program.                                                         *)
Steps == {"wait", "begin", "write", "acquire", "dmi_read", "acquire_second",
          "dmi_write", "invalidate", "read_back", "returned"}
-----------------------------------------------------------------------------
Init ==
    /\ program \in {"dmi", "native"}
    /\ backed \in SUBSET Word
    /\ memory = [w \in Word |-> "other"] /\ code = [w \in Word |-> NotTranslated]
    /\ test_begin = FALSE /\ test_begin_next = FALSE
    /\ thread = "wait"
    /\ memory_done = FALSE /\ cpu_done = FALSE /\ test_done = FALSE
    /\ mapped = FALSE /\ written = {} /\ unexpected_io_access = FALSE
    /\ verified = {} /\ cpu_stored = FALSE /\ passed = FALSE

(* Renode's side of the words: the CPU translates what it fetches, and a   *)
(* store of the CPU or the Monitor drops the translation.                  *)
Translate(w) ==
    /\ w \in backed
    /\ code[w] = NotTranslated
    /\ code' = [code EXCEPT ![w] = memory[w]]
    /\ UNCHANGED <<program, backed, memory, beginVars, thread, stateVars, targetVars,
                   verified, cpu_stored, passed>>

RenodeStore(w) ==
    /\ w \in backed
    /\ memory' = [memory EXCEPT ![w] = "other"]
    /\ code' = [code EXCEPT ![w] = NotTranslated]
    /\ UNCHANGED <<program, backed, beginVars, thread, stateVars, targetVars, verified,
                   cpu_stored, passed>>

(* OnGPIO 1: the bridge, or gpio_port_write, writes test_begin.            *)
gpio_port_write(value) ==
    /\ test_begin_next' = value
    /\ UNCHANGED <<program, renodeVars, test_begin, thread, stateVars, targetVars,
                   verified, cpu_stored, passed>>

(* Update phase: a rising edge wakes the thread if it waits for one.       *)
UpdatePhase ==
    /\ thread \in {"wait", "returned"}
    /\ test_begin # test_begin_next
    /\ test_begin' = test_begin_next
    /\ thread' = IF thread = "wait" /\ test_begin_next THEN "begin" ELSE thread
    /\ UNCHANGED <<program, renodeVars, test_begin_next, stateVars, targetVars, verified,
                   cpu_stored, passed>>
-----------------------------------------------------------------------------
(* Fault: reset forgets cpu_done.                                          *)
ResetMemoryOnly == memory_done' = FALSE /\ test_done' = FALSE /\ UNCHANGED cpu_done

(* test_state.                                                             *)
reset == memory_done' = FALSE /\ cpu_done' = FALSE /\ test_done' = FALSE

update(memory_ok, cpu_ok) == test_done' = (test_done \/ (memory_ok /\ cpu_ok))

mark_memory_done == memory_done' = TRUE /\ update(TRUE, cpu_done) /\ UNCHANGED cpu_done

mark_cpu_done == cpu_done' = TRUE /\ update(memory_done, TRUE) /\ UNCHANGED memory_done

(* The head of the loop; only native has reset_done().                     *)
Begin ==
    /\ thread = "begin"
    /\ thread' = "write"
    /\ verified' = {} /\ cpu_stored' = FALSE
    /\ IF program = "native" THEN reset ELSE UNCHANGED stateVars
    /\ UNCHANGED <<program, renodeVars, beginVars, targetVars, passed>>

(* A step of the sequence that only moves Renode's memory.                 *)
Sequence(from, to) ==
    /\ thread = from
    /\ thread' = to
    /\ UNCHANGED <<program, backed, beginVars, stateVars, targetVars, cpu_stored, passed>>

(* A bus write of a word: Renode drops its own translation.  Where there   *)
(* is no memory the bridge of dmi reports an error, while                  *)
(* renode_memory_transport always answers OK with the DMI hint.            *)
RenodeWrite(w) ==
    IF w \in backed
    THEN /\ memory' = [memory EXCEPT ![w] = Pattern(w)]
         /\ code' = [code EXCEPT ![w] = NotTranslated]
    ELSE UNCHANGED <<memory, code>>

BusAccessOK(w) == w \in backed \/ program = "native"

(* b_transport of the first word.                                          *)
WriteWord ==
    /\ Sequence("write", IF BusAccessOK("first") THEN "acquire" ELSE "returned")
    /\ RenodeWrite("first")
    /\ UNCHANGED verified

(* get_direct_mem_ptr: Renode knows a pointer if there is memory.          *)
Acquire ==
    /\ \/ Sequence("acquire", IF "first" \in backed THEN "dmi_read" ELSE "returned")
       \/ Sequence("acquire_second",
              IF "second" \in backed THEN "dmi_write" ELSE "returned")
    /\ UNCHANGED <<memory, code, verified>>

(* memcpy from the pointer and comparison.                                 *)
DmiRead ==
    LET matched == memory["first"] = Pattern("first") IN
    /\ Sequence("dmi_read", IF matched THEN "acquire_second" ELSE "returned")
    /\ verified' = IF matched THEN verified \cup {"first"} ELSE verified
    /\ UNCHANGED <<memory, code>>

(* memcpy to the pointer: Renode does not see it.                          *)
DmiWrite ==
    /\ Sequence("dmi_write", "invalidate")
    /\ memory' = [memory EXCEPT !["second"] = Pattern("second")]
    /\ UNCHANGED <<code, verified>>

(* Fault: the range of the first test is invalidated.                      *)
InvalidateFirst ==
    /\ Sequence("invalidate", "read_back")
    /\ code' = [code EXCEPT !["first"] = NotTranslated]
    /\ UNCHANGED <<memory, verified>>

(* invalidate_translation_blocks.                                          *)
Invalidate ==
    /\ Sequence("invalidate", "read_back")
    /\ code' = [code EXCEPT !["second"] = NotTranslated]
    /\ UNCHANGED <<memory, verified>>

(* Fault: a match is not reported.                                         *)
ReadBackSilent ==
    LET matched == memory["second"] = Pattern("second") IN
    /\ thread = "read_back"
    /\ thread' = IF matched THEN "wait" ELSE "returned"
    /\ verified' = IF matched THEN verified \cup {"second"} ELSE verified
    /\ passed' = (passed \/ verified' = Word)
    /\ UNCHANGED <<program, renodeVars, beginVars, stateVars, targetVars, cpu_stored>>

(* b_transport reads the second word; if it matches the thread reports and *)
(* waits for the next edge.                                                *)
ReadBack ==
    LET matched == memory["second"] = Pattern("second") IN
    /\ thread = "read_back"
    /\ thread' = IF matched THEN "wait" ELSE "returned"
    /\ verified' = IF matched THEN verified \cup {"second"} ELSE verified
    /\ passed' = (passed \/ verified' = Word)
    /\ CASE ~matched -> UNCHANGED stateVars
         [] matched /\ program = "native" -> mark_memory_done
         [] OTHER -> test_done' = TRUE /\ UNCHANGED <<memory_done, cpu_done>>
    /\ UNCHANGED <<program, renodeVars, beginVars, targetVars, cpu_stored>>
-----------------------------------------------------------------------------
DoneOffset == MemorySize            \* after memory

\* Fault: the length is not part of the bound.
StartsInMemory(a) == a.address <= MemorySize

IsDoneRegister(a) == a.address >= DoneOffset /\ a.address + a.length <= DoneOffset + DoneSize
InMemory(a) == a.address + a.length <= MemorySize
Bytes(a) == a.address .. a.address + a.length - 1
Routed(a) == a.address < MemorySize \/ a.address \in DoneOffset .. DoneOffset + DoneSize - 1

(* get_direct_mem_ptr of systemc_cpu_target.                               *)
get_direct_mem_ptr(a) == a.address < MemorySize

(* A store to the done register reaches handle_done_register; reads of it  *)
(* get a command error.                                                    *)
DoneRegisterAccess(a) ==
    /\ program = "native"
    /\ Routed(a) /\ IsDoneRegister(a)
    /\ IF a.is_write THEN mark_cpu_done /\ cpu_stored' = TRUE
                     ELSE UNCHANGED <<stateVars, cpu_stored>>
    /\ UNCHANGED <<program, renodeVars, beginVars, thread, targetVars, verified,
                   passed>>

(* Any other access over the I/O path.  Only byte writes are expected; the *)
(* answer carries the DMI hint, on which Renode asks for the pointer.      *)
MemoryAccess(a) ==
    /\ program = "native"
    /\ Routed(a) /\ ~IsDoneRegister(a)
    /\ IF InMemory(a)
       THEN /\ unexpected_io_access' =
                 (unexpected_io_access \/ ~(a.is_write /\ a.length = 1))
            /\ written' = IF a.is_write THEN written \cup Bytes(a) ELSE written
            /\ mapped' = (mapped \/ get_direct_mem_ptr(a))
       ELSE UNCHANGED targetVars
    /\ UNCHANGED <<program, renodeVars, beginVars, thread, stateVars, verified, cpu_stored, passed>>

(* Once mapped, the CPU stores without calling SystemC.                    *)
CpuDmiStore(a) ==
    /\ program = "native" /\ mapped
    /\ a.is_write /\ InMemory(a)
    /\ written' = written \cup Bytes(a)
    /\ UNCHANGED <<program, renodeVars, beginVars, thread, stateVars, mapped,
                   unexpected_io_access, verified, cpu_stored, passed>>
-----------------------------------------------------------------------------
SequenceStep ==
    \/ Begin \/ WriteWord \/ Acquire \/ DmiRead \/ DmiWrite \/ Invalidate \/ ReadBack

TargetStep == \E a \in Accesses : DoneRegisterAccess(a) \/ MemoryAccess(a) \/ CpuDmiStore(a)

Next ==
    \/ \E w \in Word : Translate(w) \/ RenodeStore(w)
    \/ \E value \in BOOLEAN : gpio_port_write(value)
    \/ UpdatePhase
    \/ SequenceStep
    \/ TargetStep

Spec == Init /\ [][Next]_vars

(* The thread runs on once it is awake.  Nothing forces Renode to begin a  *)
(* test, or its CPU to store.                                              *)
FairSpec == Spec /\ WF_vars(SequenceStep)
-----------------------------------------------------------------------------
(* Every variable has its type; the target's stores stay in its memory.    *)
TypeOK ==
    /\ program \in {"dmi", "native"}
    /\ backed \subseteq Word
    /\ memory \in [Word -> Content] /\ code \in [Word -> Content \cup {NotTranslated}]
    /\ test_begin \in BOOLEAN /\ test_begin_next \in BOOLEAN
    /\ thread \in Steps
    /\ memory_done \in BOOLEAN /\ cpu_done \in BOOLEAN /\ test_done \in BOOLEAN
    /\ mapped \in BOOLEAN /\ written \subseteq 0 .. MemorySize - 1
    /\ unexpected_io_access \in BOOLEAN
    /\ verified \subseteq Word /\ cpu_stored \in BOOLEAN /\ passed \in BOOLEAN

(* What test_done tells Renode.  In native the line is up exactly when     *)
(* both words have matched and the CPU has stored since the latest test    *)
(* began, in either order and however often the test is repeated: nothing  *)
(* of an earlier test counts.  The thread of dmi never lowers its line: it *)
(* is up exactly when some test so far has found both words in one go, and *)
(* from then on says nothing of a test that is running or has failed.      *)
DoneIsEarned ==
    IF program = "native"
    THEN test_done <=> verified = Word /\ cpu_stored
    ELSE test_done <=> passed

(* dmi_test.cpp:108-110: "we need to invalidate translation blocks in      *)
(* Renode to avoid unexpected behavior".  Only between the memcpy and the  *)
(* invalidation can a CPU run a stale translation, and only of that word.  *)
CodeIsFresh ==
    \A w \in Word :
        \/ code[w] \in {NotTranslated, memory[w]}
        \/ w = "second" /\ thread = "invalidate"

(* A test that begins ends: the thread gives up on a failure, or both      *)
(* words have matched and it has reported so (in native to test_state,     *)
(* which also waits for the CPU).                                          *)
TestReports ==
    thread = "begin" ~>
        \/ thread = "returned"
        \/ verified = Word /\ (IF program = "native" THEN memory_done ELSE test_done)
=============================================================================
