--------------------------- MODULE BusTargetsProofs --------------------------
(***************************************************************************)
(* Theorems about module BusTargets, for every limit of the counter and    *)
(* every set of data the masters write.                                    *)
(***************************************************************************)
EXTENDS BusTargets, Integers, TLAPS

InCall(m) == stage[m] \in {"calling", "returned"}

(* An access is one its example knows, and goes its example's way.         *)
AccessInv ==
    \A m \in Master :
        /\ stage[m] # "idle" => access[m].op \in Ops
        /\ program = "native" => access[m].port = "p0"
        /\ InCall(m) => program \in Peers /\ access[m].op \in {"read", "copy"}
        /\ stage[m] = "queued" => program = "native"
        /\ core[m] # "halted" => program = "multi_core"

(* A peripheral has one call under way, and while it copies its value out  *)
(* nobody changes the value.                                               *)
CallInv ==
    /\ \A m, n \in Master :
          m # n /\ InCall(m) /\ InCall(n) => access[m].port # access[n].port
    /\ \A m \in Master :
          stage[m] = "calling" /\ access[m].op = "copy" =>
              payload[access[m].port] = cell[access[m].port]

(* A core that has seen its turn still finds the counter as it loaded it   *)
(* when it stores: the other core waits until the parity changes.          *)
CoreAt(m) ==
    /\ core[m] \in {"halted", "done"} => stage[m] = "idle"
    /\ core[m] = "halted" => increments[m] = 0
    /\ core[m] = "load" /\ stage[m] # "idle" => access[m].op \in {"read", "outside"}
    /\ core[m] = "store" => result[m] < Limit /\ MyTurn(m, result[m])
    /\ core[m] = "store" /\ stage[m] # "idle" =>
          access[m].op = "write" /\ access[m].data = result[m] + 1
    /\ core[m] = "store" /\ stage[m] # "answered" => cell["ram"] = result[m]
    /\ /\ core[m] = "load" /\ stage[m] = "answered" /\ access[m].op = "read"
       /\ result[m] < Limit /\ MyTurn(m, result[m])
       => cell["ram"] = result[m]

CoreInv == program = "multi_core" => \A m \in Master : CoreAt(m)

Inv == TypeOK /\ AccessInv /\ CallInv /\ CoreInv /\ CoresTakeTurns
-----------------------------------------------------------------------------
(* The counter is even for one core and odd for the other.                 *)
LEMMA OneTurn ==
    ASSUME NEW m \in Master, NEW n \in Master, m # n, NEW x \in Nat,
           MyTurn(m, x)
    PROVE  ~MyTurn(n, x)
BY DEF Master, MyTurn, Parity

(* One more value of the counter is one more turn of the core it belongs   *)
(* to.                                                                     *)
LEMMA TurnsStep ==
    ASSUME NEW m \in Master, NEW a \in Nat, NEW b \in Nat
    PROVE  Turns(m, a, b + 1) = Turns(m, a, b) + (IF MyTurn(m, b) THEN 1 ELSE 0)
<1>1. CASE m = "m55"
    BY <1>1 DEF Turns, MyTurn, Parity
<1>2. CASE m = "m0"
    BY <1>2 DEF Turns, MyTurn, Parity
<1>3. QED
    BY <1>1, <1>2 DEF Master

LEMMA TurnsBounded ==
    ASSUME NEW m \in Master, NEW a \in Value, NEW b \in Value
    PROVE  Turns(m, a, a) = 0 /\ Turns(m, a, b) \in Int /\ Turns(m, a, b) <= Limit
<1>1. CASE m = "m55"
    BY <1>1, BusAssumption DEF Turns, Parity, Value
<1>2. CASE m = "m0"
    BY <1>2, BusAssumption DEF Turns, Parity, Value
<1>3. QED
    BY <1>1, <1>2 DEF Master

LEMMA InitInv == Init => Inv
<1> SUFFICES ASSUME Init PROVE Inv
    OBVIOUS
<1>1. TypeOK
    <2>1. {0} \cup Data \subseteq Value
        BY BusAssumption DEF Value
    <2>2. cell \in [Cell -> Value]
        BY <2>1 DEF Init
    <2>3. NoAccess \in Access
        BY <2>1 DEF Access, NoAccess, Op, Port, Cell
    <2>4. QED
        BY <2>1, <2>2, <2>3 DEF Init, TypeOK
<1>2. AccessInv /\ CallInv /\ CoreInv
    BY DEF Init, AccessInv, CallInv, CoreInv, CoreAt, InCall, NoAccess
<1>3. CoresTakeTurns
    <2> SUFFICES ASSUME program = "multi_core", NEW m \in Master
                 PROVE  Incremented(m) = Turns(m, base, cell["ram"])
        BY DEF CoresTakeTurns
    <2>1. cell["ram"] = 0 /\ base = 0
        BY DEF Init, Cell, Peers
    <2>2. Incremented(m) = 0
        BY DEF Init, Incremented
    <2>3. QED
        BY <1>1, <2>1, <2>2, TurnsBounded DEF TypeOK
<1>4. QED
    BY <1>1, <1>2, <1>3 DEF Inv
-----------------------------------------------------------------------------
(* A step of a program without cores.                                      *)
LEMMA NoCores ==
    ASSUME program' = program, program # "multi_core"
    PROVE  CoreInv' /\ CoresTakeTurns'
BY DEF CoreInv, CoresTakeTurns

LEMMA SendInv ==
    ASSUME Inv, NEW m \in Master, NEW a \in Access, Send(m, a)
    PROVE  Inv'
<1> USE DEF Inv, Send
<1>1. TypeOK'
    BY DEF TypeOK, coreVars
<1>2. AccessInv'
    BY DEF TypeOK, AccessInv, InCall, Ops, coreVars
<1>3. CallInv'
    BY DEF TypeOK, CallInv, InCall
<1>4. QED
    BY <1>1, <1>2, <1>3, NoCores

(* The steps of the peripherals of direct and non_blocking.                *)
LEMMA PeerInv ==
    ASSUME Inv, NEW m \in Master,
           WriteValue(m) \/ ReadPeer(m) \/ PeerAnswers(m) \/ CopyOut(m) \/ RenodeWrites(m)
              \/ Return(m)
    PROVE  Inv'
<1> USE DEF Inv
<1>0. program \in Peers /\ program' = program /\ access' = access
    BY DEF AccessInv, InCall, WriteValue, ReadPeer, PeerAnswers, CopyOut, RenodeWrites,
           Return, TakesUp
<1>1. TypeOK'
    <2> USE DEF TypeOK, Access, coreVars
    <2>1. CASE WriteValue(m)
        BY <2>1 DEF WriteValue, TakesUp
    <2>2. CASE ReadPeer(m)
        BY <2>2, BusAssumption DEF ReadPeer, TakesUp, Value
    <2>3. CASE PeerAnswers(m)
        BY <2>3 DEF PeerAnswers, Other, Port, Cell
    <2>4. CASE CopyOut(m)
        BY <2>4 DEF CopyOut, TakesUp, Cell
    <2>5. CASE RenodeWrites(m)
        BY <2>5 DEF RenodeWrites
    <2>6. CASE Return(m)
        BY <2>6 DEF Return
    <2>7. QED
        BY <2>1, <2>2, <2>3, <2>4, <2>5, <2>6
<1>2. AccessInv'
    BY <1>0 DEF AccessInv, InCall, Ops, TypeOK, coreVars, WriteValue, ReadPeer, PeerAnswers, CopyOut,
                RenodeWrites, Return, TakesUp
<1>3. CallInv'
    <2> USE <1>0 DEF CallInv, InCall, TypeOK, Access
    <2>1. CASE WriteValue(m)
        BY <2>1 DEF WriteValue, TakesUp, Busy
    <2>2. CASE ReadPeer(m)
        BY <2>2 DEF ReadPeer, TakesUp, Busy
    <2>3. CASE PeerAnswers(m)
        BY <2>3 DEF PeerAnswers
    <2>4. CASE CopyOut(m)
        BY <2>4 DEF CopyOut, TakesUp, Busy
    <2>5. CASE RenodeWrites(m)
        BY <2>5 DEF RenodeWrites, Busy
    <2>6. CASE Return(m)
        BY <2>6 DEF Return
    <2>7. QED
        BY <2>1, <2>2, <2>3, <2>4, <2>5, <2>6
<1>4. QED
    BY <1>0, <1>1, <1>2, <1>3, NoCores DEF Peers

(* The steps of native.                                                    *)
LEMMA NativeInv ==
    ASSUME Inv, NEW m \in Master, b_transport(m) \/ nb_transport_fw(m) \/ peq_thread(m)
    PROVE  Inv'
<1> USE DEF Inv
<1>0. program = "native" /\ program' = program /\ access' = access
    BY DEF AccessInv, b_transport, nb_transport_fw, peq_thread, Served
<1>1. TypeOK'
    <2>1. ASSUME Served(m, "p0") PROVE TypeOK'
        BY <2>1 DEF Served, TypeOK, Access, Cell, Port, coreVars
    <2>2. ASSUME nb_transport_fw(m) PROVE TypeOK'
        BY <2>2 DEF nb_transport_fw, TypeOK, coreVars
    <2>3. QED
        BY <2>1, <2>2 DEF b_transport, peq_thread
<1>2. AccessInv' /\ CallInv'
    BY <1>0 DEF AccessInv, CallInv, InCall, Ops, Peers, TypeOK, coreVars, b_transport,
                nb_transport_fw, peq_thread, Served
<1>3. QED
    BY <1>0, <1>1, <1>2, NoCores

(* A program with cores makes no calls.                                    *)
LEMMA NoCalls ==
    ASSUME AccessInv', program' = "multi_core"
    PROVE  CallInv'
BY DEF AccessInv, CallInv, InCall, Peers

(* An access of a core that reaches the memory.                            *)
LEMMA MemoryInv ==
    ASSUME Inv, NEW m \in Master, Memory(m)
    PROVE  Inv'
<1> USE DEF Inv, Memory, Served, coreVars
<1>0. /\ cell["ram"] \in Nat /\ \A n \in Master : result[n] \in Nat /\ base \in Nat
      /\ "ram" \in Cell
    BY DEF TypeOK, Value, Cell
<1>1. TypeOK'
    BY DEF TypeOK, Access, Cell
<1>2. AccessInv'
    BY DEF AccessInv, InCall, Ops, TypeOK
<1>3. CallInv'
    BY <1>2, NoCalls
<1>4. /\ CoreAt(m) /\ core[m] \in {"load", "store"}
      /\ core[m] = "load" => cell' = cell /\ access[m].op \in {"read", "outside"}
    BY DEF CoreInv, CoreAt, TypeOK
<1>5. CASE core[m] = "load"
    <2>1. cell' = cell /\ access[m].op \in {"read", "outside"}
        BY <1>4, <1>5
    <2>2. ASSUME NEW n \in Master PROVE CoreAt(n)'
        BY <1>0, <1>5, <2>1 DEF CoreInv, CoreAt, TypeOK, MyTurn
    <2>3. \A n \in Master : Incremented(n)' = Incremented(n)
        BY <1>5 DEF Incremented, TypeOK
    <2>4. CoresTakeTurns'
        BY <2>1, <2>3 DEF CoresTakeTurns, Turns
    <2>5. QED
        BY <1>1, <1>2, <1>3, <2>2, <2>4 DEF CoreInv
<1>6. CASE core[m] = "store"
    <2>1. /\ cell'["ram"] = cell["ram"] + 1 /\ access[m].op = "write"
          /\ cell["ram"] = result[m] /\ MyTurn(m, cell["ram"]) /\ result' = result
        BY <1>0, <1>4, <1>6 DEF CoreAt, TypeOK
    <2>2. CoreAt(m)'
        BY <1>6, <2>1 DEF CoreInv, CoreAt, TypeOK, MyTurn
    <2>3. ASSUME NEW n \in Master, n # m PROVE CoreAt(n)'
        <3>1. ~MyTurn(n, cell["ram"])
            BY <1>0, <2>1, <2>3, OneTurn
        <3>2. stage'[n] = stage[n] /\ core' = core /\ access' = access
            BY <2>3 DEF TypeOK
        <3>3. QED
            BY <2>1, <3>1, <3>2 DEF CoreInv, CoreAt, MyTurn
    <2>4. CoresTakeTurns'
        <3> SUFFICES ASSUME NEW n \in Master
                     PROVE  Incremented(n)' = Turns(n, base, cell["ram"] + 1)
            BY <2>1 DEF CoresTakeTurns, Turns
        <3>1. Turns(n, base, cell["ram"] + 1) =
                  Incremented(n) + (IF MyTurn(n, cell["ram"]) THEN 1 ELSE 0)
            BY <1>0, TurnsStep DEF CoresTakeTurns
        <3>2. MyTurn(n, cell["ram"]) <=> n = m
            BY <1>0, <2>1, OneTurn
        <3>3. Incremented(n)' = Incremented(n) + (IF n = m THEN 1 ELSE 0)
            BY <1>6 DEF Incremented, TypeOK, Value
        <3>4. QED
            BY <3>1, <3>2, <3>3
    <2>5. QED
        BY <1>1, <1>2, <1>3, <2>2, <2>3, <2>4 DEF CoreInv
<1>7. QED
    BY <1>4, <1>5, <1>6

(* The Monitor and the cores' own steps.                                   *)
LEMMA DebugInv ==
    ASSUME Inv, NEW v \in Data, transport_dbg(v)
    PROVE  Inv'
<1> USE DEF Inv, transport_dbg
<1>0. v \in Value /\ "ram" \in Cell
    BY BusAssumption DEF Value, Cell
<1>1. TypeOK'
    BY <1>0 DEF TypeOK
<1>2. AccessInv'
    BY DEF AccessInv, InCall, Ops
<1>3. CoreInv'
    BY DEF CoreInv, CoreAt, MyTurn
<1>4. CoresTakeTurns'
    <2> SUFFICES ASSUME NEW n \in Master
                 PROVE  Incremented(n)' = Turns(n, v, v)
        BY <1>0 DEF CoresTakeTurns, Turns, TypeOK
    <2>1. increments[n] = 0 /\ core[n] = "halted"
        BY DEF CoreInv, CoreAt
    <2>2. Incremented(n)' = 0
        BY <2>1 DEF Incremented
    <2>3. QED
        BY <1>0, <2>1, <2>2, TurnsBounded
<1>5. QED
    BY <1>1, <1>2, <1>3, <1>4, NoCalls

LEMMA StartInv ==
    ASSUME Inv, NEW m \in Master, StartCore(m)
    PROVE  Inv'
<1> USE DEF Inv, StartCore
<1>1. TypeOK'
    BY DEF TypeOK
<1>2. AccessInv'
    BY DEF AccessInv, InCall, Ops
<1>3. CoreInv'
    BY DEF CoreInv, CoreAt, MyTurn, TypeOK
<1>4. CoresTakeTurns'
    BY DEF CoresTakeTurns, Incremented, Turns, TypeOK
<1>5. QED
    BY <1>1, <1>2, <1>3, <1>4, NoCalls

LEMMA CoreSendsInv ==
    ASSUME Inv, NEW m \in Master, CoreSends(m) \/ CoreSendsOutside(m)
    PROVE  Inv'
<1> USE DEF Inv, CoreSends, CoreSendsOutside, coreVars
<1>0. /\ program' = program /\ cell' = cell /\ result' = result /\ UNCHANGED coreVars
      /\ payload' = payload /\ stage[m] = "idle" /\ core[m] \in {"load", "store"}
      /\ stage' = [stage EXCEPT ![m] = "sent"]
    OBVIOUS
<1>1. PICK a : /\ access' = [access EXCEPT ![m] = a]
               /\ core[m] = "load" => a.op \in {"read", "outside"} /\ a.data = 0
               /\ core[m] = "store" => a.op = "write" /\ a.data = result[m] + 1
               /\ a.port = "p0" /\ a.to = "ram"
               /\ a = [op |-> a.op, port |-> a.port, to |-> a.to, data |-> a.data]
    <2> DEFINE A(o, d) == [op |-> o, port |-> "p0", to |-> "ram", data |-> d]
    <2>1. \/ core[m] = "load" /\ access' = [access EXCEPT ![m] = A("read", 0)]
          \/ core[m] = "load" /\ access' = [access EXCEPT ![m] = A("outside", 0)]
          \/ core[m] = "store" /\ access' = [access EXCEPT ![m] = A("write", result[m] + 1)]
        BY <1>0 DEF NoAccess
    <2>2. QED
        BY <2>1
<1>2. program = "multi_core" => a \in Access
    BY <1>0, <1>1, BusAssumption DEF CoreInv, CoreAt, Access, Op, Port, Cell, TypeOK, Value
<1>3. program = "multi_core"
    BY <1>0 DEF AccessInv
<1>4. TypeOK'
    BY <1>0, <1>1, <1>2, <1>3 DEF TypeOK
<1>5. AccessInv'
    BY <1>0, <1>1, <1>3 DEF AccessInv, InCall, Ops, TypeOK
<1>6. CoreInv'
    BY <1>0, <1>1 DEF CoreInv, CoreAt, MyTurn, TypeOK
<1>7. CoresTakeTurns'
    BY <1>0 DEF CoresTakeTurns, Incremented, Turns, TypeOK
<1>8. QED
    BY <1>0, <1>3, <1>4, <1>5, <1>6, <1>7, NoCalls

LEMMA ReceiveInv ==
    ASSUME Inv, NEW m \in Master, Receive(m)
    PROVE  Inv'
<1> USE DEF Inv, Receive
<1>0. NoAccess \in Access
    BY BusAssumption DEF NoAccess, Access, Op, Port, Cell, Value
<1>1. AccessInv'
    BY DEF AccessInv, InCall, Ops, TypeOK, NoAccess
<1>2. CASE program # "multi_core"
    <2>1. TypeOK'
        BY <1>0, <1>2 DEF TypeOK
    <2>2. CallInv'
        BY DEF CallInv, InCall, TypeOK
    <2>3. QED
        BY <1>1, <1>2, <2>1, <2>2, NoCores
<1>3. CASE program = "multi_core"
    <2>1. /\ core' = [core EXCEPT ![m] = CoreAfter(m)]
          /\ increments' = IF core[m] = "store" THEN [increments EXCEPT ![m] = @ + 1]
                                                 ELSE increments
          /\ stage' = [stage EXCEPT ![m] = "idle"]
          /\ UNCHANGED <<program, cell, payload, result, base>>
        BY <1>3
    <2>2. CoreAfter(m) \in {"load", "store", "done"}
        BY DEF CoreAfter
    <2>3. increments[m] \in Nat /\ Incremented(m) <= Limit
        BY <1>3, TurnsBounded DEF TypeOK, CoresTakeTurns, Value, Cell
    <2>4. core[m] = "store" => increments[m] + 1 \in Value
        BY <2>3, BusAssumption DEF Incremented, Value
    <2>5. TypeOK'
        BY <1>0, <2>1, <2>2, <2>4 DEF TypeOK
    <2>6. CoreAfter(m) = "store" =>
              /\ core[m] = "load" /\ access[m].op = "read"
              /\ result[m] < Limit /\ MyTurn(m, result[m])
        BY <1>3, BusAssumption DEF CoreInv, CoreAt, CoreAfter, Finished, TypeOK, Value
    <2>7. CoreInv'
        BY <1>3, <2>1, <2>2, <2>6 DEF CoreInv, CoreAt, MyTurn, TypeOK
    <2>8. \A n \in Master : Incremented(n)' = Incremented(n)
        BY <2>1, <2>3 DEF Incremented, TypeOK
    <2>9. CoresTakeTurns'
        BY <1>3, <2>1, <2>8 DEF CoresTakeTurns, Turns
    <2>10. QED
        BY <1>1, <1>3, <2>1, <2>5, <2>7, <2>9, NoCalls
<1>4. QED
    BY <1>2, <1>3

LEMMA NextInv == Inv /\ [Next]_vars => Inv'
<1> SUFFICES ASSUME Inv, [Next]_vars PROVE Inv'
    OBVIOUS
<1>1. ASSUME NEW m \in Master, NEW op \in Op, NEW p \in Port, NEW c \in Cell,
             NEW v \in {0} \cup Data, Send(m, [op |-> op, port |-> p, to |-> c, data |-> v])
      PROVE  Inv'
    <2>1. [op |-> op, port |-> p, to |-> c, data |-> v] \in Access
        BY BusAssumption DEF Access, Value
    <2>2. QED
        BY <1>1, <2>1, SendInv
<1>2. ASSUME NEW m \in Master, Handler(m) PROVE Inv'
    BY <1>2, PeerInv, NativeInv, MemoryInv DEF Handler
<1>3. ASSUME NEW m \in Master,
             StartCore(m) \/ CoreSends(m) \/ CoreSendsOutside(m) \/ Receive(m)
      PROVE  Inv'
    BY <1>3, StartInv, CoreSendsInv, ReceiveInv
<1>4. ASSUME NEW v \in Data, transport_dbg(v) PROVE Inv'
    BY <1>4, DebugInv
<1>5. CASE UNCHANGED vars
    BY <1>5 DEF vars, coreVars, Inv, TypeOK, AccessInv, CallInv, CoreInv, CoreAt, InCall,
                CoresTakeTurns, Incremented, Turns, MyTurn, Ops
<1>6. QED
    BY <1>1, <1>2, <1>3, <1>4, <1>5 DEF Next

(* The inductive invariant holds in every state.                           *)
THEOREM TargetsInvariant == Spec => []Inv
BY InitInv, NextInv, PTL DEF Spec

(* Every variable keeps its type; no core counts past the limit.           *)
THEOREM TypeCorrect == Spec => []TypeOK
<1>1. Inv => TypeOK
    BY DEF Inv
<1>2. QED
    BY TargetsInvariant, <1>1, PTL

(* However the loads and stores of the two cores interleave, no increment  *)
(* of the shared counter is lost and each core makes its own.              *)
THEOREM TurnsCorrect == Spec => []CoresTakeTurns
<1>1. Inv => CoresTakeTurns
    BY DEF Inv
<1>2. QED
    BY TargetsInvariant, <1>1, PTL
-----------------------------------------------------------------------------
(* The counter only grows, so a core that has seen the limit saw the end.  *)
ResultInv ==
    program = "multi_core" =>
        \A m \in Master :
            /\ result[m] <= cell["ram"]
            /\ core[m] = "halted" => result[m] = 0
            /\ core[m] = "done" => result[m] = Limit

LEMMA ResultStep == Inv /\ ResultInv /\ [Next]_vars => ResultInv'
<1> SUFFICES ASSUME Inv, ResultInv, [Next]_vars, program' = "multi_core"
             PROVE  ResultInv'
    BY DEF ResultInv
<1>1. /\ program = "multi_core" /\ "ram" \in Cell
      /\ cell \in [Cell -> Value] /\ result \in [Master -> Value]
      /\ core \in [Master -> {"halted", "load", "store", "done"}]
    <2>1. ASSUME NEW m \in Master, NEW a, Send(m, a) PROVE program' = program
        BY <2>1 DEF Send
    <2>2. ASSUME NEW m \in Master, Handler(m) PROVE program' = program
        BY <2>2 DEF Handler, WriteValue, ReadPeer, PeerAnswers, CopyOut, RenodeWrites, Return,
                    b_transport, nb_transport_fw, peq_thread, Memory, Served
    <2>3. ASSUME NEW m \in Master,
                 StartCore(m) \/ CoreSends(m) \/ CoreSendsOutside(m) \/ Receive(m)
          PROVE  program' = program
        BY <2>3 DEF StartCore, CoreSends, CoreSendsOutside, Receive
    <2>4. ASSUME NEW v \in Data, transport_dbg(v) PROVE program' = program
        BY <2>4 DEF transport_dbg
    <2>5. UNCHANGED vars => program' = program
        BY DEF vars
    <2>6. program' = program
        BY <2>1, <2>2, <2>3, <2>4, <2>5 DEF Next
    <2>7. QED
        BY <2>6 DEF Inv, TypeOK, Cell
<1>2. cell["ram"] \in Nat /\ Limit \in Nat /\ \A m \in Master : result[m] \in 0 .. Limit
    BY <1>1, BusAssumption DEF Value
<1>3. \A m \in Master : CoreAt(m) /\ ~InCall(m) /\ stage[m] # "queued"
    BY <1>1 DEF Inv, CoreInv, AccessInv, Peers
<1>4. ASSUME NEW m \in Master, Memory(m) PROVE ResultInv'
    <2>1. core' = core /\ core[m] \in {"load", "store"}
        BY <1>1, <1>3, <1>4 DEF Memory, Served, coreVars, CoreAt
    <2>2. CASE core[m] = "load"
        <3>1. access[m].op \in {"read", "outside"}
            BY <1>3, <1>4, <2>2 DEF Memory, CoreAt
        <3>2. cell' = cell /\ result' \in {result, [result EXCEPT ![m] = cell["ram"]]}
            BY <1>4, <3>1 DEF Memory, Served
        <3>3. QED
            BY <1>1, <1>2, <2>1, <2>2, <3>2 DEF ResultInv
    <2>3. CASE core[m] = "store"
        <3>1. access[m].op = "write" /\ access[m].data = cell["ram"] + 1
            BY <1>3, <1>4, <2>3 DEF Memory, CoreAt
        <3>2. cell'["ram"] = cell["ram"] + 1 /\ result' = result
            BY <1>1, <1>4, <3>1 DEF Memory, Served
        <3>3. QED
            BY <1>1, <1>2, <2>1, <3>2 DEF ResultInv
    <2>4. QED
        BY <2>1, <2>2, <2>3
<1>5. ASSUME NEW m \in Master, Receive(m) PROVE ResultInv'
    <2>1. core' = [core EXCEPT ![m] = CoreAfter(m)] /\ cell' = cell /\ result' = result
        BY <1>1, <1>5 DEF Receive
    <2>2. CoreAfter(m) # "halted" /\ (CoreAfter(m) = "done" => Finished(result[m]))
        BY DEF CoreAfter
    <2>3. CoreAfter(m) = "done" => result[m] = Limit
        BY <1>2, <2>2 DEF Finished
    <2>4. QED
        BY <1>1, <2>1, <2>2, <2>3 DEF ResultInv
<1>6. ASSUME NEW v \in Data, transport_dbg(v) PROVE ResultInv'
    <2>1. v \in Nat
        BY BusAssumption
    <2>2. cell'["ram"] = v /\ core' = core /\ result' = result
        BY <1>1, <1>6 DEF transport_dbg
    <2>3. \A m \in Master : core[m] = "halted" /\ result[m] = 0
        BY <1>1, <1>6 DEF transport_dbg, ResultInv
    <2>4. QED
        BY <2>1, <2>2, <2>3 DEF ResultInv
<1>7. ASSUME NEW m \in Master, StartCore(m) PROVE ResultInv'
    BY <1>1, <1>7 DEF StartCore, ResultInv
<1>8. ASSUME NEW m \in Master, CoreSends(m) \/ CoreSendsOutside(m) PROVE ResultInv'
    BY <1>1, <1>8 DEF CoreSends, CoreSendsOutside, coreVars, ResultInv
<1>9. CASE UNCHANGED vars
    BY <1>1, <1>9 DEF vars, coreVars, ResultInv
<1>10. ASSUME NEW m \in Master, Handler(m) PROVE Memory(m)
    BY <1>1, <1>3, <1>10 DEF Handler, WriteValue, ReadPeer, PeerAnswers, CopyOut, RenodeWrites,
        Return, b_transport, nb_transport_fw, peq_thread, TakesUp, InCall, Peers
<1>11. ASSUME NEW m \in Master, NEW a, Send(m, a) PROVE FALSE
    BY <1>1, <1>11 DEF Send
<1>12. QED
    BY <1>4, <1>5, <1>6, <1>7, <1>8, <1>9, <1>10, <1>11 DEF Next

(* multi-core-read-write.robot:137 "m55 did not do exactly half of the     *)
(* increments": once both cores are done with a counter that started at 0, *)
(* each of them has made half of the increments, for every even limit.     *)
HalfEach ==
    /\ program = "multi_core" /\ base = 0 /\ Limit % 2 = 0
    /\ \A m \in Master : core[m] = "done"
    => \A m \in Master : increments[m] = Limit \div 2

(* The check the robot test makes at the end of the ping-pong program.     *)
THEOREM ExactlyHalf == Spec => []HalfEach
<1>1. Init => ResultInv
    BY DEF Init, ResultInv, Cell, Peers
<1>2. Spec => []ResultInv
    BY <1>1, ResultStep, TargetsInvariant, PTL DEF Spec
<1>3. ASSUME Inv, ResultInv, program = "multi_core", base = 0, Limit % 2 = 0,
             \A m \in Master : core[m] = "done", NEW m \in Master
      PROVE  increments[m] = Limit \div 2
    <2>1. cell["ram"] \in 0 .. Limit /\ Limit \in Nat /\ increments[m] \in Nat
        BY <1>3, BusAssumption DEF Inv, TypeOK, Value, Cell
    <2>2. cell["ram"] = Limit
        BY <1>3, <2>1 DEF ResultInv
    <2>3. increments[m] = Turns(m, 0, Limit)
        BY <1>3, <2>1, <2>2 DEF Inv, CoresTakeTurns, Incremented
    <2>4. Turns(m, 0, Limit) = Limit \div 2
        BY <1>3, <2>1 DEF Turns, Parity, Master
    <2>5. QED
        BY <2>3, <2>4
<1>4. Inv /\ ResultInv => HalfEach
    BY <1>3 DEF HalfEach
<1>5. QED
    BY <1>2, <1>4, TargetsInvariant, PTL

(* A call that waits for a peripheral inside a call of its own waits for   *)
(* one that needs no peripheral (it has its answer, or Renode's memory     *)
(* gives it), unless its own peripheral is caught in a circular wait.      *)
OnlyCircularWaitsHang ==
    \A m \in Master :
        stage[m] = "calling" /\ Needs(m) \in Port /\ Busy(Needs(m)) =>
            \/ Stuck(access[m].port)
            \/ \E n \in Master :
                  /\ access[n].port = Needs(m)
                  /\ stage[n] = "returned" \/ (stage[n] = "calling" /\ Needs(n) = "ram")

(* Reads of the other peripheral and copies to any destination hang in     *)
(* circular waits only.                                                    *)
THEOREM CircularWaits == Spec => []OnlyCircularWaitsHang
<1>1. Inv => OnlyCircularWaitsHang
    <2> SUFFICES ASSUME Inv, NEW m \in Master, stage[m] = "calling", Needs(m) \in Port,
                        NEW n \in Master, access[n].port = Needs(m), stage[n] = "calling",
                        Needs(n) # "ram"
                 PROVE  Stuck(access[m].port)
        BY DEF OnlyCircularWaitsHang, Busy
    <2>1. access[m].port \in Port /\ Needs(n) \in Port
        BY DEF Inv, TypeOK, Access, Needs, Cell, Port, Other
    <2>2. CASE Needs(m) = access[m].port
        <3>1. {access[m].port} \in SUBSET Port
            BY <2>1
        <3>2. QED
            BY <2>2, <3>1 DEF Stuck
    <2>3. CASE Needs(m) # access[m].port
        <3>1. Port = {access[m].port, Needs(m)}
            BY <2>1, <2>3 DEF Port
        <3>2. \A q \in Port : \E k \in Master :
                  access[k].port = q /\ stage[k] = "calling" /\ Needs(k) \in Port
            BY <2>1, <3>1
        <3>3. QED
            BY <2>1, <3>2 DEF Stuck
    <2>4. QED
        BY <2>2, <2>3
<1>2. QED
    BY <1>1, TargetsInvariant, PTL
-----------------------------------------------------------------------------
(* What the abstract specification sees: its access, effected and result.  *)
AbsAccess ==
    [m \in Master |-> IF stage[m] = "idle" THEN Nothing ELSE Seen(program, access[m])]
AbsEffected == {m \in Master : stage[m] \in {"returned", "answered"}}
AbsResult ==
    [m \in Master |-> IF stage[m] = "returned" /\ access[m].op = "read"
                      THEN payload[access[m].port] ELSE result[m]]

LEMMA SeenType ==
    ASSUME NEW example, NEW a \in Access
    PROVE  Seen(example, a) \in Targets!Accesses /\ Seen(example, a) # Nothing
<1>1. Seen(example, a).kind \in {"read", "write", "copy", "none"}
    BY DEF Seen, Access, Op
<1>2. Seen(example, a) \in Targets!Accesses
    BY <1>1 DEF Seen, Access, Targets!Accesses, Targets!Kind, Op, Port, Cell, Other
<1>3. Nothing.kind = "nothing"
    BY DEF Nothing
<1>4. QED
    BY <1>1, <1>2, <1>3

LEMMA InitRefines == Init => Targets!TargetsInit
<1> SUFFICES ASSUME Init PROVE Targets!TargetsInit
    OBVIOUS
<1>1. TypeOK
    BY InitInv DEF Inv
<1>2. cell \in [Cell -> Value]
    BY <1>1 DEF TypeOK
<1>3. AbsAccess = [m \in Master |-> Nothing]
    BY DEF Init, AbsAccess
<1>4. AbsEffected = {}
    BY DEF Init, AbsEffected
<1>5. AbsResult \in [Master -> Value]
    BY <1>1 DEF TypeOK, Init, AbsResult
<1>6. QED
    BY <1>2, <1>3, <1>4, <1>5 DEF Targets!TargetsInit, AbsAccess, AbsEffected, AbsResult

(* The ways in which a step looks from outside.                            *)
LEMMA Stutter ==
    ASSUME cell' = cell, AbsAccess' = AbsAccess, AbsEffected' = AbsEffected,
           AbsResult' = AbsResult
    PROVE  UNCHANGED Targets!targetVars
BY DEF Targets!targetVars, AbsAccess, AbsEffected, AbsResult

LEMMA InvokeStep ==
    ASSUME TypeOK, NEW m \in Master, NEW a \in Access,
           stage[m] = "idle", stage' = [stage EXCEPT ![m] = "sent"],
           access' = [access EXCEPT ![m] = a],
           UNCHANGED <<program, cell, payload, result>>
    PROVE  Targets!TargetsNext
<1>1. PICK b \in Targets!Accesses : b = Seen(program, a)
    BY SeenType
<1>2. \A n \in Master : n # m => stage'[n] = stage[n] /\ access'[n] = access[n]
    BY DEF TypeOK
<1>3. stage'[m] = "sent" /\ access'[m] = a
    BY DEF TypeOK
<1>4. AbsAccess[m] = Nothing
    BY DEF AbsAccess
<1>5. AbsAccess' = [AbsAccess EXCEPT ![m] = b]
    <2>1. AbsAccess'[m] = b
        BY <1>1, <1>3 DEF AbsAccess
    <2>2. ASSUME NEW n \in Master, n # m PROVE AbsAccess'[n] = AbsAccess[n]
        BY <1>2, <2>2 DEF AbsAccess
    <2>3. AbsAccess' = [n \in Master |-> AbsAccess'[n]]
        BY DEF AbsAccess
    <2>4. AbsAccess = [n \in Master |-> AbsAccess[n]]
        BY DEF AbsAccess
    <2>5. QED
        BY <2>1, <2>2, <2>3, <2>4
<1>6. AbsEffected' = AbsEffected
    BY <1>2, <1>3 DEF AbsEffected
<1>7. AbsResult' = AbsResult
    BY <1>2, <1>3 DEF AbsResult
<1>8. Targets!Invoke(m, b)
    BY <1>4, <1>5, <1>6, <1>7 DEF Targets!Invoke, AbsAccess, AbsEffected, AbsResult
<1>9. QED
    BY <1>8 DEF Targets!TargetsNext

LEMMA EffectStep ==
    ASSUME TypeOK, NEW m \in Master, NEW s \in {"returned", "answered"}, NEW a,
           a = Seen(program, access[m]),
           stage[m] \in {"sent", "calling", "queued"}, stage' = [stage EXCEPT ![m] = s],
           program' = program, access' = access,
           AbsResult' = IF a.kind = "read" THEN [AbsResult EXCEPT ![m] = cell[a.from]]
                                           ELSE AbsResult,
           a.kind = "write" => cell' = [cell EXCEPT ![a.to] = a.data],
           a.kind = "copy" => cell' = [cell EXCEPT ![a.to] = cell[a.from]],
           a.kind \notin {"write", "copy"} => cell' = cell
    PROVE  Targets!TargetsNext
<1>1. \A n \in Master : n # m => stage'[n] = stage[n]
    BY DEF TypeOK
<1>2. stage'[m] = s
    BY DEF TypeOK
<1>3. AbsAccess[m] = a /\ a # Nothing
    BY SeenType DEF AbsAccess, TypeOK
<1>4. AbsAccess' = AbsAccess
    BY <1>1, <1>2 DEF AbsAccess, Nothing
<1>5. AbsEffected' = AbsEffected \cup {m} /\ m \notin AbsEffected
    BY <1>1, <1>2 DEF AbsEffected
<1>6. Targets!Effect(m)
    BY <1>3, <1>4, <1>5 DEF Targets!Effect, AbsAccess, AbsEffected, AbsResult
<1>7. QED
    BY <1>6 DEF Targets!TargetsNext

LEMMA RespondStep ==
    ASSUME TypeOK, NEW m \in Master, NEW a,
           stage[m] = "answered", stage' = [stage EXCEPT ![m] = "idle"],
           access' = [access EXCEPT ![m] = a],
           UNCHANGED <<program, cell, payload, result>>
    PROVE  Targets!TargetsNext
<1>1. \A n \in Master : n # m => stage'[n] = stage[n] /\ access'[n] = access[n]
    BY DEF TypeOK
<1>2. stage'[m] = "idle"
    BY DEF TypeOK
<1>3. AbsAccess' = [AbsAccess EXCEPT ![m] = Nothing]
    <2>1. AbsAccess'[m] = Nothing
        BY <1>2 DEF AbsAccess
    <2>2. ASSUME NEW n \in Master, n # m PROVE AbsAccess'[n] = AbsAccess[n]
        BY <1>1, <2>2 DEF AbsAccess
    <2>3. AbsAccess' = [n \in Master |-> AbsAccess'[n]]
        BY DEF AbsAccess
    <2>4. AbsAccess = [n \in Master |-> AbsAccess[n]]
        BY DEF AbsAccess
    <2>5. QED
        BY <2>1, <2>2, <2>3, <2>4
<1>4. AbsEffected' = AbsEffected \ {m} /\ m \in AbsEffected
    BY <1>1, <1>2 DEF AbsEffected
<1>5. AbsResult' = AbsResult
    BY <1>1, <1>2 DEF AbsResult
<1>6. Targets!Respond(m)
    BY <1>3, <1>4, <1>5 DEF Targets!Respond, AbsAccess, AbsEffected, AbsResult
<1>7. QED
    BY <1>6 DEF Targets!TargetsNext

(* A step of a handler that neither starts nor ends an access.             *)
LEMMA HandlerStutter ==
    ASSUME Inv, NEW m \in Master, ReadPeer(m) \/ CopyOut(m) \/ nb_transport_fw(m) \/ Return(m)
    PROVE  UNCHANGED Targets!targetVars
<1> USE DEF Inv
<1>0. PICK s \in {"calling", "queued", "answered"} :
          /\ stage' = [stage EXCEPT ![m] = s] /\ program' = program /\ access' = access
          /\ cell' = cell /\ stage[m] # "idle"
          /\ s = "answered" <=> stage[m] \in {"returned", "answered"}
    BY DEF ReadPeer, CopyOut, nb_transport_fw, Return, TakesUp
<1>1. stage'[m] = s /\ \A n \in Master : n # m => stage'[n] = stage[n]
    BY <1>0 DEF TypeOK
<1>2. \A n \in Master : stage'[n] = "idle" <=> stage[n] = "idle"
    BY <1>0, <1>1
<1>3. AbsAccess' = AbsAccess
    BY <1>0, <1>2 DEF AbsAccess
<1>4. AbsEffected' = AbsEffected
    BY <1>0, <1>1 DEF AbsEffected
<1>5. AbsResult' = AbsResult
    <2>1. ASSUME NEW n \in Master, n # m PROVE AbsResult'[n] = AbsResult[n]
        <3>1. stage[n] = "returned" =>
                  payload'[access[n].port] = payload[access[n].port]
            BY <2>1 DEF ReadPeer, CopyOut, nb_transport_fw, Return, TakesUp, Busy, TypeOK,
                        Access
        <3>2. result'[n] = result[n]
            BY <2>1 DEF ReadPeer, CopyOut, nb_transport_fw, Return, TypeOK
        <3>3. QED
            BY <1>0, <1>1, <2>1, <3>1, <3>2 DEF AbsResult
    <2>2. AbsResult'[m] = AbsResult[m]
        BY <1>0, <1>1 DEF AbsResult, ReadPeer, CopyOut, nb_transport_fw, Return, TakesUp, TypeOK
    <2>3. AbsResult' = [n \in Master |-> AbsResult'[n]]
        BY DEF AbsResult
    <2>4. AbsResult = [n \in Master |-> AbsResult[n]]
        BY DEF AbsResult
    <2>5. QED
        BY <2>1, <2>2, <2>3, <2>4
<1>6. QED
    BY <1>0, <1>3, <1>4, <1>5, Stutter

(* A step in which an access takes effect.                                 *)
LEMMA WriteValueEffect ==
    ASSUME Inv, NEW m \in Master, WriteValue(m)
    PROVE  Targets!TargetsNext
<1> USE DEF Inv, WriteValue, TakesUp
<1>1. PICK a : a = Seen(program, access[m])
    OBVIOUS
<1>2. a.kind = "write" /\ a.to = access[m].port /\ a.data = access[m].data
    BY <1>1 DEF Seen, Peers
<1>3. stage'[m] = "answered" /\ \A n \in Master : n # m => stage'[n] = stage[n]
    BY DEF TypeOK
<1>4. AbsResult' = AbsResult
    BY <1>3 DEF AbsResult
<1>5. QED
    BY <1>1, <1>2, <1>4, EffectStep

LEMMA PeerAnswersEffect ==
    ASSUME Inv, NEW m \in Master, PeerAnswers(m)
    PROVE  Targets!TargetsNext
<1> USE DEF Inv, PeerAnswers
<1>1. PICK a : a = Seen(program, access[m])
    OBVIOUS
<1>2. program \in Peers
    BY DEF AccessInv, InCall
<1>3. a.kind = "read" /\ a.from = Other(access[m].port)
    BY <1>1, <1>2 DEF Seen, Peers
<1>4. stage'[m] = "returned" /\ \A n \in Master : n # m => stage'[n] = stage[n]
    BY DEF TypeOK
<1>5. payload'[access[m].port] = cell[Other(access[m].port)]
    BY DEF TypeOK, Access
<1>6. \A n \in Master : n # m /\ stage[n] = "returned" =>
          payload'[access[n].port] = payload[access[n].port]
    BY DEF CallInv, InCall, TypeOK, Access
<1>7. AbsResult' = [AbsResult EXCEPT ![m] = cell[a.from]]
    BY <1>3, <1>4, <1>5, <1>6 DEF AbsResult
<1>8. QED
    BY <1>1, <1>3, <1>7, EffectStep

LEMMA RenodeWritesEffect ==
    ASSUME Inv, NEW m \in Master, RenodeWrites(m)
    PROVE  Targets!TargetsNext
<1> USE DEF Inv, RenodeWrites
<1>1. PICK a : a = Seen(program, access[m])
    OBVIOUS
<1>2. program \in Peers
    BY DEF AccessInv, InCall
<1>3. a.kind = "copy" /\ a.from = access[m].port /\ a.to = access[m].to
    BY <1>1, <1>2 DEF Seen, Peers
<1>4. payload[access[m].port] = cell[access[m].port]
    BY DEF CallInv
<1>5. stage'[m] = "returned" /\ \A n \in Master : n # m => stage'[n] = stage[n]
    BY DEF TypeOK
<1>6. AbsResult' = AbsResult
    BY <1>5 DEF AbsResult
<1>7. QED
    BY <1>1, <1>3, <1>4, <1>6, EffectStep

LEMMA ServedEffect ==
    ASSUME Inv, NEW m \in Master, b_transport(m) \/ peq_thread(m) \/ Memory(m)
    PROVE  Targets!TargetsNext
<1> USE DEF Inv
<1>1. PICK a : a = Seen(program, access[m])
    OBVIOUS
<1>2. /\ stage[m] \in {"sent", "queued"} /\ program \in {"native", "multi_core"}
      /\ Served(m, IF program = "native" THEN "p0" ELSE "ram")
    BY DEF b_transport, peq_thread, Memory, AccessInv
<1>3. PICK c : Served(m, c) /\ c = IF program = "native" THEN "p0" ELSE "ram"
    BY <1>2
<1>4. access[m].op \in {"read", "write", "outside"}
    BY <1>2 DEF AccessInv, Ops
<1>5. a.from = c /\ a.to = c /\ a.data = access[m].data
      /\ a.kind = IF access[m].op = "outside" THEN "none" ELSE access[m].op
    BY <1>1, <1>2, <1>3, <1>4 DEF Seen, Peers, AccessInv
<1>6. stage'[m] = "answered" /\ \A n \in Master : n # m => stage'[n] = stage[n]
    BY <1>3 DEF Served, TypeOK
<1>7. AbsResult' = IF a.kind = "read" THEN [AbsResult EXCEPT ![m] = cell[a.from]]
                                      ELSE AbsResult
    BY <1>2, <1>3, <1>4, <1>5, <1>6 DEF AbsResult, Served, TypeOK
<1>8. QED
    BY <1>1, <1>2, <1>3, <1>4, <1>5, <1>7, EffectStep DEF Served

LEMMA DebugPreloads ==
    ASSUME Inv, NEW v \in Data, transport_dbg(v)
    PROVE  Targets!TargetsNext
<1> USE DEF Inv, transport_dbg
<1>1. v \in Value /\ "ram" \in Cell
    BY BusAssumption DEF Value, Cell
<1>2. \A m \in Master : AbsAccess[m] = Nothing
    BY DEF CoreInv, CoreAt, AbsAccess
<1>3. AbsAccess' = AbsAccess /\ AbsEffected' = AbsEffected /\ AbsResult' = AbsResult
    BY DEF AbsAccess, AbsEffected, AbsResult
<1>4. Targets!Preload("ram", v)
    BY <1>2, <1>3 DEF Targets!Preload, AbsAccess, AbsEffected, AbsResult
<1>5. QED
    BY <1>1, <1>4 DEF Targets!TargetsNext

LEMMA NextRefines == Inv /\ [Next]_vars => [Targets!TargetsNext]_(Targets!targetVars)
<1> SUFFICES ASSUME Inv, [Next]_vars
             PROVE  Targets!TargetsNext \/ UNCHANGED Targets!targetVars
    OBVIOUS
<1>0. TypeOK
    BY DEF Inv
<1>1. ASSUME NEW m \in Master, NEW op \in Op, NEW p \in Port, NEW c \in Cell,
             NEW v \in {0} \cup Data, Send(m, [op |-> op, port |-> p, to |-> c, data |-> v])
      PROVE  Targets!TargetsNext
    <2>1. [op |-> op, port |-> p, to |-> c, data |-> v] \in Access
        BY BusAssumption DEF Access, Value
    <2>2. QED
        BY <1>0, <1>1, <2>1, InvokeStep DEF Send
<1>2. ASSUME NEW m \in Master, Handler(m)
      PROVE  Targets!TargetsNext \/ UNCHANGED Targets!targetVars
    BY <1>2, HandlerStutter, WriteValueEffect, PeerAnswersEffect, RenodeWritesEffect,
       ServedEffect DEF Handler
<1>3. ASSUME NEW m \in Master, StartCore(m) PROVE UNCHANGED Targets!targetVars
    BY <1>3, Stutter DEF StartCore, AbsAccess, AbsEffected, AbsResult
<1>4. ASSUME NEW m \in Master, CoreSends(m) \/ CoreSendsOutside(m)
      PROVE  Targets!TargetsNext
    <2>1. program = "multi_core" /\ 0 \in Value
        BY <1>4, BusAssumption DEF CoreSends, CoreSendsOutside, Inv, AccessInv, Value
    <2>2. core[m] = "store" => result[m] + 1 \in Value
        BY <1>0, <2>1, BusAssumption DEF Inv, CoreInv, CoreAt, TypeOK, Value
    <2>3. PICK a \in Access : access' = [access EXCEPT ![m] = a]
        BY <1>4, <2>1, <2>2 DEF CoreSends, CoreSendsOutside, NoAccess, Access, Op, Port, Cell
    <2>4. QED
        BY <1>0, <1>4, <2>3, InvokeStep DEF CoreSends, CoreSendsOutside
<1>5. ASSUME NEW m \in Master, Receive(m) PROVE Targets!TargetsNext
    BY <1>0, <1>5, RespondStep DEF Receive
<1>6. ASSUME NEW v \in Data, transport_dbg(v) PROVE Targets!TargetsNext
    BY <1>6, DebugPreloads
<1>7. CASE UNCHANGED vars
    BY <1>7, Stutter DEF vars, AbsAccess, AbsEffected, AbsResult
<1>8. QED
    BY <1>1, <1>2, <1>3, <1>4, <1>5, <1>6, <1>7 DEF Next

(* Behind the calls between processes, the queue and the phases, every     *)
(* access to the four targets is one atomic step.                          *)
THEOREM Refinement == Spec => ImplementsTargets
BY InitRefines, NextRefines, TargetsInvariant, PTL
   DEF Spec, ImplementsTargets, Targets!TargetsSpec
=============================================================================
