---------------------------- MODULE AtomicTargets ----------------------------
(***************************************************************************)
(* What a bus master may assume of the targets of module BusTargets: an    *)
(* access takes effect in one step, some time between the request and the  *)
(* answer, whatever calls, queues and phases lie behind the target.        *)
(***************************************************************************)
CONSTANTS Master, Cell, Value,
          NoAccess  \* a master without an access in progress

VARIABLES cell,     \* content of the registers and memory words
          access,   \* a master's access: its kind, and the cells it concerns
          effected, \* masters whose access has taken effect
          result    \* what a master's last read returned

targetVars == <<cell, access, effected, result>>

Kind == {"read", "write", "copy", "none"}
Accesses == [kind : Kind, from : Cell, to : Cell, data : Value]

TargetsInit ==
    /\ cell \in [Cell -> Value]
    /\ access = [m \in Master |-> NoAccess]
    /\ effected = {}
    /\ result \in [Master -> Value]

Invoke(m, a) ==
    /\ access[m] = NoAccess
    /\ access' = [access EXCEPT ![m] = a]
    /\ UNCHANGED <<cell, effected, result>>

(* "read" takes a value from its cell, "write" puts one into its cell,     *)
(* "copy" moves one from cell to cell; "none" is an access that fails.     *)
Effect(m) ==
    LET a == access[m] IN
    /\ a # NoAccess /\ m \notin effected
    /\ effected' = effected \cup {m}
    /\ result' = IF a.kind = "read" THEN [result EXCEPT ![m] = cell[a.from]] ELSE result
    /\ cell' = CASE a.kind = "write" -> [cell EXCEPT ![a.to] = a.data]
                 [] a.kind = "copy" -> [cell EXCEPT ![a.to] = cell[a.from]]
                 [] OTHER -> cell
    /\ UNCHANGED access

Respond(m) ==
    /\ m \in effected
    /\ effected' = effected \ {m}
    /\ access' = [access EXCEPT ![m] = NoAccess]
    /\ UNCHANGED <<cell, result>>

(* The Monitor sets a cell while no master is at work.                     *)
Preload(c, v) ==
    /\ \A m \in Master : access[m] = NoAccess
    /\ cell' = [cell EXCEPT ![c] = v]
    /\ UNCHANGED <<access, effected, result>>

TargetsNext ==
    \/ \E m \in Master : (\E a \in Accesses : Invoke(m, a)) \/ Effect(m) \/ Respond(m)
    \/ \E c \in Cell, v \in Value : Preload(c, v)

TargetsSpec == TargetsInit /\ [][TargetsNext]_targetVars
=============================================================================
