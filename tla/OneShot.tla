------------------------------ MODULE OneShot ------------------------------
(***************************************************************************)
(* What a conditional order promises the user: it is active until it is    *)
(* cancelled or executed, whichever comes first, an execution leads to one *)
(* market order or to none, and the status tells which.  The promise ends  *)
(* with the first failure of the system underneath.                        *)
(***************************************************************************)
EXTENDS Naturals

CONSTANTS
    Ids,     \* conditional orders
    Agents   \* whoever may execute them

VARIABLES
    life,    \* where each order is in its life
    placed,  \* market orders each agent placed for it
    failed   \* something underneath has failed

vars == <<life, placed, failed>>

Lives == {"none", "active", "executing", "triggered", "failed", "cancelled"}

Init ==
    /\ life = [o \in Ids |-> "none"]
    /\ placed = [p \in Ids \X Agents |-> 0]
    /\ failed = FALSE

Becomes(o, from, to) == life[o] = from /\ life' = [life EXCEPT ![o] = to]

Create(o)  == Becomes(o, "none", "active") /\ UNCHANGED placed
Cancel(o)  == Becomes(o, "active", "cancelled") /\ UNCHANGED placed
Execute(o) == Becomes(o, "active", "executing") /\ UNCHANGED placed
Fail(o)    == Becomes(o, "executing", "failed") /\ UNCHANGED placed

Trigger(o, a) ==
    /\ Becomes(o, "executing", "triggered")
    /\ placed' = [placed EXCEPT ![<<o, a>>] = @ + 1]

\* After a failure nothing is promised.
Next ==
    \/ /\ ~failed /\ UNCHANGED failed
       /\ \E o \in Ids :
            Create(o) \/ Cancel(o) \/ Execute(o) \/ Fail(o) \/ \E a \in Agents : Trigger(o, a)
    \/ failed' = TRUE

Spec == Init /\ [][Next]_vars

\* Until there is a failure, the status tells how many market orders there are:
\* one of a triggered order, none of any other.
OutcomeTold ==
    ~failed =>
        /\ \A o \in Ids, a \in Agents : placed[<<o, a>>] > 0 =>
            /\ life[o] = "triggered" /\ placed[<<o, a>>] = 1
            /\ \A b \in Agents \ {a} : placed[<<o, b>>] = 0
        /\ \A o \in Ids : life[o] = "triggered" => \E a \in Agents : placed[<<o, a>>] = 1
=============================================================================
