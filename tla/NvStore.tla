------------------------------ MODULE NvStore ------------------------------
(***************************************************************************)
(* What the fault tolerant write services promise: a store of one value    *)
(* per target block.  A caller asks for a new value; the value changes at  *)
(* once and completely, or the request is dropped (the power failed first) *)
(* and the old value stays.                                                *)
(***************************************************************************)
EXTENDS Integers

CONSTANTS Targets, Values

VARIABLES value,   \* the value of each target block
          asked    \* the value last asked for; equal to value when settled

vars == <<value, asked>>

Init == /\ value \in [Targets -> Values]
        /\ asked = value

Ask(t, v) == /\ asked = value
             /\ asked' = [asked EXCEPT ![t] = v]
             /\ UNCHANGED value

Commit(t) == /\ value' = [value EXCEPT ![t] = asked[t]]
             /\ UNCHANGED asked

Drop == /\ asked' = value
        /\ UNCHANGED value

Next == \/ \E t \in Targets, v \in Values : Ask(t, v)
        \/ \E t \in Targets : Commit(t)
        \/ Drop

Spec == Init /\ [][Next]_vars
=============================================================================
