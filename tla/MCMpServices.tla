----------------------------- MODULE MCMpServices -----------------------------
(* Small instances of MpServices: a BSP and two APs.                        *)
EXTENDS MpServices

\* One by one and pending, in parallel and pending with a time limit; one AP
\* pending with a time limit, one AP blocking.
SomeAllCalls == {[single |-> TRUE, wait |-> TRUE, limit |-> 0],
                 [single |-> FALSE, wait |-> TRUE, limit |-> 1]}
SomeThisCalls == {[wait |-> TRUE, limit |-> 1], [wait |-> FALSE, limit |-> 0]}
=============================================================================
