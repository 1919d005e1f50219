------------------------- MODULE MCQncSmmDispatcher -------------------------
(* Small instances of QncSmmDispatcher: requests of each protocol, with     *)
(* requests that are refused, and two command values.                       *)
EXTENDS QncSmmDispatcher

Sw(v) == [type |-> "Sw", key |-> v, tick |-> 0]
Sx(t) == [type |-> "Sx", key |-> t, tick |-> 0]
Gpi == [type |-> "Gpi", key |-> 0, tick |-> 0]
QNCn(n) == [type |-> "QNCn", key |-> n, tick |-> 0]
Timer(period, tick) == [type |-> "PeriodicTimer", key |-> period, tick |-> tick]

\* Two children of one source, so that removing one leaves the other, and
\* requests that are refused.
AllKinds == {Sw(-1), Sw(1), Sw(3), Sx(3), Sx(6), Gpi, QNCn(BiosWp),
             QNCn(ThrmSts), Timer(320000, 160000), Timer(100, 100)}
Asynchronous == {Sw(1), Gpi}
SwPorts == {1}
Sleeps == {3, 5}
Events == {"SWT", "GPIO", "THRM", "BIOSWP"}
=============================================================================
