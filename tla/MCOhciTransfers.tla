--------------------------- MODULE MCOhciTransfers ---------------------------
(* Small instances of OhciTransfers: a hub that is polled every 64 frames,  *)
(* a keyboard whose interval is not a power of two, and a disk.             *)
EXTENDS OhciTransfers

CONSTANTS hub, keyboard, disk

Intervals == [e \in {hub, keyboard} |-> IF e = hub THEN 64 ELSE 10]
=============================================================================
