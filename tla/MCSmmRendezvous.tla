--------------------------- MODULE MCSmmRendezvous ---------------------------
(* Small instances of SmmRendezvous.  Two of the CPUs are HT siblings and   *)
(* share a core's MTRRs, the case in which the order of backup and          *)
(* programming matters; a third CPU has a core of its own.  Without MTRR    *)
(* programming all CPUs are alike.                                          *)
EXTENDS SmmRendezvous, TLC

CONSTANTS c1, c2, c3

TwoCores == {1, 2}
Siblings == [c \in Cpus |-> IF c = c3 THEN 2 ELSE 1]
OneCore == {1}
SharedCore == [c \in Cpus |-> 1]
CpuSymmetry == Permutations(Cpus)
SiblingSymmetry == Permutations({c1, c2})
=============================================================================
