------------------------------- MODULE SmiRun -------------------------------
(***************************************************************************)
(* What the SMI rendezvous promises to the SMM foundation and its handlers:*)
(* one CPU at a time owns the handlers; it alone schedules procedures, at  *)
(* most one per other CPU at a time; and the handlers' run is over only    *)
(* when every scheduled procedure is.                                      *)
(***************************************************************************)
CONSTANTS Cpus, NoCpu

VARIABLES owner,    \* the CPU that runs the SMI handlers, or NoCpu
          tasks     \* the CPUs with a procedure scheduled and not finished

Init == owner = NoCpu /\ tasks = {}

Begin(c) ==
    /\ owner = NoCpu
    /\ tasks = {}
    /\ owner' = c
    /\ UNCHANGED tasks

Schedule(a) ==
    /\ owner \in Cpus \ {a}
    /\ a \notin tasks
    /\ tasks' = tasks \cup {a}
    /\ UNCHANGED owner

Complete(a) ==
    /\ a \in tasks
    /\ tasks' = tasks \ {a}
    /\ UNCHANGED owner

End ==
    /\ owner # NoCpu
    /\ tasks = {}
    /\ owner' = NoCpu
    /\ UNCHANGED tasks

Next == End \/ \E c \in Cpus : Begin(c) \/ Schedule(c) \/ Complete(c)

Spec == Init /\ [][Next]_<<owner, tasks>>
=============================================================================
