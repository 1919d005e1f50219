------------------------- MODULE SmmPromiseProofs -------------------------
(***************************************************************************)
(* SmmRendezvous implements SmiRun, for any number of CPUs and SMIs.       *)
(***************************************************************************)
EXTENDS SmmRunProofs

\* The refinement mapping of the abstract variable tasks.
Tasks == {a \in Busy : pc[a] \in {"aLoop", "aProc"}}

\* A step of one CPU and the owner of the handlers.
LEMMA OwnerMove ==
    ASSUME TypeOK, SingleBsp, NEW c \in Cpus, NEW from, NEW to, Goto(c, from, to)
    PROVE  /\ (from \in OwnerPcs <=> to \in OwnerPcs) => Owner' = Owner
           /\ from \in BspPcs \ OwnerPcs /\ to \in OwnerPcs => Owner = NoCpu /\ Owner' = c
           /\ from \in OwnerPcs /\ to \notin OwnerPcs => Owner = c /\ Owner' = NoCpu
           /\ from \in OwnerPcs => Owner = c
<1>1. \A d \in Cpus : pc'[d] = IF d = c THEN to ELSE pc[d]
  BY DEF Goto, TypeOK
<1>2. pc[c] = from
  BY DEF Goto
<1>3. OwnerPcs \subseteq BspPcs
  BY DEF OwnerPcs, HandlerPcs, BspPcs
<1>4. ASSUME from \in OwnerPcs <=> to \in OwnerPcs PROVE Owner' = Owner
  <2>1. \A d \in Cpus : (pc'[d] \in OwnerPcs) <=> (pc[d] \in OwnerPcs)
    BY <1>1, <1>2, <1>4
  <2>2. (CHOOSE d \in Cpus : pc'[d] \in OwnerPcs) = (CHOOSE d \in Cpus : pc[d] \in OwnerPcs)
    BY <2>1
  <2> QED BY <2>1, <2>2 DEF Owner
<1>5. ASSUME from \in BspPcs PROVE \A d \in Cpus \ {c} : pc[d] \notin OwnerPcs /\ pc'[d] \notin OwnerPcs
  BY <1>1, <1>2, <1>3, <1>5 DEF SingleBsp
<1>6. ASSUME from \in BspPcs \ OwnerPcs, to \in OwnerPcs PROVE Owner = NoCpu /\ Owner' = c
  <2>1. \A d \in Cpus : (pc'[d] \in OwnerPcs <=> d = c) /\ pc[d] \notin OwnerPcs
    BY <1>1, <1>2, <1>5, <1>6
  <2> QED BY <2>1 DEF Owner
<1>7. ASSUME from \in OwnerPcs PROVE Owner = c
  <2>1. \A d \in Cpus : pc[d] \in OwnerPcs <=> d = c
    BY <1>2, <1>3, <1>5, <1>7
  <2> QED BY <2>1 DEF Owner
<1>8. ASSUME from \in OwnerPcs, to \notin OwnerPcs PROVE Owner' = NoCpu
  <2>1. \A d \in Cpus : pc'[d] \notin OwnerPcs
    BY <1>1, <1>3, <1>5, <1>8
  <2> QED BY <2>1 DEF Owner
<1> QED BY <1>4, <1>6, <1>7, <1>8

\* A step of one CPU that changes no task.
LEMMA TasksMove ==
    ASSUME TypeOK, NEW c \in Cpus, NEW from, NEW to, Goto(c, from, to),
           Busy' \subseteq Busy \cup {c}, Busy \subseteq Busy' \cup {c},
           (c \in Busy /\ from \in {"aLoop", "aProc"}) <=> (c \in Busy' /\ to \in {"aLoop", "aProc"})
    PROVE  Tasks' = Tasks
BY DEF Tasks, Goto, TypeOK

\* A step the abstract specification does not see.
LEMMA SilentMove ==
    ASSUME TypeOK, SingleBsp, NEW c \in Cpus, NEW from, NEW to, Goto(c, from, to),
           from \in OwnerPcs <=> to \in OwnerPcs,
           Busy' \subseteq Busy \cup {c}, Busy \subseteq Busy' \cup {c},
           (c \in Busy /\ from \in {"aLoop", "aProc"}) <=> (c \in Busy' /\ to \in {"aLoop", "aProc"})
    PROVE  UNCHANGED <<Owner, Tasks>>
BY OwnerMove, TasksMove

\* The steps of SmiRun, on the mapped state.
SmiRunStep ==
    \/ UNCHANGED <<Owner, Tasks>>
    \/ Owner # NoCpu /\ Tasks = {} /\ Owner' = NoCpu /\ Tasks' = Tasks
    \/ \E c \in Cpus :
         \/ Owner = NoCpu /\ Tasks = {} /\ Owner' = c /\ Tasks' = Tasks
         \/ Owner \in Cpus \ {c} /\ c \notin Tasks /\ Tasks' = Tasks \cup {c} /\ Owner' = Owner
         \/ c \in Tasks /\ Tasks' = Tasks \ {c} /\ Owner' = Owner

\* The BSP starts the handlers when nothing is scheduled.
LEMMA BeginMove ==
    ASSUME TypeOK, SingleBsp, NEW c \in Cpus, NEW from \in {"bStart", "bGather", "bReplaced"},
           Goto(c, from, "handler"), Busy' = Busy \cup {c},
           \A d \in Cpus : pc[d] \in {"aLoop", "aProc"} => d \notin Busy
    PROVE  SmiRunStep
<1>1. /\ from \in BspPcs \ OwnerPcs /\ "handler" \in OwnerPcs
      /\ from \notin {"aLoop", "aProc"}
  BY DEF BspPcs, OwnerPcs, HandlerPcs
<1>2. Owner = NoCpu /\ Owner' = c
  BY <1>1, OwnerMove
<1>3. Tasks' = Tasks
  BY <1>1, TasksMove
<1>4. Tasks = {}
  BY DEF Tasks, TypeOK
<1> QED BY <1>2, <1>3, <1>4 DEF SmiRunStep

\* Every step of the rendezvous is a step of SmiRun or leaves its variables alone.
LEMMA PromiseStep ==
    TypeOK /\ SingleBsp /\ RunInv /\ [Next]_vars => SmiRunStep
<1> SUFFICES ASSUME TypeOK, SingleBsp, RunInv, [Next]_vars PROVE SmiRunStep
  OBVIOUS
<1> USE DEF cpuData, OwnerPcs, HandlerPcs
<1>0. ASSUME UNCHANGED <<pc, Busy>> PROVE SmiRunStep
  BY <1>0 DEF SmiRunStep, Owner, Tasks
<1>1. CASE RaiseSmi \/ UNCHANGED vars
  BY <1>0, <1>1 DEF RaiseSmi, vars
<1>2. ASSUME NEW c \in Cpus, SmiRendezvous(c) PROVE SmiRunStep
  BY <1>2, SilentMove DEF SmiRunStep, SmiRendezvous, EnterSmi, CheckIn, Elect, CasBsp, TakeRole, ExitSmi
<1>3. ASSUME NEW c \in Cpus, BSPHandler(c) PROVE SmiRunStep
  <2>1. CASE BspStart(c)
    <3>1. CASE GatherFirst(c)
      BY <2>1, <3>1, SilentMove DEF BspStart, SmiRunStep
    <3>2. CASE ~GatherFirst(c)
      <4>1. Goto(c, "bStart", "handler") /\ Busy' = Busy \cup {c} /\ pc[c] = "bStart"
        BY <2>1, <3>2 DEF BspStart, Goto
      <4>2. At = "bStart"
        BY <4>1 DEF SingleBsp, At, Leading, BspPcs
      <4>3. \A d \in Cpus : pc[d] \in {"aLoop", "aProc"} => d \notin Busy
        BY <4>2 DEF RunInv, BusyFits, ParkedPcs
      <4> QED BY <4>1, <4>3, BeginMove
    <3> QED BY <3>1, <3>2
  <2>2. CASE SmmWaitForApArrival(c) \/ BspSync(c) \/ BspLock(c)
    BY <2>2, SilentMove DEF SmiRunStep, SmmWaitForApArrival, FirstWait, BringIn, SecondWait, BspSync, BspLock
  <2>3. CASE (BspGather(c) /\ MtrrsConfigured) \/ BspSave(c) \/ BspSaved(c) \/ BspReplace(c)
    BY <2>3, SilentMove DEF SmiRunStep, BspGather, BspSave, BspSaved, BspReplace
  <2>4. CASE (BspGather(c) /\ ~MtrrsConfigured) \/ BspReplaced(c)
    <3>1. PICK from \in {"bGather", "bReplaced"} :
             Goto(c, from, "handler") /\ Busy' = Busy \cup {c} /\ pc[c] = from
      BY <2>4 DEF BspGather, BspReplaced, Goto
    <3>2. At = from
      BY <3>1 DEF SingleBsp, At, Leading, BspPcs
    <3>3. \A d \in Cpus : pc[d] \in {"aLoop", "aProc"} => d \notin Busy
      BY <3>2 DEF RunInv, BusyFits, ParkedPcs
    <3> QED BY <3>1, <3>3, BeginMove
  <2>5. CASE BspDrain(c)
    <3>1. PICK to \in {"bLeave", "bSyncLate"} :
             Goto(c, "bDrain", to) /\ Drained(c) /\ Busy' = Busy /\ pc[c] = "bDrain"
      BY <2>5 DEF BspDrain, Goto
    <3>2. Owner = c /\ Owner' = NoCpu
      BY <3>1, OwnerMove
    <3>3. Tasks' = Tasks
      BY <3>1, TasksMove
    <3>4. Tasks = {}
      <4>1. \A d \in Cpus : pc[d] \in {"aLoop", "aProc"} => d \in Present /\ d # c
        BY <3>1 DEF RunInv, PresentFits, ParkedPcs
      <4> QED BY <3>1, <4>1 DEF Tasks, Drained, TypeOK
    <3> QED BY <3>2, <3>3, <3>4, CpusAssumption DEF SmiRunStep
  <2>6. CASE BspPresent(c) \/ BspLeave(c) \/ BspNotify(c) \/ BspFinished(c)
    BY <2>6, SilentMove DEF SmiRunStep, BspPresent, BspLeave, BspNotify, BspFinished, SignalReset
  <2>7. CASE BspRestore(c) \/ BspRestored(c) \/ BspCollect(c)
    BY <2>7, SilentMove DEF SmiRunStep, BspRestore, BspRestored, SignalReset, BspCollect
  <2>8. CASE BspUnelect(c) \/ BspReopen(c) \/ BspUnsync(c)
    BY <2>8, SilentMove DEF SmiRunStep, BspUnelect, BspReopen, BspUnsync
  <2> QED BY <1>3, <2>1, <2>2, <2>3, <2>4, <2>5, <2>6, <2>7, <2>8 DEF BSPHandler
<1>4. ASSUME NEW c \in Cpus, APHandler(c) PROVE SmiRunStep
  <2>1. CASE ApSeesBsp(c) \/ ApTimeout(c) \/ ApGiveUp(c)
    BY <2>1, SilentMove DEF SmiRunStep, ApSeesBsp, ApTimeout, ApGiveUp
  <2>2. CASE ApEnter(c)
    <3>1. pc[c] = "aEnter"
      BY <2>2 DEF ApEnter, Goto
    <3>2. c \notin Busy
      BY <3>1, EarlyStays DEF EarlyPcs
    <3> QED BY <2>2, <3>2, SilentMove DEF SmiRunStep, ApEnter
  <2>3. CASE ApSave(c) \/ ApReplace(c) \/ ApRestore(c) \/ ApReset(c)
    <3>1. pc[c] \in {"aSave", "aReplace", "aRestore", "aReset"}
      BY <2>3 DEF ApSave, ApReplace, ApRestore, ApReset, Goto
    <3>2. c \notin Busy
      BY <3>1 DEF RunInv, BusyFits, ParkedPcs
    <3> QED BY <2>3, <3>2, SilentMove DEF SmiRunStep, ApSave, ApReplace, ApRestore, ApReset
  <2>4. CASE ApWake(c) /\ InsideSmm
    BY <2>4, SilentMove DEF SmiRunStep, ApWake
  <2>5. CASE ApWake(c) /\ ~InsideSmm
    <3>1. pc[c] = "aLoop" /\ At \notin OwnerPcs
      BY <2>5 DEF ApWake, Goto, RunInv, InsideFits, InsidePcs
    <3>2. c \notin Busy
      BY <3>1 DEF RunInv, BusyFits, ParkedPcs
    <3> QED BY <2>5, <3>2, SilentMove DEF SmiRunStep, ApWake
  <2>6. CASE ApProcedureDone(c)
    <3>1. Goto(c, "aProc", "aLoop") /\ Busy' = Busy \ {c} /\ pc[c] = "aProc"
      BY <2>6 DEF ApProcedureDone, Goto
    <3>2. c \in Tasks
      BY <3>1 DEF RunInv, BusyFits, ParkedPcs, Tasks
    <3>3. Tasks' = Tasks \ {c}
      BY <3>1 DEF Tasks, Goto, TypeOK
    <3>4. Owner' = Owner
      BY <3>1, OwnerMove
    <3> QED BY <3>2, <3>3, <3>4 DEF SmiRunStep
  <2> QED BY <1>4, <2>1, <2>2, <2>3, <2>4, <2>5, <2>6 DEF APHandler
<1>5. ASSUME NEW c \in Cpus, SmmHandlers(c) PROVE SmiRunStep
  <2>1. ASSUME NEW a \in Cpus, SmmStartupThisAp(c, a) PROVE SmiRunStep
    <3>1. PICK to \in {"handler", "blocking"} :
             Goto(c, "handler", to) /\ ApIsFree(c, a) /\ Busy' = Busy \cup {a} /\ pc[c] = "handler"
      BY <2>1 DEF SmmStartupThisAp, Goto
    <3>2. c = BspIndex /\ Leading /\ At = "handler"
      BY <3>1 DEF SingleBsp, BspPcs, At, Leading
    <3>3. a # c /\ a \notin Busy /\ pc[a] \in ParkedPcs
      BY <3>1, <3>2 DEF ApIsFree, RunInv, PresentFits
    <3>4. pc[a] \in {"aLoop", "aProc"}
      BY <3>2, <3>3 DEF RunInv, Follows, Asked, Answered, Serving, Arriving, ParkedPcs, EarlyPcs, GatherPcs, LatePcs
    <3>5. a \notin Tasks /\ Tasks' = Tasks \cup {a}
      BY <3>1, <3>3, <3>4 DEF Tasks, Goto, TypeOK
    <3>6. Owner = c /\ Owner' = Owner
      BY <3>1, OwnerMove
    <3> QED BY <3>3, <3>5, <3>6 DEF SmiRunStep
  <2>2. CASE BlockingDone(c) \/ HandlerReturns(c) \/ SmmCpuSyncCheckApArrival(c)
    BY <2>2, SilentMove DEF SmiRunStep, BlockingDone, HandlerReturns, SmmCpuSyncCheckApArrival, CheckResult,
       FirstWait, BringIn, SecondWait
  <2>3. CASE \/ \E m \in Modes \cup {"Max"} : SmmSyncSetMode(c, m)
             \/ \E p \in Cpus : SmmSwitchBsp(c, p)
             \/ \E t \in SUBSET Cpus : SmmCpuSync2SendSmi(c, t)
    BY <1>0, <2>3 DEF SmmSyncSetMode, SmmSwitchBsp, SmmCpuSync2SendSmi
  <2> QED BY <1>5, <2>1, <2>2, <2>3 DEF SmmHandlers
<1> QED BY <1>1, <1>2, <1>3, <1>4, <1>5 DEF Next

\* The rendezvous implements SmiRun: one owner of the handlers at a time, at most one
\* procedure scheduled per AP, and no run ended before they have all returned.
THEOREM RendezvousKeepsPromise ==
    ASSUME CleanGiveUp
    PROVE  Spec => KeepsPromise
<1>1. Init => Promise!Init
  BY DEF Init, InitializeMpSyncData, Promise!Init, Owner, OwnerPcs, HandlerPcs
<1>2. SmiRunStep => [Promise!Next]_<<Owner, Tasks>>
  BY DEF SmiRunStep, Promise!Next, Promise!End, Promise!Begin, Promise!Schedule, Promise!Complete, Tasks
<1>3. TypeOK /\ SingleBsp /\ RunInv /\ [Next]_vars => [Promise!Next]_<<Owner, Tasks>>
  BY <1>2, PromiseStep
<1> QED BY <1>1, <1>3, RunCorrect, TypeCorrect, OnlyOneBsp, PTL DEF Spec, KeepsPromise, Promise!Spec, Tasks
=============================================================================
