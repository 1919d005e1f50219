------------------------- MODULE SmmRendezvousProofs -------------------------
(***************************************************************************)
(* Proofs about SmmRendezvous for any number of CPUs, any assignment of    *)
(* CPUs to cores, any number of SMIs, with or without MTRR programming and *)
(* whatever the timeouts.                                                  *)
(***************************************************************************)
EXTENDS SmmRendezvous, TLAPS

\* Assigning one local of one CPU, or all of them, keeps loc well typed.
LEMMA LocalsType ==
    ASSUME TypeOK, NEW c \in Cpus
    PROVE  /\ Idle \in Locals
           /\ [loc EXCEPT ![c] = Idle] \in [Cpus -> Locals]
           /\ \A v \in Modes :
                 [loc EXCEPT ![c] = [Idle EXCEPT !.mode = v]] \in [Cpus -> Locals]
           /\ loc[c].apCount \in Int
           /\ \A v \in BOOLEAN : [loc EXCEPT ![c].bspInProgress = v] \in [Cpus -> Locals]
           /\ \A v \in Cpus \cup {NoCpu} : [loc EXCEPT ![c].bsp = v] \in [Cpus -> Locals]
           /\ \A v \in Modes : [loc EXCEPT ![c].mode = v] \in [Cpus -> Locals]
           /\ \A v \in Int : [loc EXCEPT ![c].apCount = v] \in [Cpus -> Locals]
           /\ \A v \in Cpus \cup {NoCpu} : [loc EXCEPT ![c].target = v] \in [Cpus -> Locals]
<1>1. Idle \in Locals
  BY DEF Locals, Idle, Modes
<1>2. \A v \in Modes : [Idle EXCEPT !.mode = v] \in Locals
  <2> SUFFICES ASSUME NEW r \in Locals, NEW v \in Modes
               PROVE  [r EXCEPT !.mode = v] \in Locals
    BY <1>1
  <2> QED BY DEF Locals
<1>3. \A v \in Locals : [loc EXCEPT ![c] = v] \in [Cpus -> Locals]
  BY DEF TypeOK
<1>4. /\ loc[c].apCount \in Int
      /\ \A v \in BOOLEAN : [loc EXCEPT ![c].bspInProgress = v] \in [Cpus -> Locals]
      /\ \A v \in Cpus \cup {NoCpu} : [loc EXCEPT ![c].bsp = v] \in [Cpus -> Locals]
      /\ \A v \in Modes : [loc EXCEPT ![c].mode = v] \in [Cpus -> Locals]
      /\ \A v \in Int : [loc EXCEPT ![c].apCount = v] \in [Cpus -> Locals]
      /\ \A v \in Cpus \cup {NoCpu} : [loc EXCEPT ![c].target = v] \in [Cpus -> Locals]
  BY DEF TypeOK, Locals
<1> QED BY <1>1, <1>2, <1>3, <1>4

\* The semaphore operations keep Run well typed.
LEMMA RunType ==
    ASSUME TypeOK, NEW c \in Cpus
    PROVE  /\ WaitForAllAPs(c) \in [Cpus -> Int]
           /\ ReleaseAllAPs(Run) \in [Cpus -> Int]
           /\ ReleaseAllAPs(WaitForAllAPs(c)) \in [Cpus -> Int]
           /\ Handshake(c) => Run' \in [Cpus -> Int]
<1>1. WaitForAllAPs(c) \in [Cpus -> Int]
  BY LocalsType DEF TypeOK, WaitForAllAPs
<1>2. ASSUME NEW r \in [Cpus -> Int] PROVE ReleaseAllAPs(r) \in [Cpus -> Int]
  BY DEF ReleaseAllAPs, ReleaseSemaphore
<1>3. Handshake(c) => Run' \in [Cpus -> Int]
  BY DEF TypeOK, Handshake, WaitForSemaphore, ReleaseSemaphore
<1> QED BY <1>1, <1>2, <1>3 DEF TypeOK

\* What every case below unfolds: the type invariant, the jump and the tuples of
\* unchanged variables.
USE DEF TypeOK, Goto, Pcs, EntryPcs, BspPcs, ApPcs, TailPcs
USE DEF vars, slowVars, hwVars, electVars, modeVars, mtrrVars, flagVars, cpuData

\* SmiRendezvous: entry, check-in, election and exit keep the types.
LEMMA RendezvousType ==
    ASSUME TypeOK, NEW c \in Cpus, SmiRendezvous(c)
    PROVE  TypeOK'
<1>1. CASE EnterSmi(c)
  BY <1>1, LocalsType DEF EnterSmi
<1>2. CASE CheckIn(c)
  BY <1>2, LocalsType DEF CheckIn, ReleaseSemaphore
<1>3. CASE Elect(c)
  BY <1>3 DEF Elect
<1>4. CASE CasBsp(c)
  BY <1>4 DEF CasBsp, CompareExchangeBsp
<1>5. CASE TakeRole(c)
  BY <1>5, LocalsType DEF TakeRole
<1>6. CASE ExitSmi(c)
  BY <1>6 DEF ExitSmi
<1> QED BY <1>1, <1>2, <1>3, <1>4, <1>5, <1>6 DEF SmiRendezvous

\* BSPHandler keeps the types.
LEMMA BspType ==
    ASSUME TypeOK, NEW c \in Cpus, BSPHandler(c)
    PROVE  TypeOK'
<1>1. CASE BspStart(c)
  BY <1>1 DEF BspStart
<1>2. CASE SmmWaitForApArrival(c)
  BY <1>2 DEF SmmWaitForApArrival, FirstWait, BringIn, SendSmiIpis, SecondWait
<1>3. CASE BspSync(c)
  BY <1>3 DEF BspSync
<1>4. CASE BspLock(c)
  <2>1. /\ Counter - 1 \in Int
        /\ \A v \in Int : [loc EXCEPT ![c].apCount = v] \in [Cpus -> Locals]
    BY LocalsType
  <2>2. loc' \in [Cpus -> Locals]
    BY <1>4, <2>1 DEF BspLock
  <2>3. Counter' \in Int
    BY <1>4 DEF BspLock, LockdownSemaphore, Locked
  <2>4. pc' \in [Cpus -> Pcs]
    BY <1>4 DEF BspLock
  <2> QED BY <1>4, <2>2, <2>3, <2>4 DEF BspLock
<1>5. CASE BspGather(c)
  BY <1>5, RunType DEF BspGather
<1>6. CASE BspSave(c)
  BY <1>6, CoresAssumption DEF BspSave, MtrrGetAllMtrrs
<1>7. CASE BspSaved(c)
  BY <1>7, RunType DEF BspSaved
<1>8. CASE BspReplace(c)
  BY <1>8 DEF BspReplace, ReplaceOSMtrrs
<1>9. CASE BspReplaced(c)
  BY <1>9, RunType DEF BspReplaced
<1>10. CASE BspDrain(c)
  BY <1>10 DEF BspDrain
<1>11. CASE BspPresent(c)
  BY <1>11 DEF BspPresent
<1>12. CASE BspLeave(c)
  BY <1>12 DEF BspLeave
<1>13. CASE BspNotify(c)
  BY <1>13, RunType DEF BspNotify
<1>14. CASE BspFinished(c)
  <2>1. Run' \in [Cpus -> Int]
    BY <1>14, RunType DEF BspFinished, SignalReset
  <2>2. pc' \in [Cpus -> Pcs]
    BY <1>14 DEF BspFinished, SignalReset
  <2>3. /\ SwitchBsp' \in BOOLEAN
        /\ CandidateBsp' \subseteq Cpus
        /\ Operation' \subseteq Cpus
        /\ Present' \subseteq Cpus
    BY <1>14 DEF BspFinished, SignalReset, SmmCpuUpdate
  <2> QED BY <1>14, <2>1, <2>2, <2>3 DEF BspFinished
<1>15. CASE BspRestore(c)
  BY <1>15 DEF BspRestore, MtrrSetAllMtrrs
<1>16. CASE BspRestored(c)
  BY <1>16, RunType DEF BspRestored, SignalReset, SmmCpuUpdate
<1>17. CASE BspCollect(c)
  BY <1>17, RunType DEF BspCollect
<1>18. CASE BspUnelect(c)
  BY <1>18 DEF BspUnelect
<1>19. CASE BspReopen(c)
  BY <1>19 DEF BspReopen
<1>20. CASE BspUnsync(c)
  BY <1>20, LocalsType DEF BspUnsync
<1> QED BY <1>1, <1>2, <1>3, <1>4, <1>5, <1>6, <1>7, <1>8, <1>9, <1>10, <1>11, <1>12, <1>13, <1>14, <1>15, <1>16, <1>17, <1>18, <1>19, <1>20 DEF BSPHandler

\* APHandler keeps the types.
LEMMA ApType ==
    ASSUME TypeOK, NEW c \in Cpus, APHandler(c)
    PROVE  TypeOK'
<1>1. CASE ApSeesBsp(c)
  BY <1>1 DEF ApSeesBsp
<1>2. CASE ApTimeout(c)
  BY <1>2 DEF ApTimeout
<1>3. CASE ApGiveUp(c)
  BY <1>3, LocalsType DEF ApGiveUp, TakeBack, WaitForSemaphore
<1>4. CASE ApEnter(c)
  BY <1>4, LocalsType DEF ApEnter, ReleaseSemaphore
<1>5. CASE ApSave(c)
  BY <1>5, RunType, CoresAssumption DEF ApSave, MtrrGetAllMtrrs
<1>6. CASE ApReplace(c)
  BY <1>6, RunType DEF ApReplace, ReplaceOSMtrrs
<1>7. CASE ApWake(c)
  <2>1. Run' \in [Cpus -> Int]
    BY <1>7, RunType DEF ApWake, WaitForSemaphore
  <2>2. pc' \in [Cpus -> Pcs]
    BY <1>7 DEF ApWake
  <2> QED BY <1>7, <2>1, <2>2 DEF ApWake
<1>8. CASE ApProcedureDone(c)
  BY <1>8 DEF ApProcedureDone
<1>9. CASE ApRestore(c)
  BY <1>9, RunType DEF ApRestore, MtrrSetAllMtrrs
<1>10. CASE ApReset(c)
  BY <1>10, RunType, LocalsType DEF ApReset
<1> QED BY <1>1, <1>2, <1>3, <1>4, <1>5, <1>6, <1>7, <1>8, <1>9, <1>10 DEF APHandler

\* The services the SMI handlers call keep the types.
LEMMA HandlersType ==
    ASSUME TypeOK, NEW c \in Cpus, SmmHandlers(c)
    PROVE  TypeOK'
<1>1. ASSUME NEW a \in Cpus, SmmStartupThisAp(c, a) PROVE TypeOK'
  <2>1. Run' \in [Cpus -> Int]
    BY <1>1 DEF SmmStartupThisAp, ReleaseSemaphore
  <2>2. loc' \in [Cpus -> Locals]
    BY <1>1, LocalsType DEF SmmStartupThisAp
  <2>3. pc' \in [Cpus -> Pcs]
    BY <1>1 DEF SmmStartupThisAp
  <2> QED BY <1>1, <2>1, <2>2, <2>3 DEF SmmStartupThisAp
<1>2. CASE BlockingDone(c)
  BY <1>2, LocalsType DEF BlockingDone
<1>3. ASSUME NEW m, SmmSyncSetMode(c, m) PROVE TypeOK'
  BY <1>3 DEF SmmSyncSetMode, ValidMode, ModeInEffect
<1>4. ASSUME NEW p \in Cpus, SmmSwitchBsp(c, p) PROVE TypeOK'
  BY <1>4 DEF SmmSwitchBsp
<1>5. ASSUME NEW t \in SUBSET Cpus, SmmCpuSync2SendSmi(c, t) PROVE TypeOK'
  BY <1>5 DEF SmmCpuSync2SendSmi
<1>6. CASE SmmCpuSyncCheckApArrival(c)
  BY <1>6 DEF SmmCpuSyncCheckApArrival, CheckResult, FirstWait, BringIn, SendSmiIpis, SecondWait
<1>7. CASE HandlerReturns(c)
  BY <1>7 DEF HandlerReturns
<1> QED BY <1>1, <1>2, <1>3, <1>4, <1>5, <1>6, <1>7 DEF SmmHandlers

\* Initially the types are right, and every step keeps them.
LEMMA TypeInit == Init => TypeOK
<1>1. Idle \in Locals
  BY DEF Idle, Modes, Locals
<1>2. "Tradition" \in Modes
  BY DEF Modes
<1>3. "normal" \in Pcs
  OBVIOUS
<1> SUFFICES ASSUME Init PROVE TypeOK
  OBVIOUS
<1>4. InsideSmm \in BOOLEAN /\ AllCpusInSync \in BOOLEAN /\ SwitchBsp \in BOOLEAN
  BY DEF Init, InitializeMpSyncData
<1>5. pc \in [Cpus -> Pcs] /\ loc \in [Cpus -> Locals]
  BY <1>1, <1>3 DEF Init
<1>6. Counter \in Int /\ Run \in [Cpus -> Int] /\ smiLeft \in Nat
  BY OptionsAssumption DEF Init, InitializeMpSyncData
<1>7. mtrr \in [Cores -> {"none", "os", "smm"}] /\ saved \in [Cpus -> {"none", "os", "smm"}]
  BY DEF Init
<1> QED BY <1>2, <1>4, <1>5, <1>6, <1>7 DEF Init, InitializeMpSyncData

LEMMA TypeStep == TypeOK /\ [Next]_vars => TypeOK'
<1> SUFFICES ASSUME TypeOK, [Next]_vars PROVE TypeOK'
  OBVIOUS
<1>1. CASE RaiseSmi
  BY <1>1 DEF RaiseSmi
<1>2. CASE UNCHANGED vars
  BY <1>2
<1> QED BY <1>1, <1>2, RendezvousType, BspType, ApType, HandlersType DEF Next

HIDE DEF TypeOK, vars

\* The variables of the rendezvous keep their types (mSmmMpSyncData and the locals of
\* BSPHandler and APHandler) through every interleaving of the CPUs.
THEOREM TypeCorrect == Spec => []TypeOK
BY TypeInit, TypeStep, PTL DEF Spec

-----------------------------------------------------------------------------
\* A step that leaves BspIndex alone and moves one CPU keeps SingleBsp if the CPU it
\* brings into BSPHandler is the elected one or was there before.
LEMMA BspMove ==
    ASSUME TypeOK, SingleBsp, NEW c \in Cpus, NEW from, NEW to,
           Goto(c, from, to), BspIndex' = BspIndex,
           to \in BspPcs => from \in BspPcs \/ BspIndex = c
    PROVE  SingleBsp'
BY DEF TypeOK, SingleBsp, Goto

HIDE DEF Goto

LEMMA RendezvousSingleBsp ==
    ASSUME TypeOK, SingleBsp, NEW c \in Cpus, SmiRendezvous(c)
    PROVE  SingleBsp'
<1>1. CASE EnterSmi(c)
  BY <1>1, BspMove DEF EnterSmi
<1>2. CASE CheckIn(c)
  BY <1>2, BspMove DEF CheckIn
<1>3. CASE Elect(c)
  BY <1>3, BspMove DEF Elect
<1>4. CASE CasBsp(c)
  <2>1. CASE BspIndex = NoCpu
    <3>1. \A d \in Cpus : pc[d] \notin BspPcs
      BY <2>1, CpusAssumption DEF SingleBsp
    <3> QED BY <1>4, <3>1 DEF CasBsp, Goto, SingleBsp, TypeOK
  <2>2. CASE BspIndex # NoCpu
    BY <1>4, <2>2, BspMove DEF CasBsp, CompareExchangeBsp
  <2> QED BY <2>1, <2>2
<1>5. CASE TakeRole(c)
  BY <1>5, BspMove DEF TakeRole
<1>6. CASE ExitSmi(c)
  BY <1>6, BspMove DEF ExitSmi
<1> QED BY <1>1, <1>2, <1>3, <1>4, <1>5, <1>6 DEF SmiRendezvous

LEMMA BspSingleBsp ==
    ASSUME TypeOK, SingleBsp, NEW c \in Cpus, BSPHandler(c)
    PROVE  SingleBsp'
<1>1. CASE BspUnelect(c)
  <2>1. \A d \in Cpus \ {c} : pc[d] \notin BspPcs
    BY <1>1 DEF BspUnelect, Goto, SingleBsp
  <2> QED BY <1>1, <2>1 DEF BspUnelect, Goto, SingleBsp, TypeOK
<1>2. CASE BspStart(c) \/ SmmWaitForApArrival(c) \/ BspSync(c) \/ BspLock(c)
  BY <1>2, BspMove DEF BspStart, SmmWaitForApArrival, FirstWait, BringIn, SecondWait,
     BspSync, BspLock
<1>3. CASE BspGather(c) \/ BspSave(c) \/ BspSaved(c) \/ BspReplace(c) \/ BspReplaced(c)
  BY <1>3, BspMove DEF BspGather, BspSave, BspSaved, BspReplace, BspReplaced
<1>4. CASE BspDrain(c) \/ BspPresent(c) \/ BspLeave(c) \/ BspNotify(c) \/ BspFinished(c)
  BY <1>4, BspMove DEF BspDrain, BspPresent, BspLeave, BspNotify, BspFinished, SignalReset
<1>5. CASE BspRestore(c) \/ BspRestored(c) \/ BspCollect(c)
  BY <1>5, BspMove DEF BspRestore, BspRestored, SignalReset, BspCollect
<1>6. CASE BspReopen(c) \/ BspUnsync(c)
  BY <1>6, BspMove DEF BspReopen, BspUnsync
<1> QED BY <1>1, <1>2, <1>3, <1>4, <1>5, <1>6 DEF BSPHandler

LEMMA ApSingleBsp ==
    ASSUME TypeOK, SingleBsp, NEW c \in Cpus, APHandler(c)
    PROVE  SingleBsp'
<1>1. CASE ApSeesBsp(c) \/ ApTimeout(c) \/ ApGiveUp(c) \/ ApEnter(c)
  BY <1>1, BspMove DEF ApSeesBsp, ApTimeout, ApGiveUp, ApEnter
<1>2. CASE ApSave(c) \/ ApReplace(c) \/ ApWake(c)
  BY <1>2, BspMove DEF ApSave, ApReplace, ApWake
<1>3. CASE ApProcedureDone(c) \/ ApRestore(c) \/ ApReset(c)
  BY <1>3, BspMove DEF ApProcedureDone, ApRestore, ApReset
<1> QED BY <1>1, <1>2, <1>3 DEF APHandler

LEMMA HandlersSingleBsp ==
    ASSUME TypeOK, SingleBsp, NEW c \in Cpus, SmmHandlers(c)
    PROVE  SingleBsp'
<1>1. ASSUME NEW a \in Cpus, SmmStartupThisAp(c, a) PROVE SingleBsp'
  BY <1>1, BspMove DEF SmmStartupThisAp
<1>2. CASE BlockingDone(c) \/ HandlerReturns(c)
  BY <1>2, BspMove DEF BlockingDone, HandlerReturns
<1>3. ASSUME NEW m, SmmSyncSetMode(c, m) PROVE SingleBsp'
  BY <1>3 DEF SmmSyncSetMode, SingleBsp
<1>4. ASSUME NEW p, SmmSwitchBsp(c, p) PROVE SingleBsp'
  BY <1>4 DEF SmmSwitchBsp, SingleBsp
<1>5. ASSUME NEW t, SmmCpuSync2SendSmi(c, t) PROVE SingleBsp'
  BY <1>5 DEF SmmCpuSync2SendSmi, SingleBsp
<1>6. CASE SmmCpuSyncCheckApArrival(c)
  BY <1>6, BspMove DEF SmmCpuSyncCheckApArrival, CheckResult, FirstWait, BringIn, SecondWait
<1> QED BY <1>1, <1>2, <1>3, <1>4, <1>5, <1>6 DEF SmmHandlers

LEMMA SingleBspStep == TypeOK /\ SingleBsp /\ [Next]_vars => SingleBsp'
<1> SUFFICES ASSUME TypeOK, SingleBsp, [Next]_vars PROVE SingleBsp'
  OBVIOUS
<1>1. CASE RaiseSmi
  BY <1>1 DEF RaiseSmi, SingleBsp
<1>2. CASE UNCHANGED vars
  BY <1>2 DEF SingleBsp, vars
<1> QED BY <1>1, <1>2, RendezvousSingleBsp, BspSingleBsp, ApSingleBsp, HandlersSingleBsp
        DEF Next

\* However many CPUs enter SMM and however their steps interleave, at most one is in
\* BSPHandler and it is the one BspIndex names: the compare-exchange elects one, and
\* no CPU can be elected again before that one gives BspIndex back.
THEOREM OnlyOneBsp == Spec => []SingleBsp
<1>1. Init => SingleBsp
  BY DEF Init, SingleBsp
<1> QED BY <1>1, TypeCorrect, SingleBspStep, PTL DEF Spec
=============================================================================
