---------------------------- MODULE SmmRendezvous ----------------------------
(***************************************************************************)
(* The SMI rendezvous of IA32FamilyCpuBasePkg/PiSmmCpuDxeSmm (MpService.c, *)
(* CpuService.c): on an SMI every CPU enters SmiRendezvous(), one is       *)
(* elected BSP and runs the SMI handlers, the others (APs) park, run the   *)
(* procedures the BSP schedules on them, and all leave together.           *)
(*                                                                         *)
(* One CPU is one sequential process with a program counter.  A step ends  *)
(* at an access another CPU can observe.  Three kinds of statement are     *)
(* folded into the step they follow: a decrement of the CPU's own Run      *)
(* semaphore (only its owner takes from it), a ReleaseSemaphore on another *)
(* CPU's Run (it only enables), and a store only the same CPU reads.       *)
(*                                                                         *)
(* UINT32 values near the top of the range are written as negative numbers:*)
(* (UINT32)-1, the locked Counter and the unknown BspIndex, is -1.         *)
(***************************************************************************)
EXTENDS Integers, FiniteSets

CONSTANTS
    Cpus,               \* the logical processors, mNumberOfCpus of them
    Cores,              \* processor cores; HT siblings share MTRRs
    CoreOf,             \* the core of each CPU
    NoCpu,              \* BspIndex == (UINT32)-1
    MtrrsConfigured,    \* what NeedConfigureMtrrs() returns
    MaxSmi,             \* bound: SMIs the platform and the handlers raise
    LongTimeouts,       \* PcdCpuSmmApSyncTimeout outlasts straight-line code
    CleanGiveUp         \* no BSP starts between an AP's last look and its exit

ASSUME CpusAssumption == IsFiniteSet(Cpus) /\ Cpus # {} /\ NoCpu \notin Cpus
ASSUME CoresAssumption == CoreOf \in [Cpus -> Cores]
ASSUME OptionsAssumption ==
    /\ MaxSmi \in Nat
    /\ MtrrsConfigured \in BOOLEAN
    /\ LongTimeouts \in BOOLEAN
    /\ CleanGiveUp \in BOOLEAN

VARIABLES
    pc,                 \* where each CPU is
    smi,                \* SMI latched for the CPU and not yet taken
    smiLeft,            \* SMIs that may still be raised
    mtrr,               \* what the MTRRs of each core hold
    saved,              \* Mtrrs, the local of BSPHandler and APHandler
    Counter, InsideSmm, AllCpusInSync, BspIndex,    \* mSmmMpSyncData->...
    SwitchBsp, CandidateBsp, EffectiveSyncMode, SyncModeToBeSet,
    Run, Present, Busy, \* mSmmMpSyncData->CpuData[].{Run, Present, Busy}
    Operation,          \* the CPUs whose Operation[] is SmmCpuSwitchBsp
    loc                 \* the other locals of each CPU's activation

hwVars == <<smi, smiLeft>>
mtrrVars == <<mtrr, saved>>
electVars == <<BspIndex, SwitchBsp, CandidateBsp, Operation>>
modeVars == <<EffectiveSyncMode, SyncModeToBeSet>>
slowVars == <<hwVars, electVars, modeVars>>
flagVars == <<Counter, InsideSmm, AllCpusInSync>>
cpuData == <<Run, Present, Busy>>
vars == <<pc, slowVars, mtrrVars, flagVars, cpuData, loc>>

Locked == -1
NumberOfCpus == Cardinality(Cpus)
Modes == {"Tradition", "Relaxed"}

EntryPcs == {"checkin", "elect", "cas", "role"}
BspPcs == {"bStart", "bArrive1", "bIpi", "bArrive2", "bSync", "bLock",
           "bGather", "bSave", "bSaved", "bReplace", "bReplaced", "handler",
           "blocking", "cArrive1", "cIpi", "cArrive2", "cReady", "cNotReady",
           "bDrain", "bSyncLate", "bLockLate", "bPresent", "bLeave",
           "bNotify", "bFinished", "bRestore", "bRestored", "bCollect",
           "bUnelect"}
ApPcs == {"aTimer1", "aTimer2", "aGiveUp", "aEnter", "aSave", "aReplace",
          "aLoop", "aProc", "aRestore", "aReset"}
TailPcs == {"bReopen", "bUnsync", "spin"}
Pcs == {"normal"} \cup EntryPcs \cup BspPcs \cup ApPcs \cup TailPcs

\* The BSP is inside gSmmCpuPrivate->SmmCoreEntry(), calls it makes included.
HandlerPcs == {"handler", "blocking", "cArrive1", "cIpi", "cArrive2",
               "cReady", "cNotReady"}

\* A local that is not used again goes back to its value here.
Idle == [bspInProgress |-> FALSE, bsp |-> NoCpu, mode |-> "Tradition",
         apCount |-> 0, target |-> NoCpu]

InitializeMpSyncData ==
    /\ Counter = 0
    /\ InsideSmm = FALSE
    /\ AllCpusInSync = FALSE
    /\ BspIndex = NoCpu
    /\ SwitchBsp = FALSE
    /\ CandidateBsp = {}
    /\ EffectiveSyncMode = "Tradition"
    /\ SyncModeToBeSet = "Tradition"
    /\ Run = [c \in Cpus |-> 0]
    /\ Present = {}
    /\ Busy = {}

Init ==
    /\ InitializeMpSyncData
    /\ Operation = {}
    /\ pc = [c \in Cpus |-> "normal"]
    /\ loc = [c \in Cpus |-> Idle]
    /\ smi = {}
    /\ smiLeft = MaxSmi
    /\ mtrr = [k \in Cores |-> "os"]
    /\ saved = [c \in Cpus |-> "none"]

(***************************************************************************)
(* Semaphores.  Each is one atomic compare-exchange loop.                  *)
(***************************************************************************)
\* Faulty: the increment of a locked semaphore wraps to 0.
WrapSemaphore(v) == v + 1
ReleaseSemaphore(v) == IF v = -1 THEN v ELSE v + 1
WaitForSemaphore(v) == v - 1

\* The APs ReleaseAllAPs() signals.
PresentAPs == Present \ {BspIndex}
ReleaseAllAPs(run) ==
    [c \in Cpus |-> IF c \in PresentAPs THEN ReleaseSemaphore(run[c]) ELSE run[c]]

\* WaitForAllAPs(ApCount) takes ApCount units from the BSP's own Run; a count
\* that wrapped below zero is never reached.
AllAPsSignalled(c) == loc[c].apCount \in 0 .. Run[c]
WaitForAllAPs(c) == [Run EXCEPT ![c] = @ - loc[c].apCount]

Goto(c, from, to) == pc[c] = from /\ pc' = [pc EXCEPT ![c] = to]

(***************************************************************************)
(* Timeouts.  IsSyncTimerTimeout() may turn true at any iteration; with    *)
(* LongTimeouts only when every other CPU is waiting for somebody.         *)
(***************************************************************************)
Waiting(c) ==
    \/ pc[c] \in {"normal", "handler", "aProc", "bArrive1", "bArrive2",
                  "cArrive1", "cArrive2"}
    \/ pc[c] \in {"aTimer1", "aTimer2"} /\ ~InsideSmm
    \/ pc[c] \in {"bGather", "bSaved", "bReplaced", "bFinished", "bRestored",
                  "bCollect"} /\ ~AllAPsSignalled(c)
    \/ pc[c] \in {"aSave", "aReplace", "aLoop", "aRestore", "aReset"} /\ Run[c] = 0
    \/ pc[c] = "blocking" /\ loc[c].target \in Busy
    \/ pc[c] = "bDrain" /\ (Present \cap Busy) \ {c} # {}
    \/ pc[c] = "bPresent" /\ Cardinality(Present) <= loc[c].apCount
    \/ pc[c] = "spin" /\ AllCpusInSync

IsSyncTimerTimeout(c) == LongTimeouts => \A d \in Cpus \ {c} : Waiting(d)

(***************************************************************************)
(* Normal mode and SMI delivery.                                           *)
(***************************************************************************)
\* The platform asserts SMI#: every CPU latches one SMI.
RaiseSmi ==
    /\ smiLeft > 0
    /\ smi' = Cpus
    /\ smiLeft' = smiLeft - 1
    /\ UNCHANGED <<electVars, modeVars, mtrrVars, flagVars, cpuData, pc, loc>>

\* The CPU takes its SMI, samples ValidSmi (always TRUE on this platform) and
\* then InsideSmm.  A CPU that is blocked takes it arbitrarily late.
EnterSmi(c) ==
    /\ c \in smi
    /\ Goto(c, "normal", "checkin")
    /\ smi' = smi \ {c}
    /\ loc' = [loc EXCEPT ![c].bspInProgress = InsideSmm]
    /\ UNCHANGED <<electVars, modeVars, mtrrVars, flagVars, cpuData, smiLeft>>

(***************************************************************************)
(* SmiRendezvous                                                           *)
(***************************************************************************)
\* Signal presence; a locked Counter means the run is closed to this CPU.
CheckIn(c) ==
    /\ \/ /\ ReleaseSemaphore(Counter) = Counter
          /\ Goto(c, "checkin", "spin")
          /\ loc' = [loc EXCEPT ![c] = Idle]
          /\ UNCHANGED <<Counter, Busy>>
       \/ /\ ReleaseSemaphore(Counter) # Counter
          /\ Counter' = ReleaseSemaphore(Counter)
          /\ Busy' = Busy \ {c}
          /\ \/ /\ loc[c].bspInProgress
                /\ loc' = [loc EXCEPT ![c] = [Idle EXCEPT !.mode = EffectiveSyncMode]]
                /\ Goto(c, "checkin", "aTimer1")
             \/ /\ ~loc[c].bspInProgress
                /\ Goto(c, "checkin", "elect")
                /\ UNCHANGED loc
    /\ UNCHANGED <<slowVars, mtrrVars, InsideSmm, AllCpusInSync, Run, Present>>

\* Faulty: any CPU stands for election; nobody does while a switch is pending.
AnyoneMayElect(c) == TRUE
NobodyMayElect(c) == ~SwitchBsp
MayElect(c) == ~SwitchBsp \/ c \in CandidateBsp

Elect(c) ==
    /\ Goto(c, "elect", IF MayElect(c) THEN "cas" ELSE "role")
    /\ UNCHANGED <<slowVars, mtrrVars, flagVars, cpuData, loc>>

\* Faulty: a plain store in place of the compare-exchange.
BlindStore(c) == c
CompareExchangeBsp(c) == IF BspIndex = NoCpu THEN c ELSE BspIndex

\* PlatformSmmBspElection() returns EFI_NOT_READY: default election.
CasBsp(c) ==
    /\ Goto(c, "cas", "role")
    /\ BspIndex' = CompareExchangeBsp(c)
    /\ UNCHANGED <<modeVars, hwVars, mtrrVars, flagVars, cpuData, loc>>
    /\ UNCHANGED <<SwitchBsp, CandidateBsp, Operation>>

TakeRole(c) ==
    /\ \/ /\ BspIndex = c
          /\ Goto(c, "role", "bStart")
          /\ SwitchBsp' = FALSE
          /\ CandidateBsp' = {}
       \/ /\ BspIndex # c
          /\ Goto(c, "role", "aTimer1")
          /\ UNCHANGED <<SwitchBsp, CandidateBsp>>
    /\ loc' = [loc EXCEPT ![c].mode = EffectiveSyncMode]
    /\ UNCHANGED <<modeVars, hwVars, mtrrVars, flagVars, cpuData, BspIndex, Operation>>

\* Faulty: leave without waiting for the BSP's signal.
LeaveAnyTime == TRUE
BspSignalsExit == ~AllCpusInSync

\* Wait for the BSP's signal, run the platform exit hook, RSM.
ExitSmi(c) ==
    /\ BspSignalsExit
    /\ Goto(c, "spin", "normal")
    /\ saved' = [saved EXCEPT ![c] = "none"]
    /\ UNCHANGED <<slowVars, flagVars, cpuData, mtrr, loc>>

(***************************************************************************)
(* BSPHandler                                                              *)
(***************************************************************************)
\* Both sync conditions the code tests: is the gathering done before or after
\* the handlers?
GatherFirst(c) == loc[c].mode = "Tradition" \/ MtrrsConfigured

\* Publish InsideSmm and Present, clear the top-level SMI status.
BspStart(c) ==
    /\ CleanGiveUp => \A d \in Cpus : pc[d] # "aGiveUp"
    /\ Goto(c, "bStart", IF GatherFirst(c) THEN "bArrive1" ELSE "handler")
    /\ InsideSmm' = TRUE
    /\ Present' = Present \cup {c}
    /\ Busy' = IF GatherFirst(c) THEN Busy ELSE Busy \cup {c}
    /\ UNCHANGED <<slowVars, mtrrVars, Counter, AllCpusInSync, Run, loc>>

AllCpusInSmm == Counter = NumberOfCpus \/ Present = Cpus

\* SmmWaitForApArrival(): first wait, SMI IPIs to every CPU not Present, second
\* wait.  The program points are parameters because CheckApArrival calls it too.
FirstWait(c, from, ipi) ==
    /\ AllCpusInSmm \/ IsSyncTimerTimeout(c)
    /\ Goto(c, from, ipi)
    /\ UNCHANGED hwVars

\* Faulty: no SMI IPI to the processors outside.
NoIpis(s) == s
SendSmiIpis(s) == s \cup (Cpus \ Present)

\* Counter is unsigned: a locked counter is not below mNumberOfCpus.
BringIn(c, ipi, second, done) ==
    \/ /\ Counter \in 0 .. NumberOfCpus - 1
       /\ Goto(c, ipi, second)
       /\ smi' = SendSmiIpis(smi)
       /\ UNCHANGED smiLeft
    \/ /\ Counter \notin 0 .. NumberOfCpus - 1
       /\ Goto(c, ipi, done)
       /\ UNCHANGED hwVars

SecondWait(c, second, done) ==
    /\ AllCpusInSmm \/ IsSyncTimerTimeout(c)
    /\ Goto(c, second, done)
    /\ UNCHANGED hwVars

SmmWaitForApArrival(c) ==
    /\ \/ FirstWait(c, "bArrive1", "bIpi")
       \/ BringIn(c, "bIpi", "bArrive2", "bSync")
       \/ SecondWait(c, "bArrive2", "bSync")
    /\ UNCHANGED <<electVars, modeVars, mtrrVars, flagVars, cpuData, loc>>

\* AllCpusInSync = TRUE, before the handlers (bSync) or after them (bSyncLate).
BspSync(c) ==
    /\ Goto(c, "bSync", "bLock") \/ Goto(c, "bSyncLate", "bLockLate")
    /\ AllCpusInSync' = TRUE
    /\ UNCHANGED <<slowVars, mtrrVars, cpuData, Counter, InsideSmm, loc>>

LockdownSemaphore(v) == Locked

BspLock(c) ==
    /\ Goto(c, "bLock", "bGather") \/ Goto(c, "bLockLate", "bPresent")
    /\ loc' = [loc EXCEPT ![c].apCount = Counter - 1]
    /\ Counter' = LockdownSemaphore(Counter)
    /\ UNCHANGED <<slowVars, mtrrVars, cpuData, InsideSmm, AllCpusInSync>>

\* All APs are parked: release them to back up the MTRRs, or start the handlers.
BspGather(c) ==
    /\ AllAPsSignalled(c)
    /\ \/ /\ MtrrsConfigured
          /\ Goto(c, "bGather", "bSave")
          /\ Run' = ReleaseAllAPs(WaitForAllAPs(c))
          /\ UNCHANGED Busy
       \/ /\ ~MtrrsConfigured
          /\ Goto(c, "bGather", "handler")
          /\ Run' = WaitForAllAPs(c)
          /\ Busy' = Busy \cup {c}
    /\ UNCHANGED <<slowVars, mtrrVars, flagVars, Present, loc>>

MtrrGetAllMtrrs(c) == saved' = [saved EXCEPT ![c] = mtrr[CoreOf[c]]]
ReplaceOSMtrrs(c) == mtrr' = [mtrr EXCEPT ![CoreOf[c]] = "smm"]
MtrrSetAllMtrrs(c) == mtrr' = [mtrr EXCEPT ![CoreOf[c]] = saved[c]]

BspSave(c) ==
    /\ Goto(c, "bSave", "bSaved")
    /\ MtrrGetAllMtrrs(c)
    /\ UNCHANGED <<slowVars, flagVars, cpuData, mtrr, loc>>

\* Faulty: program the MTRRs without waiting for the APs' backups.
DontWait(c) == TRUE
AllBackedUp(c) == AllAPsSignalled(c)

BspSaved(c) ==
    /\ AllBackedUp(c)
    /\ Goto(c, "bSaved", "bReplace")
    /\ Run' = ReleaseAllAPs(WaitForAllAPs(c))
    /\ UNCHANGED <<slowVars, mtrrVars, flagVars, Present, Busy, loc>>

BspReplace(c) ==
    /\ Goto(c, "bReplace", "bReplaced")
    /\ ReplaceOSMtrrs(c)
    /\ UNCHANGED <<slowVars, flagVars, cpuData, saved, loc>>

AllReplaced(c) == AllAPsSignalled(c)

BspReplaced(c) ==
    /\ AllReplaced(c)
    /\ Goto(c, "bReplaced", "handler")
    /\ Run' = WaitForAllAPs(c)
    /\ Busy' = Busy \cup {c}
    /\ UNCHANGED <<slowVars, mtrrVars, flagVars, Present, loc>>

(***************************************************************************)
(* The SMI handlers: SmmCoreEntry() and the services they may call.        *)
(***************************************************************************)
\* Faulty: a busy AP is handed a second procedure.
AcceptBusy(c, a) == a \in Present \ {c}
ApIsFree(c, a) == a \in Present \ ({c} \cup Busy)

\* Schedule a procedure on AP a and go on (SmmStartupThisAp) or wait for its end
\* (SmmBlockingStartupThisAp).  Every failing check returns with no effect.
SmmStartupThisAp(c, a) ==
    /\ ApIsFree(c, a)
    /\ \/ Goto(c, "handler", "handler") /\ UNCHANGED loc
       \/ /\ Goto(c, "handler", "blocking")
          /\ loc' = [loc EXCEPT ![c].target = a]
    /\ Busy' = Busy \cup {a}
    /\ Run' = [Run EXCEPT ![a] = ReleaseSemaphore(@)]
    /\ UNCHANGED <<slowVars, mtrrVars, flagVars, Present>>

BlockingDone(c) ==
    /\ loc[c].target \notin Busy
    /\ Goto(c, "blocking", "handler")
    /\ loc' = [loc EXCEPT ![c].target = NoCpu]
    /\ UNCHANGED <<slowVars, mtrrVars, flagVars, cpuData>>

\* Faulty: no range check; the mode takes effect at once.
AnyMode(m) == TRUE
ModeAtOnce(m) == m
ValidMode(m) == m \in Modes
ModeInEffect(m) == EffectiveSyncMode

SmmSyncSetMode(c, m) ==
    /\ pc[c] = "handler"
    /\ ValidMode(m)
    /\ SyncModeToBeSet' = m
    /\ EffectiveSyncMode' = ModeInEffect(m)
    /\ UNCHANGED <<pc, electVars, hwVars, mtrrVars, flagVars, cpuData, loc>>

\* CurrentlyExecutingCpu is the BSP and cannot be switched to.
SmmSwitchBsp(c, p) ==
    /\ pc[c] = "handler"
    /\ p \notin Operation \cup {c}
    /\ Operation' = Operation \cup {p}
    /\ UNCHANGED <<pc, modeVars, hwVars, mtrrVars, flagVars, cpuData, loc>>
    /\ UNCHANGED <<BspIndex, SwitchBsp, CandidateBsp>>

SmmCpuSync2SendSmi(c, targets) ==
    /\ pc[c] = "handler"
    /\ smiLeft > 0
    /\ smi' = smi \cup targets
    /\ smiLeft' = smiLeft - 1
    /\ UNCHANGED <<electVars, modeVars, mtrrVars, flagVars, cpuData, pc, loc>>

\* SmmCpuSyncCheckApArrivalWorker(); its result is cReady or cNotReady.
\* Faulty: success after the second timeout, whoever is missing.
AlwaysReady == "cReady"
CheckResult == IF AllCpusInSmm THEN "cReady" ELSE "cNotReady"
SmmCpuSyncCheckApArrival(c) ==
    /\ \/ /\ Goto(c, "handler",
                  IF Counter = NumberOfCpus THEN "cReady" ELSE "cArrive1")
          /\ UNCHANGED hwVars
       \/ FirstWait(c, "cArrive1", "cIpi")
       \/ BringIn(c, "cIpi", "cArrive2", CheckResult)
       \/ SecondWait(c, "cArrive2", CheckResult)
       \/ /\ Goto(c, "cReady", "handler") \/ Goto(c, "cNotReady", "handler")
          /\ UNCHANGED hwVars
    /\ UNCHANGED <<electVars, modeVars, mtrrVars, flagVars, cpuData, loc>>

HandlerReturns(c) ==
    /\ Goto(c, "handler", "bDrain")
    /\ UNCHANGED <<slowVars, mtrrVars, flagVars, cpuData, loc>>

(***************************************************************************)
(* BSPHandler, after the handlers.                                         *)
(***************************************************************************)
\* Faulty: do not wait for the procedures still running on APs.
DontDrain(c) == TRUE
Drained(c) == (Present \cap Busy) \ {c} = {}

\* Each Present AP's Busy lock is taken and given back, then ClearSmi().
BspDrain(c) ==
    /\ Drained(c)
    /\ Goto(c, "bDrain", IF GatherFirst(c) THEN "bLeave" ELSE "bSyncLate")
    /\ UNCHANGED <<slowVars, mtrrVars, flagVars, cpuData, loc>>

AllPresent(c) == loc[c].apCount \in 0 .. Cardinality(Present) - 1

BspPresent(c) ==
    /\ AllPresent(c)
    /\ Goto(c, "bPresent", "bLeave")
    /\ UNCHANGED <<slowVars, mtrrVars, flagVars, cpuData, loc>>

BspLeave(c) ==
    /\ Goto(c, "bLeave", "bNotify")
    /\ InsideSmm' = FALSE
    /\ UNCHANGED <<slowVars, mtrrVars, cpuData, Counter, AllCpusInSync, loc>>

BspNotify(c) ==
    /\ Goto(c, "bNotify", "bFinished")
    /\ Run' = ReleaseAllAPs(Run)
    /\ UNCHANGED <<slowVars, mtrrVars, flagVars, Present, Busy, loc>>

\* SmmCpuUpdate(): pending BSP switches become candidates of the next SMI.
SmmCpuUpdate ==
    /\ SwitchBsp' = (SwitchBsp \/ Operation # {})
    /\ CandidateBsp' = CandidateBsp \cup Operation
    /\ Operation' = {}

\* The last ReleaseAllAPs(), SmmCpuUpdate() and the BSP's own Present flag.
SignalReset(c, from) ==
    /\ Goto(c, from, "bCollect")
    /\ Run' = ReleaseAllAPs(WaitForAllAPs(c))
    /\ SmmCpuUpdate
    /\ Present' = Present \ {c}

BspFinished(c) ==
    /\ AllAPsSignalled(c)
    /\ EffectiveSyncMode' = SyncModeToBeSet
    /\ \/ /\ MtrrsConfigured
          /\ Goto(c, "bFinished", "bRestore")
          /\ Run' = ReleaseAllAPs(WaitForAllAPs(c))
          /\ UNCHANGED <<SwitchBsp, CandidateBsp, Operation, Present>>
       \/ ~MtrrsConfigured /\ SignalReset(c, "bFinished")
    /\ UNCHANGED <<hwVars, mtrrVars, flagVars, BspIndex, SyncModeToBeSet, Busy, loc>>

BspRestore(c) ==
    /\ Goto(c, "bRestore", "bRestored")
    /\ MtrrSetAllMtrrs(c)
    /\ UNCHANGED <<slowVars, flagVars, cpuData, saved, loc>>

BspRestored(c) ==
    /\ AllAPsSignalled(c)
    /\ SignalReset(c, "bRestored")
    /\ UNCHANGED <<modeVars, hwVars, mtrrVars, flagVars, BspIndex, Busy, loc>>

AllReset(c) == AllAPsSignalled(c)

BspCollect(c) ==
    /\ AllReset(c)
    /\ Goto(c, "bCollect", "bUnelect")
    /\ Run' = WaitForAllAPs(c)
    /\ UNCHANGED <<slowVars, mtrrVars, flagVars, Present, Busy, loc>>

BspUnelect(c) ==
    /\ Goto(c, "bUnelect", "bReopen")
    /\ BspIndex' = NoCpu
    /\ UNCHANGED <<modeVars, hwVars, mtrrVars, flagVars, cpuData, loc>>
    /\ UNCHANGED <<SwitchBsp, CandidateBsp, Operation>>

BspReopen(c) ==
    /\ Goto(c, "bReopen", "bUnsync")
    /\ Counter' = 0
    /\ UNCHANGED <<slowVars, mtrrVars, cpuData, InsideSmm, AllCpusInSync, loc>>

BspUnsync(c) ==
    /\ Goto(c, "bUnsync", "spin")
    /\ AllCpusInSync' = FALSE
    /\ loc' = [loc EXCEPT ![c] = Idle]
    /\ UNCHANGED <<slowVars, mtrrVars, cpuData, Counter, InsideSmm>>

(***************************************************************************)
(* APHandler                                                               *)
(***************************************************************************)
\* Either wait ends with the BSP inside SMM ...
ApSeesBsp(c) ==
    /\ InsideSmm
    /\ Goto(c, "aTimer1", "aEnter") \/ Goto(c, "aTimer2", "aEnter")
    /\ UNCHANGED <<slowVars, mtrrVars, flagVars, cpuData, loc>>

\* ... or with a timeout: call a known BSP in once, then give up.
ApTimeout(c) ==
    /\ ~InsideSmm
    /\ IsSyncTimerTimeout(c)
    /\ \/ /\ BspIndex # NoCpu
          /\ Goto(c, "aTimer1", "aTimer2")
          /\ smi' = smi \cup {BspIndex}
       \/ /\ BspIndex = NoCpu
          /\ Goto(c, "aTimer1", "aGiveUp")
          /\ UNCHANGED smi
       \/ /\ Goto(c, "aTimer2", "aGiveUp")
          /\ UNCHANGED smi
    /\ UNCHANGED <<electVars, modeVars, mtrrVars, flagVars, cpuData, smiLeft, loc>>

\* Faulty: the AP leaves without taking its check-in back.
KeepCounted(v) == v
TakeBack(v) == WaitForSemaphore(v)

ApGiveUp(c) ==
    /\ Counter # 0
    /\ Goto(c, "aGiveUp", "spin")
    /\ Counter' = TakeBack(Counter)
    /\ loc' = [loc EXCEPT ![c] = Idle]
    /\ UNCHANGED <<slowVars, mtrrVars, cpuData, InsideSmm, AllCpusInSync>>

\* Mark presence and, where the BSP gathers first, notify it of the arrival.
ApEnter(c) ==
    /\ BspIndex \in Cpus
    /\ Present' = Present \cup {c}
    /\ loc' = [loc EXCEPT ![c].bsp = BspIndex]
    /\ Run' = [Run EXCEPT ![BspIndex] = IF GatherFirst(c) THEN ReleaseSemaphore(@) ELSE @]
    /\ Goto(c, "aEnter", IF MtrrsConfigured THEN "aSave" ELSE "aLoop")
    /\ UNCHANGED <<slowVars, mtrrVars, flagVars, Busy>>

\* Wait for the BSP's signal on the AP's own Run and answer on the BSP's.
Handshake(c) ==
    /\ Run[c] # 0
    /\ Run' = [d \in Cpus |->
                CASE d = c          -> WaitForSemaphore(Run[d])
                  [] d = loc[c].bsp -> ReleaseSemaphore(Run[d])
                  [] OTHER          -> Run[d]]

ApSave(c) ==
    /\ Goto(c, "aSave", "aReplace")
    /\ Handshake(c)
    /\ MtrrGetAllMtrrs(c)
    /\ UNCHANGED <<slowVars, flagVars, mtrr, Present, Busy, loc>>

ApReplace(c) ==
    /\ Goto(c, "aReplace", "aLoop")
    /\ Handshake(c)
    /\ ReplaceOSMtrrs(c)
    /\ UNCHANGED <<slowVars, flagVars, saved, Present, Busy, loc>>

\* Woken up to run a procedure, or to leave SMM.
ApWake(c) ==
    /\ \/ /\ InsideSmm
          /\ Run[c] # 0
          /\ Run' = [Run EXCEPT ![c] = WaitForSemaphore(@)]
          /\ Goto(c, "aLoop", "aProc")
       \/ /\ ~InsideSmm
          /\ pc[c] = "aLoop"
          /\ Handshake(c)
          /\ Goto(c, "aLoop", IF MtrrsConfigured THEN "aRestore" ELSE "aReset")
    /\ UNCHANGED <<slowVars, mtrrVars, flagVars, Present, Busy, loc>>

ApProcedureDone(c) ==
    /\ Goto(c, "aProc", "aLoop")
    /\ Busy' = Busy \ {c}
    /\ UNCHANGED <<slowVars, mtrrVars, flagVars, Run, Present, loc>>

ApRestore(c) ==
    /\ Goto(c, "aRestore", "aReset")
    /\ Handshake(c)
    /\ MtrrSetAllMtrrs(c)
    /\ UNCHANGED <<slowVars, flagVars, saved, Present, Busy, loc>>

ApReset(c) ==
    /\ Goto(c, "aReset", "spin")
    /\ Handshake(c)
    /\ Present' = Present \ {c}
    /\ loc' = [loc EXCEPT ![c] = Idle]
    /\ UNCHANGED <<slowVars, mtrrVars, flagVars, Busy>>

(***************************************************************************)
(* The specification.                                                      *)
(***************************************************************************)
SmiRendezvous(c) ==
    EnterSmi(c) \/ CheckIn(c) \/ Elect(c) \/ CasBsp(c) \/ TakeRole(c) \/ ExitSmi(c)

BSPHandler(c) ==
    \/ BspStart(c) \/ SmmWaitForApArrival(c) \/ BspSync(c) \/ BspLock(c)
    \/ BspGather(c) \/ BspSave(c) \/ BspSaved(c) \/ BspReplace(c) \/ BspReplaced(c)
    \/ BspDrain(c) \/ BspPresent(c) \/ BspLeave(c) \/ BspNotify(c)
    \/ BspFinished(c) \/ BspRestore(c) \/ BspRestored(c) \/ BspCollect(c)
    \/ BspUnelect(c) \/ BspReopen(c) \/ BspUnsync(c)

APHandler(c) ==
    \/ ApSeesBsp(c) \/ ApTimeout(c) \/ ApGiveUp(c) \/ ApEnter(c) \/ ApSave(c)
    \/ ApReplace(c) \/ ApWake(c) \/ ApProcedureDone(c) \/ ApRestore(c) \/ ApReset(c)

SmmHandlers(c) ==
    \/ \E a \in Cpus : SmmStartupThisAp(c, a)
    \/ BlockingDone(c)
    \/ \E m \in Modes \cup {"Max"} : SmmSyncSetMode(c, m)
    \/ \E p \in Cpus : SmmSwitchBsp(c, p)
    \/ SmmCpuSync2SendSmi(c, Cpus \ {c})
    \/ \E t \in Cpus : SmmCpuSync2SendSmi(c, {t})
    \/ SmmCpuSyncCheckApArrival(c)
    \/ HandlerReturns(c)

Next ==
    \/ RaiseSmi
    \/ \E c \in Cpus : SmiRendezvous(c) \/ BSPHandler(c) \/ APHandler(c) \/ SmmHandlers(c)

Spec == Init /\ [][Next]_vars

\* Scheduling: a CPU in SMM keeps executing; a latched SMI is taken in the end;
\* handlers and procedures return.  Loops inside the handlers may repeat, so
\* their return needs strong fairness.
Fairness ==
    \A c \in Cpus :
        /\ WF_vars(SmiRendezvous(c))
        /\ WF_vars(BSPHandler(c))
        /\ WF_vars(APHandler(c))
        /\ WF_vars(BlockingDone(c) \/ (pc[c] # "handler" /\ SmmCpuSyncCheckApArrival(c)))
        /\ SF_vars(HandlerReturns(c))
FairSpec == Spec /\ Fairness

(***************************************************************************)
(* Properties.                                                             *)
(***************************************************************************)
Locals == [bspInProgress : BOOLEAN, bsp : Cpus \cup {NoCpu}, mode : Modes,
           apCount : Int, target : Cpus \cup {NoCpu}]

\* The variables hold values of their C types; strings name program points.
TypeOK ==
    /\ pc \in [Cpus -> Pcs]
    /\ smi \subseteq Cpus
    /\ smiLeft \in Nat
    /\ mtrr \in [Cores -> {"none", "os", "smm"}]
    /\ saved \in [Cpus -> {"none", "os", "smm"}]
    /\ Counter \in Int
    /\ InsideSmm \in BOOLEAN
    /\ AllCpusInSync \in BOOLEAN
    /\ BspIndex \in Cpus \cup {NoCpu}
    /\ SwitchBsp \in BOOLEAN
    /\ CandidateBsp \subseteq Cpus
    /\ EffectiveSyncMode \in Modes
    /\ SyncModeToBeSet \in Modes
    /\ Run \in [Cpus -> Int]
    /\ Present \subseteq Cpus
    /\ Busy \subseteq Cpus
    /\ Operation \subseteq Cpus
    /\ loc \in [Cpus -> Locals]

\* CPUs that checked in and were neither refused nor have given up.
Joined == {c \in Cpus : pc[c] \in (EntryPcs \ {"checkin"}) \cup BspPcs \cup ApPcs}
LockedPcs == {"bGather", "bSave", "bSaved", "bReplace", "bReplaced", "bPresent",
              "bNotify", "bFinished", "bRestore", "bRestored", "bCollect",
              "bUnelect", "bReopen"}

\* At most one CPU at a time runs BSPHandler, from its election until it gives
\* BspIndex back, and it is the CPU BspIndex names (the ASSERT that opens
\* BSPHandler, and the CurrentlyExecutingCpu the services compare with).
SingleBsp == \A c \in Cpus : pc[c] \in BspPcs => BspIndex = c

\* An AP that joins finds a BSP other than itself, so the CpuData[BspIndex] it is
\* about to signal is the BSP's: a CPU that arrives as the run ends was refused by
\* the locked Counter (the ASSERT before Present is set in APHandler).
ApFindsBsp == \A c \in Cpus : pc[c] = "aEnter" => BspIndex \in Cpus \ {c}

\* Once LockdownSemaphore() has closed the run, Counter stays (UINT32)-1 until the
\* BSP reopens it: late CPUs are refused and no AP takes a check-in back from a
\* BSP that already waits for it.
LockHolds == \A c \in Cpus : pc[c] \in LockedPcs => Counter = Locked

\* The number of APs the BSP took from Counter is the number of CPUs still in this
\* run, so every WaitForAllAPs(ApCount) waits for CPUs that will answer.
ApCountIsExact ==
    \A b \in Cpus : pc[b] \in {"bGather", "bSave", "bSaved", "bReplace", "bReplaced",
                               "bPresent", "bNotify"}
        => Cardinality(Joined) = loc[b].apCount + 1

\* While SMI handlers run after a gathering, a CPU outside SMM has an SMI latched
\* and so executes no normal-mode code: what SmmWaitForApArrival() is for.
NoNormalModeCode ==
    \A b \in Cpus : pc[b] \in HandlerPcs /\ GatherFirst(b)
        => \A c \in Cpus : pc[c] = "normal" => c \in smi

\* CheckApArrival() answers EFI_SUCCESS only when no AP will execute normal-mode
\* code before it enters SMM.
ReadyMeansAllIn ==
    \A b \in Cpus : pc[b] = "cReady"
        => \A c \in Cpus : pc[c] = "normal" => c \in smi

\* No CPU goes through PlatformSmmExitProcessing(), which clears SMM_BWP for the
\* whole chipset, while the handlers of a gathered run are at work.
QuietExit ==
    [][(\E c \in Cpus : pc[c] = "spin" /\ pc'[c] = "normal")
         => ~ \E b \in Cpus : pc[b] \in HandlerPcs /\ GatherFirst(b)]_vars

\* The MTRRs a CPU backs up are the OS's even when an HT sibling shares them: no
\* CPU programs SMM MTRRs before every CPU of the run has its backup.
BackupIsOs == \A c \in Cpus : saved[c] # "smm"

\* Handlers and scheduled procedures run only with SMM MTRRs on every core that
\* takes part in the run.
HandlersSeeSmmMtrrs ==
    MtrrsConfigured =>
        \A b \in Cpus : pc[b] \in HandlerPcs \cup {"aProc"}
            => \A c \in Present : mtrr[CoreOf[c]] = "smm"

\* A CPU that executes normal-mode code has the OS's MTRRs.
OsSeesOsMtrrs ==
    \A c \in Cpus : pc[c] = "normal" /\ c \notin smi => mtrr[CoreOf[c]] = "os"

\* The rendezvous implements SmiRun: one owner of the handlers, which schedules at
\* most one procedure per AP (SmmStartupThisAp and the Busy locks) and ends its run
\* only when all of them have finished (the drain loop of BSPHandler).
OwnerPcs == HandlerPcs \cup {"bDrain"}
Owner == IF \E c \in Cpus : pc[c] \in OwnerPcs
         THEN CHOOSE c \in Cpus : pc[c] \in OwnerPcs
         ELSE NoCpu
Promise == INSTANCE SmiRun WITH owner <- Owner,
               tasks <- {a \in Busy : pc[a] \in {"aLoop", "aProc"}}
KeepsPromise == Promise!Spec

\* ASSERT (Run == 0) at the end of SmiRendezvous(): every signal of a run was
\* consumed in it, so none is left to release an AP early in the next one.
RunIsZeroOutside ==
    \A c \in Cpus : pc[c] \in {"normal", "checkin", "spin"} => Run[c] = 0

\* All CPUs of a run follow the same sync mode although each reads
\* EffectiveSyncMode at a different time.
ModeAgreement ==
    \A b, c \in Cpus : pc[b] \in BspPcs /\ c \in Present => loc[c].mode = loc[b].mode

\* After SmmSwitchBsp() only a candidate is elected, although SwitchBsp is tested
\* before the compare-exchange.
SwitchHonoured ==
    \A c \in Cpus : pc[c] = "role" /\ BspIndex = c /\ SwitchBsp => c \in CandidateBsp

\* Every CPU that enters SMM leaves it again.
EveryoneLeaves == \A c \in Cpus : pc[c] # "normal" ~> pc[c] = "normal"

\* An SMI raised with all CPUs in normal mode is served by the handlers, a pending
\* BSP switch or a late candidate notwithstanding.
SmiServed ==
    (smi = Cpus /\ \A c \in Cpus : pc[c] = "normal") ~> (\E c \in Cpus : pc[c] = "handler")

=============================================================================
