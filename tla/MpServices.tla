------------------------------ MODULE MpServices ------------------------------
(***************************************************************************)
(* The MP services protocol of IA32FamilyCpuBasePkg/CpuMpDxe.  The BSP     *)
(* hands procedures to application processors, by INIT-SIPI-SIPI, and      *)
(* learns from CpuData[].State when they are done: in the calling thread   *)
(* ("main") for a blocking call, and from the 10 ms timer notification     *)
(* CheckAPsStatus ("cb"), which preempts the calling thread, otherwise.    *)
(*                                                                         *)
(* APs wait in the HLT loop (PcdCpuApLoopMode = 1), so the monitor words   *)
(* are unused.  A procedure is the number of the request it belongs to.    *)
(* A reading of the performance counter is the ticks since the last one.   *)
(***************************************************************************)
EXTENDS Integers, Sequences, FiniteSets, FiniteSetsExt

CONSTANTS
    NumberOfProcessors,
    MaxRequests,    \* bound: accepted StartupAllAPs() and StartupThisAP()
    MaxChanges,     \* bound: SwitchBSP() and EnableDisableAP() calls
    AllCalls,       \* the arguments StartupAllAPs() is called with
    ThisCalls,      \* the arguments StartupThisAP() is called with
    MaxDelta,       \* bound: ticks between two readings of the counter
    CarefulCallers, \* callers keep to the discipline stated at its uses
    PromptAPs       \* an AP reads mApFunction before the BSP changes it

ASSUME ProcessorsAssumption == NumberOfProcessors \in Nat \ {0}
ASSUME BoundsAssumption ==
    /\ MaxRequests \in Nat
    /\ MaxChanges \in Nat
    /\ AllCalls \subseteq [single : BOOLEAN, wait : BOOLEAN, limit : Nat]
    /\ ThisCalls \subseteq [wait : BOOLEAN, limit : Nat]
    /\ IsFiniteSet(AllCalls) /\ IsFiniteSet(ThisCalls)
    /\ MaxDelta \in Nat \ {0}
    /\ CarefulCallers \in BOOLEAN
    /\ PromptAPs \in BOOLEAN

Cpus == 0 .. NumberOfProcessors - 1
Requests == 1 .. MaxRequests
NULL == 0
FutureBSPProc == MaxRequests + 1
\* A limit of 0 is infinity; times beyond every limit are all alike.
TimeCap == 1 + Max({c.limit : c \in AllCalls \cup ThisCalls} \cup {0})

CpuStates == {"Idle", "Ready", "Busy", "Finished", "Disabled"}
Statuses == {"open", "SUCCESS", "TIMEOUT"}
Frames == {"main", "cb"}

VARIABLES
    State, Procedure,      \* CpuData[]
    Clock,          \* CpuData[].{WaitEvent, ExpectedTime, TotalTime} and the
                    \* time since the call
    all,            \* the fields of mMPSystemData for StartupAllAPs()
    mStopCheckAPsStatus, mApFunction,
    BspNumber,
    bspCpu,         \* the processor that executes the BSP's threads
    BSPInfo, APInfo,    \* the switch states of AsmExchangeRole
    apPc, apProc,   \* each AP's place in the start-up code and ApProcWrapper
    apCtx,          \* the ProcessorNumber on the stack the AP runs on
    pc, cur,        \* each BSP thread's place and processor number
    arg,            \* the main thread's request and its arguments, or the
                    \* arguments of SwitchBSP()
    req,            \* the accepted requests and how they ended
    changes

cpuData == <<State, Procedure, Clock>>
apVars == <<apPc, apProc, apCtx>>
swVars == <<BspNumber, bspCpu, BSPInfo, APInfo>>
bspVars == <<pc, cur, arg>>
vars == <<cpuData, all, mStopCheckAPsStatus, mApFunction, swVars, apVars,
          bspVars, req, changes>>

ApPlaces == {"bsp", "bspStored", "bspLoaded", "hlt", "boot", "wrap",
             "proc", "stored", "loaded", "clear", "fin"}
MainPlaces == {"ready", "wake", "save", "all", "allEnd", "allInit", "allIdle",
               "this", "thisTime", "thisIdle", "exchange", "switched",
               "exitWait", "exited"}
CbPlaces == {"off", "all", "allEnd", "allInit", "allIdle",
             "scan", "this", "thisTime", "thisIdle"}

NoClock == [WaitEvent |-> NULL, ExpectedTime |-> 0, age |-> 0,
            TotalTime |-> 0]

NoArg == [req |-> NULL, single |-> FALSE, wait |-> FALSE, limit |-> 0,
          exit |-> FALSE, cpu |-> 0, enable |-> FALSE]

\* PrepareMemoryForConfiguration() and the driver's zero-initialised globals.
Init ==
    /\ State = [p \in Cpus |-> "Idle"]
    /\ Procedure = [p \in Cpus |-> NULL]
    /\ Clock = [p \in Cpus |-> NoClock]
    /\ all = [CpuList |-> {}, StartCount |-> 0, FinishCount |-> 0,
              SingleThread |-> FALSE, Procedure |-> NULL, Clock |-> NoClock]
    /\ mStopCheckAPsStatus = FALSE
    /\ mApFunction = "NULL"
    /\ BspNumber = 0
    /\ bspCpu = 0
    /\ BSPInfo = "IDLE"
    /\ APInfo = "IDLE"
    /\ apPc = [p \in Cpus |-> IF p = 0 THEN "bsp" ELSE "hlt"]
    /\ apProc = [p \in Cpus |-> NULL]
    /\ apCtx = [p \in Cpus |-> p]
    /\ pc = [f \in Frames |-> IF f = "main" THEN "ready" ELSE "off"]
    /\ cur = [f \in Frames |-> 0]
    /\ arg = NoArg
    /\ req = << >>
    /\ changes = 0

(***************************************************************************)
(* The two threads of the BSP.  The notification runs to its end before    *)
(* the calling thread goes on.                                             *)
(***************************************************************************)
Runs(f) == f = "cb" \/ pc["cb"] = "off"
At(f, place) == pc[f] = place /\ Runs(f)
Goto(f, place) == pc' = [pc EXCEPT ![f] = place]
GotoAt(f, place, p) == Goto(f, place) /\ cur' = [cur EXCEPT ![f] = p]

\* SendInitSipiSipiIpis() stores mApFunction and restarts the processor.  The
\* AP has run for 200 us when it returns.
SendInitSipiSipi(p, function) ==
    /\ PromptAPs => \A q \in Cpus : apPc[q] # "boot"
    /\ mApFunction' = function
    /\ apPc' = [apPc EXCEPT ![p] = "boot"]
    /\ apProc' = [apProc EXCEPT ![p] = NULL]
    /\ apCtx' = [apCtx EXCEPT ![p] = p]

\* WakeUpAp(), with the processor's new State.
WakeUpAp(p, procedure, state) ==
    /\ Procedure' = [Procedure EXCEPT ![p] = procedure]
    /\ State' = state
    /\ SendInitSipiSipi(p, "ApProcWrapper")

\* The INIT of ResetProcessorToIdleState().
LeaveRunning(p) == UNCHANGED <<mApFunction, apVars>>
AbortAp(p) == SendInitSipiSipi(p, "NULL")

ReadyStateOmitted(p) == State
ReadyState(p) == [State EXCEPT ![p] = "Ready"]

\* CalculateTimeout()
StartClock(clock, event, limit) ==
    [clock EXCEPT !.WaitEvent = event, !.ExpectedTime = limit]

\* Once its call has ended, only TotalTime of a clock is read again.
StopClock(clock) == [NoClock EXCEPT !.TotalTime = clock.TotalTime]

\* CheckTimeout(), delta ticks after the last reading: TotalTime goes on from
\* its last value.
ReadClock(clock, delta) ==
    IF clock.ExpectedTime = 0 THEN clock
    ELSE [clock EXCEPT !.TotalTime = Min({@ + delta, TimeCap}),
                       !.age = Min({@ + delta, TimeCap})]
Expired(clock) == clock.ExpectedTime # 0 /\ clock.TotalTime > clock.ExpectedTime

(***************************************************************************)
(* StartupAllAPs().                                                        *)
(***************************************************************************)
EnabledAPs == {p \in Cpus \ {BspNumber} : State[p] # "Disabled"}
BusyAPs == {p \in EnabledAPs : State[p] # "Idle"}
Pending == \/ all.Clock.WaitEvent # NULL
           \/ \E p \in Cpus : Clock[p].WaitEvent # NULL

NewRequest(cpus, single, limit) ==
    [cpus |-> cpus, single |-> single, limit |-> limit, status |-> "open",
     done |-> {}, failed |-> {}, early |-> FALSE]

\* Some enabled AP is not idle: EFI_NOT_READY, with CpuList rewritten up to it.
StartupAllAPsNotReady ==
    /\ At("main", "ready")
    /\ BusyAPs # {}
    /\ CarefulCallers => all.Clock.WaitEvent = NULL
    /\ all' = [all EXCEPT !.CpuList =
                 {p \in @ : p > Min(BusyAPs)} \cup
                 {p \in EnabledAPs : p < Min(BusyAPs)}]
    /\ UNCHANGED <<cpuData, mStopCheckAPsStatus, mApFunction, swVars, apVars,
                   bspVars, req, changes>>

OldFinishCount ==
    [all EXCEPT !.CpuList = EnabledAPs, !.StartCount = Cardinality(EnabledAPs)]
NewCount ==
    [all EXCEPT !.CpuList = EnabledAPs, !.FinishCount = 0,
                !.StartCount = Cardinality(EnabledAPs)]

\* The call up to the loop that wakes the APs.  Without an AP the call ends
\* with EFI_SUCCESS or EFI_NOT_STARTED and no request.
StartupAllAPs(single, wait, limit, exit) ==
    /\ BusyAPs = {}
    /\ all' = NewCount
    /\ \/ /\ EnabledAPs = {}
          /\ Goto("main", IF exit THEN "exited" ELSE "ready")
          /\ UNCHANGED <<cur, arg, req, mStopCheckAPsStatus>>
       \/ /\ EnabledAPs # {}
          /\ Len(req) < MaxRequests
          /\ mStopCheckAPsStatus' = TRUE
          /\ req' = Append(req, NewRequest(EnabledAPs, single, limit))
          /\ arg' = [arg EXCEPT !.req = Len(req) + 1, !.single = single,
                                !.wait = wait, !.limit = limit, !.exit = exit]
          /\ GotoAt("main", "wake", 0)
    /\ UNCHANGED <<cpuData, mApFunction, swVars, apVars, changes>>

CallStartupAllAPs ==
    /\ At("main", "ready")
    /\ CarefulCallers => all.Clock.WaitEvent = NULL
    /\ \E c \in AllCalls : StartupAllAPs(c.single, c.wait, c.limit, FALSE)

\* In single thread mode only the first AP is woken.
NobodyWaits(p) == FALSE
WaitsItsTurn(p) == arg.single /\ p # Min(all.CpuList)

\* One turn of the loop that wakes the APs.
WakeNext ==
    /\ At("main", "wake")
    /\ LET rest == {p \in all.CpuList : p >= cur["main"]}
           p == Min(rest)
       IN  /\ rest # {}
           /\ IF WaitsItsTurn(p)
              THEN State' = ReadyState(p) /\ UNCHANGED <<Procedure, mApFunction, apVars>>
              ELSE WakeUpAp(p, arg.req, ReadyState(p))
           /\ IF p = Max(all.CpuList) THEN GotoAt("main", "save", 0)
              ELSE GotoAt("main", "wake", p + 1)
    /\ UNCHANGED <<Clock, all, mStopCheckAPsStatus, swVars, arg,
                   req, changes>>

\* The rest of the call: the data for CheckAPsStatus(), then return or poll.
SaveRequest ==
    /\ At("main", "save")
    /\ all' = [all EXCEPT !.SingleThread = arg.single, !.Procedure = arg.req,
                 !.Clock = StartClock(@, IF arg.wait THEN arg.req ELSE NULL, arg.limit)]
    /\ mStopCheckAPsStatus' = FALSE
    /\ Goto("main", IF arg.wait THEN "ready" ELSE "all")
    /\ arg' = IF arg.wait THEN NoArg ELSE arg
    /\ UNCHANGED <<cpuData, mApFunction, swVars, apVars, cur, req,
                   changes>>

(***************************************************************************)
(* StartupThisAP(), with CheckAPsStatus() suppressed throughout.           *)
(***************************************************************************)
StartupThisAP(p, wait, limit) ==
    /\ At("main", "ready")
    /\ p # BspNumber
    /\ State[p] = "Idle"
    /\ Len(req) < MaxRequests
    /\ WakeUpAp(p, Len(req) + 1, ReadyState(p))
    /\ Clock' = [Clock EXCEPT ![p] =
                   StartClock(@, IF wait THEN Len(req) + 1 ELSE NULL, limit)]
    /\ req' = Append(req, NewRequest({p}, FALSE, limit))
    /\ IF wait THEN UNCHANGED <<pc, cur, arg>>
       ELSE /\ GotoAt("main", "this", p)
            /\ arg' = [NoArg EXCEPT !.req = Len(req) + 1]
    /\ UNCHANGED <<all, mStopCheckAPsStatus, swVars,
                   changes>>

(***************************************************************************)
(* CheckAllAPs(), by the main thread for a blocking call and by            *)
(* CheckAPsStatus() for a pending one.                                     *)
(***************************************************************************)
\* A call ends; early records a time-out before the limit had passed.
Ended(r, status, failed, clock) ==
    [req EXCEPT ![r] = [@ EXCEPT !.status = status, !.failed = failed,
                          !.early = status = "TIMEOUT" /\ clock.age <= clock.ExpectedTime]]

\* The main thread is back in its caller.
MainReturns ==
    /\ pc' = [pc EXCEPT !["main"] = IF arg.exit THEN "exited" ELSE "ready"]
    /\ cur' = [cur EXCEPT !["main"] = 0]
    /\ arg' = NoArg

AllRequest(f) == IF f = "main" THEN arg.req ELSE all.Clock.WaitEvent

\* CheckAllAPs() returns EFI_SUCCESS or EFI_TIMEOUT, the request's event is
\* signalled.
AllReturns(f, status) ==
    /\ all' = [all EXCEPT !.Clock = StopClock(@)]
    /\ req' = Ended(AllRequest(f), status, req[AllRequest(f)].failed, all.Clock)
    /\ IF f = "main" THEN MainReturns
       ELSE GotoAt(f, "scan", 0) /\ UNCHANGED arg

\* The state of one AP of the request.
CheckAllOne(f) ==
    /\ At(f, "all")
    /\ LET rest == {p \in all.CpuList : p >= cur[f]}
           p == Min(rest)
           waiting == all.CpuList \ {p}
           idle == [State EXCEPT ![p] = "Idle"]
       IN  /\ rest # {}
           /\ GotoAt(f, IF p = Max(rest) THEN "allEnd" ELSE "all", p + 1)
           /\ \/ /\ State[p] = "Finished"
                 /\ all' = [all EXCEPT !.FinishCount = @ + 1, !.CpuList = waiting]
                 /\ IF all.SingleThread /\ waiting # {}
                    THEN WakeUpAp(Min(waiting), all.Procedure, idle)
                    ELSE State' = idle /\ UNCHANGED <<Procedure, mApFunction, apVars>>
              \/ /\ State[p] # "Finished"
                 /\ UNCHANGED <<all, State, Procedure, mApFunction, apVars>>
    /\ UNCHANGED <<Clock, mStopCheckAPsStatus, swVars, arg,
                   req, changes>>

\* The end of the loop: all finished, time expired, or EFI_NOT_READY.
CheckAllEnd(f, delta) ==
    /\ \/ At(f, "allEnd")
       \/ At(f, "all") /\ \A p \in all.CpuList : p < cur[f]
    /\ LET clock == ReadClock(all.Clock, delta)
       IN  \/ /\ all.FinishCount = all.StartCount
              /\ AllReturns(f, "SUCCESS")
           \/ /\ all.FinishCount # all.StartCount
              /\ all' = [all EXCEPT !.Clock = clock]
              /\ GotoAt(f, IF Expired(clock) THEN "allInit"
                           ELSE IF f = "main" THEN "all" ELSE "scan", 0)
              /\ UNCHANGED <<req, arg>>
    /\ UNCHANGED <<cpuData, mStopCheckAPsStatus, mApFunction, swVars, apVars,
                   changes>>

\* ResetProcessorToIdleState() for each AP that has not finished.
ResetNext(f) ==
    /\ At(f, "allInit")
    /\ \/ /\ all.CpuList = {}
          /\ AllReturns(f, "TIMEOUT")
          /\ UNCHANGED <<mApFunction, apVars>>
       \/ /\ all.CpuList # {}
          /\ AbortAp(Min(all.CpuList))
          /\ GotoAt(f, "allIdle", Min(all.CpuList))
          /\ UNCHANGED <<all, req, arg>>
    /\ UNCHANGED <<cpuData, mStopCheckAPsStatus, swVars, changes>>

ResetIdle(f) ==
    /\ At(f, "allIdle")
    /\ State' = [State EXCEPT ![cur[f]] = "Idle"]
    /\ all' = [all EXCEPT !.CpuList = @ \ {cur[f]}]
    /\ req' = [req EXCEPT ![AllRequest(f)].failed = @ \cup {cur[f]}]
    /\ GotoAt(f, "allInit", 0)
    /\ UNCHANGED <<Procedure, Clock, mStopCheckAPsStatus, mApFunction,
                   swVars, apVars, arg, changes>>

(***************************************************************************)
(* CheckThisAP(), likewise.                                                *)
(***************************************************************************)
ThisReturns(f, status, failed) ==
    LET p == cur[f]
        r == IF f = "main" THEN arg.req ELSE Clock[p].WaitEvent
    IN  /\ Clock' = [Clock EXCEPT ![p] = StopClock(@)]
        /\ req' = Ended(r, status, failed, Clock[p])
        /\ IF f = "main" THEN MainReturns
           ELSE GotoAt(f, "scan", p + 1) /\ UNCHANGED arg

CheckThisState(f) ==
    /\ At(f, "this")
    /\ \/ /\ State[cur[f]] = "Finished"
          /\ State' = [State EXCEPT ![cur[f]] = "Idle"]
          /\ ThisReturns(f, "SUCCESS", {})
       \/ /\ State[cur[f]] # "Finished"
          /\ Goto(f, "thisTime")
          /\ UNCHANGED <<State, Clock, req, cur, arg>>
    /\ UNCHANGED <<Procedure, all, mStopCheckAPsStatus, mApFunction,
                   swVars, apVars, changes>>

CheckThisTime(f, delta) ==
    /\ At(f, "thisTime")
    /\ LET p == cur[f]
           clock == ReadClock(Clock[p], delta)
       IN  /\ Clock' = [Clock EXCEPT ![p] = clock]
           /\ \/ /\ Expired(clock)
                 /\ AbortAp(p)
                 /\ Goto(f, "thisIdle")
                 /\ UNCHANGED cur
              \/ /\ ~Expired(clock)
                 /\ IF f = "main" THEN Goto(f, "this") /\ UNCHANGED cur
                    ELSE GotoAt(f, "scan", p + 1)
                 /\ UNCHANGED <<mApFunction, apVars>>
    /\ UNCHANGED <<State, Procedure, all, mStopCheckAPsStatus,
                   swVars, arg, req, changes>>

CheckThisIdle(f) ==
    /\ At(f, "thisIdle")
    /\ State' = [State EXCEPT ![cur[f]] = "Idle"]
    /\ ThisReturns(f, "TIMEOUT", {cur[f]})
    /\ UNCHANGED <<Procedure, all, mStopCheckAPsStatus, mApFunction,
                   swVars, apVars, changes>>

(***************************************************************************)
(* CheckAPsStatus(): not while it is suppressed, with interrupts off for   *)
(* the role exchange, or under ChangeApLoopModeCallBack() at TPL_NOTIFY.   *)
(***************************************************************************)
CheckAPsStatus ==
    /\ pc["cb"] = "off"
    /\ pc["main"] \notin {"exchange", "exitWait", "exited"}
    /\ ~arg.exit
    /\ ~mStopCheckAPsStatus
    /\ Pending
    /\ GotoAt("cb", IF all.Clock.WaitEvent # NULL THEN "all" ELSE "scan", 0)
    /\ UNCHANGED <<cpuData, all, mStopCheckAPsStatus, mApFunction, swVars, apVars,
                   arg, req, changes>>

\* The loop over the pending StartupThisAP() calls.
ScanThisAPs ==
    /\ At("cb", "scan")
    /\ LET rest == {p \in Cpus : p >= cur["cb"] /\ Clock[p].WaitEvent # NULL}
       IN  IF rest = {} THEN GotoAt("cb", "off", 0)
           ELSE GotoAt("cb", "this", Min(rest))
    /\ UNCHANGED <<cpuData, all, mStopCheckAPsStatus, mApFunction, swVars, apVars,
                   arg, req, changes>>

(***************************************************************************)
(* SwitchBSP().  In AsmExchangeRole the two processors swap their stacks:  *)
(* each stores its own, waits for the other's, loads it, tells the other,  *)
(* and leaves on it when its own has been loaded.                          *)
(***************************************************************************)
SwitchBSP(p, EnableOldBSP) ==
    /\ At("main", "ready")
    /\ changes < MaxChanges
    /\ p # BspNumber
    /\ State[p] = "Idle"
    /\ changes' = changes + 1
    /\ BSPInfo' = "STORED"
    /\ APInfo' = "IDLE"
    /\ Procedure' = [Procedure EXCEPT ![p] = FutureBSPProc]
    /\ PromptAPs => \A q \in Cpus : apPc[q] # "boot"
    /\ mApFunction' = "ApProcWrapper"
    /\ apPc' = [apPc EXCEPT ![p] = "boot", ![bspCpu] = "bspStored"]
    /\ arg' = [NoArg EXCEPT !.cpu = p, !.enable = EnableOldBSP]
    /\ Goto("main", "exchange")
    /\ UNCHANGED <<State, Clock, all, mStopCheckAPsStatus, BspNumber,
                   bspCpu, apProc, apCtx, cur, req>>

\* The old BSP loads the AP's stack, and leaves into ApProcWrapper.
BspLoads ==
    /\ apPc[bspCpu] = "bspStored"
    /\ APInfo = "STORED"
    /\ APInfo' = "LOADED"
    /\ apPc' = [apPc EXCEPT ![bspCpu] = "bspLoaded"]
    /\ apCtx' = [apCtx EXCEPT ![bspCpu] = arg.cpu]
    /\ UNCHANGED <<cpuData, all, mStopCheckAPsStatus, mApFunction, BspNumber,
                   bspCpu, BSPInfo, apProc, bspVars, req, changes>>

NoWait == TRUE
OtherLoaded == BSPInfo = "LOADED"
BspLeaves(c) ==
    /\ apPc[c] = "bspLoaded"
    /\ OtherLoaded
    /\ apPc' = [apPc EXCEPT ![c] = "clear"]
    /\ apProc' = [apProc EXCEPT ![c] = FutureBSPProc]
    /\ UNCHANGED <<cpuData, all, mStopCheckAPsStatus, mApFunction, swVars, apCtx,
                   bspVars, req, changes>>

\* The future BSP loads the BSP's stack, and leaves into SwitchBSP().
ApLoads(c) ==
    /\ apPc[c] = "stored"
    /\ BSPInfo = "STORED"
    /\ BSPInfo' = "LOADED"
    /\ apPc' = [apPc EXCEPT ![c] = "loaded"]
    /\ UNCHANGED <<cpuData, all, mStopCheckAPsStatus, mApFunction, BspNumber,
                   bspCpu, APInfo, apProc, apCtx, bspVars, req, changes>>

ApLeaves(c) ==
    /\ apPc[c] = "loaded"
    /\ APInfo = "LOADED"
    /\ apPc' = [apPc EXCEPT ![c] = "bsp"]
    /\ apProc' = [apProc EXCEPT ![c] = NULL]
    /\ bspCpu' = c
    /\ Goto("main", "switched")
    /\ UNCHANGED <<cpuData, all, mStopCheckAPsStatus, mApFunction, BspNumber,
                   BSPInfo, APInfo, apCtx, cur, arg, req, changes>>

\* ChangeCpuState()
ChangeCpuState(p, enabled) ==
    /\ State' = [State EXCEPT ![p] = IF enabled THEN "Idle" ELSE "Disabled"]

\* The new BSP waits until the old one has left ApProcWrapper.
OldBspFinished == State[BspNumber] = "Finished"
SwitchDone ==
    /\ At("main", "switched")
    /\ OldBspFinished
    /\ ChangeCpuState(BspNumber, arg.enable)
    /\ BspNumber' = arg.cpu
    /\ BSPInfo' = "IDLE"
    /\ APInfo' = "IDLE"
    /\ MainReturns
    /\ UNCHANGED <<Procedure, Clock, all, mStopCheckAPsStatus,
                   mApFunction, bspCpu, apVars, req, changes>>

(***************************************************************************)
(* EnableDisableAP() and ChangeApLoopModeCallBack() at ExitBootServices.   *)
(***************************************************************************)
\* The code does not look at the AP's state; a careful caller does.
EnableDisableAP(p, enabled) ==
    /\ At("main", "ready")
    /\ changes < MaxChanges
    /\ p # BspNumber
    /\ CarefulCallers => State[p] \in {"Idle", "Disabled"}
    /\ ChangeCpuState(p, enabled)
    /\ changes' = changes + 1
    /\ UNCHANGED <<Procedure, Clock, all, mStopCheckAPsStatus,
                   mApFunction, swVars, apVars, bspVars, req>>

ApRunning == \E p \in Cpus \ {BspNumber} : State[p] \notin {"Idle", "Disabled"}

\* A careful caller has no request pending when it exits boot services.
ExitBootServices ==
    /\ At("main", "ready")
    /\ Len(req) < MaxRequests
    /\ CarefulCallers => ~Pending
    /\ Goto("main", "exitWait")
    /\ UNCHANGED <<cpuData, all, mStopCheckAPsStatus, mApFunction, swVars, apVars,
                   cur, arg, req, changes>>

ChangeApLoopModeCallBack ==
    /\ At("main", "exitWait")
    /\ ~ApRunning
    /\ StartupAllAPs(FALSE, FALSE, 0, TRUE)

(***************************************************************************)
(* The APs: the start-up code, ApProcEntry() and ApProcWrapper().          *)
(***************************************************************************)
ApEntry(c) ==
    /\ apPc[c] = "boot"
    /\ apPc' = [apPc EXCEPT ![c] =
                  IF mApFunction = "ApProcWrapper" THEN "wrap" ELSE "hlt"]
    /\ UNCHANGED <<cpuData, all, mStopCheckAPsStatus, mApFunction, swVars, apProc,
                   apCtx, bspVars, req, changes>>

\* A critical section of CpuDataLock in ApProcWrapper().
ApSection(c, from, to) ==
    /\ apPc[c] = from
    /\ apPc' = [apPc EXCEPT ![c] = to]
    /\ UNCHANGED <<Clock, all, mStopCheckAPsStatus, mApFunction, swVars, bspVars,
                   req, changes>>

\* The two sections before the procedure; nobody looks between them.
ApFetches(c) ==
    /\ ApSection(c, "wrap", IF Procedure[c] = NULL THEN "fin" ELSE "proc")
    /\ State' = [State EXCEPT ![c] = "Busy"]
    /\ apProc' = [apProc EXCEPT ![c] = Procedure[c]]
    /\ UNCHANGED <<Procedure, apCtx>>

\* The procedure returns, or is FutureBSPProc() and enters AsmExchangeRole.
ApRunsProcedure(c) ==
    /\ apPc[c] = "proc"
    /\ \/ /\ apProc[c] = FutureBSPProc
          /\ APInfo' = "STORED"
          /\ apPc' = [apPc EXCEPT ![c] = "stored"]
          /\ UNCHANGED req
       \/ /\ apProc[c] \in DOMAIN req
          /\ req' = [req EXCEPT ![apProc[c]].done = @ \cup {c}]
          /\ apPc' = [apPc EXCEPT ![c] = "clear"]
          /\ UNCHANGED APInfo
    /\ UNCHANGED <<cpuData, all, mStopCheckAPsStatus, mApFunction, BspNumber, bspCpu,
                   BSPInfo, apProc, apCtx, bspVars, changes>>

ApClearsProcedure(c) ==
    /\ ApSection(c, "clear", "fin")
    /\ Procedure' = [Procedure EXCEPT ![apCtx[c]] = NULL]
    /\ UNCHANGED <<State, apProc, apCtx>>

\* After a role exchange the context of the old AP is replaced by the own one.
OldCtx(c) == apCtx[c]
WhoAmIFails(c) == NumberOfProcessors
ReloadedCtx(c) == IF apProc[c] = FutureBSPProc THEN c ELSE apCtx[c]
ApFinishes(c) ==
    /\ ApSection(c, "fin", "hlt")
    /\ State' = [State EXCEPT ![ReloadedCtx(c)] = "Finished"]
    /\ apCtx' = [apCtx EXCEPT ![c] = ReloadedCtx(c)]
    /\ apProc' = [apProc EXCEPT ![c] = NULL]
    /\ UNCHANGED Procedure

(***************************************************************************)
(* The specification.                                                      *)
(***************************************************************************)
Call ==
    \/ StartupAllAPsNotReady
    \/ CallStartupAllAPs
    \/ \E p \in Cpus, c \in ThisCalls : StartupThisAP(p, c.wait, c.limit)
    \/ \E p \in Cpus, enabled \in BOOLEAN :
         SwitchBSP(p, enabled) \/ EnableDisableAP(p, enabled)
    \/ ExitBootServices

Check(f) ==
    \/ CheckAllOne(f) \/ ResetNext(f) \/ ResetIdle(f)
    \/ CheckThisState(f) \/ CheckThisIdle(f)
    \/ \E delta \in 0 .. MaxDelta : CheckAllEnd(f, delta) \/ CheckThisTime(f, delta)

MainStep ==
    WakeNext \/ SaveRequest \/ SwitchDone \/ ChangeApLoopModeCallBack \/ Check("main")
CbStep == ScanThisAPs \/ Check("cb")
ApStep(c) ==
    \/ ApEntry(c) \/ ApFetches(c) \/ ApRunsProcedure(c)
    \/ ApClearsProcedure(c) \/ ApFinishes(c)
    \/ BspLeaves(c) \/ ApLoads(c) \/ ApLeaves(c)

Next ==
    \/ Call \/ MainStep \/ CheckAPsStatus \/ CbStep \/ BspLoads
    \/ \E c \in Cpus : ApStep(c)

Spec == Init /\ [][Next]_vars

\* The counter advances between two readings.
TimePasses(f) ==
    \/ CheckAllEnd(f, MaxDelta) /\ all.Clock.ExpectedTime # 0
    \/ CheckThisTime(f, MaxDelta) /\ Clock[cur[f]].ExpectedTime # 0

\* Every processor goes on executing, and the timer goes on firing.  Its
\* notification preempts the main thread again and again but ends well within its
\* 10 ms period, so the main thread, enabled in between, gets its turn; and time
\* passes while clocks are read.  Procedures without a time limit return.
ApMayHang(c) == apPc[c] = "proc" /\ apProc[c] \in DOMAIN req /\ req[apProc[c]].limit # 0
Fairness ==
    /\ SF_vars(MainStep)
    /\ SF_vars(\E f \in Frames : TimePasses(f))
    /\ WF_vars(CheckAPsStatus)
    /\ WF_vars(CbStep)
    /\ WF_vars(BspLoads)
    /\ \A c \in Cpus : WF_vars(ApStep(c) /\ ~ApMayHang(c))
FairSpec == Spec /\ Fairness

(***************************************************************************)
(* Properties.                                                             *)
(***************************************************************************)
\* The variables keep their types.
TypeOK ==
    /\ State \in [Cpus -> CpuStates]
    /\ Procedure \in [Cpus -> 0 .. MaxRequests + 1]
    /\ mStopCheckAPsStatus \in BOOLEAN
    /\ mApFunction \in {"NULL", "ApProcWrapper"}
    /\ BspNumber \in Cpus
    /\ bspCpu \in Cpus
    /\ BSPInfo \in {"IDLE", "STORED", "LOADED"}
    /\ APInfo \in {"IDLE", "STORED", "LOADED"}
    /\ apPc \in [Cpus -> ApPlaces]
    /\ apProc \in [Cpus -> 0 .. MaxRequests + 1]
    /\ apCtx \in [Cpus -> Cpus]
    /\ pc["main"] \in MainPlaces
    /\ pc["cb"] \in CbPlaces
    /\ Len(req) \in 0 .. MaxRequests

\* An AP runs a procedure only for a request that is still open, that was
\* dispatched to it and that it has neither finished nor been given up for:
\* StartupAllAPs() and StartupThisAP() never run a procedure twice on an AP nor
\* after the call has ended.
OwnTask ==
    \A c \in Cpus :
        apPc[c] = "proc" /\ apProc[c] # FutureBSPProc =>
            LET r == req[apProc[c]]
            IN  r.status = "open" /\ c \in r.cpus \ (r.done \cup r.failed)

\* A call that has ended accounts for each of its APs: the procedure returned on
\* it, or it is in FailedCpuList; after EFI_SUCCESS on all of them.
EndedAccounted ==
    \A r \in DOMAIN req :
        req[r].status # "open" =>
            /\ req[r].cpus \ req[r].failed \subseteq req[r].done
            /\ req[r].status = "SUCCESS" => req[r].failed = {}

\* In single thread mode the APs run the procedure one by one.
OneByOne ==
    \A r \in DOMAIN req :
        req[r].single =>
            Cardinality({c \in Cpus : apPc[c] = "proc" /\ apProc[c] = r}) <= 1

\* An AP that is marked idle, and so may be restarted for the next request, is not
\* inside ApProcWrapper() (but for the one that SwitchBSP() has just woken).
IdleIsParked ==
    \A p \in Cpus \ {bspCpu, BspNumber} :
        State[p] \in {"Idle", "Disabled"} /\ ~(pc["main"] = "exchange" /\ arg.cpu = p) =>
            apPc[p] \in {"hlt", "boot"} /\ (apPc[p] = "boot" => mApFunction = "NULL")

\* Two processors never execute on one stack: whoever has left AsmExchangeRole,
\* the other one has loaded its new stack pointer before.
OneCpuPerStack ==
    /\ pc["main"] = "switched" => \A c \in Cpus : apPc[c] # "bspStored"
    /\ \A c \in Cpus :
         apCtx[c] # c /\ apPc[c] # "bspLoaded" => apPc[apCtx[c]] # "stored"

\* Outside of SwitchBSP() exactly one processor executes the BSP's threads,
\* BspNumber names it, it is not marked disabled, and every AP is in its own context.
OneBsp ==
    pc["main"] \notin {"exchange", "switched"} =>
        /\ BspNumber = bspCpu
        /\ \A c \in Cpus : apPc[c] = "bsp" <=> c = bspCpu
        /\ State[BspNumber] # "Disabled"
        /\ \A c \in Cpus : apCtx[c] = c

\* Every call comes to its end, and with it every accepted request: without a
\* time limit because its procedures return, with one even if they hang.
Outstanding ==
    \/ \E r \in DOMAIN req : req[r].status = "open"
    \/ pc["main"] \notin {"ready", "exited"}
CallsEnd == Outstanding ~> ~Outstanding

\* A request is given up only when its time limit has passed since the call.
TimeLimitHonoured ==
    \A r \in DOMAIN req : ~req[r].early
=============================================================================
