# Verification of the Quark EDK II base firmware

TLA+ models of the Intel Quark (Galileo) UEFI firmware in this repository, TLC
configurations that check them on small instances, and TLAPS proofs, for every size, of
all their safety properties. Five components are modelled: the two on which everything in
System Management Mode (SMM) stands, the multiprocessor **SMI rendezvous** and the **SMI
child dispatcher**; the **MP services** that run procedures on the application processors
outside SMM; the **fault tolerant write** driver, which keeps the variable store whole
when the power fails; and the **transfers of the OHCI driver**, whose descriptors the driver, a
timer notification and the USB host controller share.

## 1. Inventory

How the parts interact on the paths that matter: an SMI source latches in the chipset
→ every CPU enters `SmiRendezvous()` → the elected BSP calls `SmmCoreEntry()` (the SMM
foundation, not in this repository) → the foundation calls `QNCSmmCoreDispatcher()` →
the dispatcher calls the children registered by the platform drivers (ACPI, flash,
power) → the dispatcher clears the source and sets EOS → the rendezvous lets all CPUs go.
Outside SMM, `CpuMpDxe` runs procedures on the APs, and the variable store goes through
fault tolerant write and the SPI block services to flash. The USB bus driver reads hubs and
keyboards by asynchronous interrupt transfers, which the OHCI driver repeats until they are cancelled.

| Component | State | Operations | What is hard | What makes it correct |
|---|---|---|---|---|
| SMI rendezvous (`IA32FamilyCpuBasePkg/PiSmmCpuDxeSmm`: `MpService.c`, `CpuService.c`, `SyncTimer.c`) | `mSmmMpSyncData`: `Counter`, `InsideSmm`, `AllCpusInSync`, `BspIndex`, `SwitchBsp`, `CandidateBsp`, `EffectiveSyncMode`, `CpuData[].{Run,Present,Busy}`; MTRRs | entry, check-in, election, `BSPHandler`, `APHandler`, `SmmStartupThisAp`, `SmmSwitchBsp`, `SmmSyncSetMode`, `CheckApArrival`, SMI IPIs | lock-free code on all CPUs, timeouts, late and refused CPUs, MTRRs shared by HT siblings, resets in three separate stores while others enter | one BSP; check-ins counted exactly; no signal left over; MTRRs never mixed; everyone leaves |
| QNC SMM child dispatcher (`QuarkSocPkg/QuarkNorthCluster/Smm/DxeSmm/QncSmmDispatcher`) | `CallbackDataBase`, enable and status registers, `mTimers`, PMCW | register, unregister, dispatch (search, exhaust, clear, EOS), sleep entry, timer programming | hardware latches status bits while software reads and writes them back; callbacks change the list that is walked | enables follow the database; every owed child is called; one owner per software SMI value |
| SmmControl2 (`QuarkNorthCluster/Smm/Dxe/SmmControlDxe`) | shares the dispatcher's registers | trigger, clear | a clear destroys what others latched | a triggered SMI reaches its child |
| ACPI SMM driver (`QuarkPlatformPkg/Acpi/DxeSmm/AcpiSmm`) | `SCI_EN`, the timer enable | enable/disable ACPI | changes enables behind the dispatcher | the dispatcher's view stays consistent |
| MP services (`IA32FamilyCpuBasePkg/CpuMpDxe`) | AP state per CPU, `CpuList`, wait events, timers | `StartupAllAPs`, `StartupThisAP`, `CheckAPsStatus`, `SwitchBSP`, `EnableDisableAP` | BSP timer callback against running APs, timeout against completion, INIT IPI to an AP that holds a lock | each AP in one state; each start finishes or times out once |
| Fault tolerant write (`QuarkPlatformPkg/Override/.../FaultTolerantWriteDxe`) | working block, spare block, write queue headers and record flags in flash | allocate, write, restart, abort, reclaim, refresh | power loss between any two flash writes | after any crash the target block holds the old or the new contents |
| SPI flash block services (`QuarkPlatformPkg/Platform/SpiFvbServices`) and SPI controller | flash, lock masks, protected ranges | read, write, erase blocks | partial writes, write protection per SMM | erase before write; bits only go 1→0 |
| OHCI transfers (`QuarkSocPkg/QuarkSouthCluster/Usb/Ohci/Dxe`, `UsbOnHubInterrupt` of the bus driver) | endpoint and transfer descriptors, the tree of interrupt lists, `InterruptContextList`, data toggles | asynchronous and synchronous interrupt transfer, bulk transfer, cancel, `OhciHouseKeeper` | the host controller reads and writes descriptors the driver builds and frees; a callback cancels the transfer it is called for; time-outs and errors half-way | host and device agree on the toggle; freed descriptors are off the lists when a frame begins; each endpoint is visited at its rate and its complete transfers are served in turn |
| PI SMM communication, lock box (`IA32FamilyCpuBasePkg/PiSmmCommunication`, `QuarkPlatformPkg/Override/.../LockBox`) | communication buffer, lock-box queue | communicate, set, update, restore | hand-over between PEI and SMM, lock after ready-to-lock | restored data is the data set |
| SMM CPU features, profile, relocation, S3 | SMBASE, page tables | one-time set-up | hardware | out of scope |
| Memory reference code, SEC, platform init, BDS, PCI host bridge, EHCI and USB bus, SD, UART, I2C, ACPI tables, TCG | – | sequential hardware set-up, polling I/O, table generation | hardware | out of scope |

`PROJECT.json` lists every component with its sources and the reason for what is left out,
and under `hazards` each place in the code where something can go wrong that a test would
hardly reach, with the properties that would notice.

## 2. Plan

1. *(done)* `SmmRendezvous` with the abstract `SmiRun`; runs, mutants; type invariant and
   single-BSP theorem.
2. *(done)* `QncSmmDispatcher`; runs, mutants; type, unique software SMI values and
   enable-register theorems.
3. *(done)* `MpServices`: the services of `CpuMpDxe`, the timer notification, the code on
   the APs and the role exchange; runs, mutants.
4. *(done)* `FaultTolerantWrite` over a small flash model with power loss at every step, and
   the abstract `NvStore` it implements; runs, mutants.
5. *(done)* `OhciTransfers`: interrupt and bulk transfers, cancel, the house keeper and the
   interrupt lists against a host controller that works frame by frame and devices that fail or stay
   silent; runs, mutants.
6. *(done)* Proofs (section 9): all safety properties of the rendezvous with the refinement of
   `SmiRun`, of the dispatcher, of the MP services and of the OHCI transfers.
7. *(done)* Proofs for `FaultTolerantWrite`: an inductive invariant that says, for each call and
   flash operation that can be at hand, what the rest of `todo` is and what the three areas
   hold, and from it `TypeOK`, `SettledWhenIdle` and the refinement of `NvStore`.

Each component has its module, an MC module and configurations, and its theorems in modules
named `...Proofs`: `SmmRunProofs` (the course of a run) rests on `SmmRendezvousProofs` (types, one
BSP), `SmmPromiseProofs` (refinement) and `SmmMtrrProofs` (MTRRs, gathering) rest on `SmmRunProofs`;
`QncSmmDispatcherProofs`, `MpServicesProofs`, `OhciTransfersProofs` and `FaultTolerantWriteProofs`
stand alone.

## 3. The SMI rendezvous: `SmmRendezvous.tla`, `SmiRun.tla`

Each CPU is a process; `pc[c]` is its point in the code: `normal` (outside SMM), `checkin`,
`elect`, `cas`, `role` in `SmiRendezvous()`, `b...` in `BSPHandler()`, `handler`, `blocking`
and `c...` inside `SmmCoreEntry()`, `a...` in `APHandler()`, and `spin` in the final wait for
`AllCpusInSync`. The fields of `mSmmMpSyncData` are variables of the same name (a flag array
is the set of CPUs whose flag is set); the locals that survive a step are in `loc`,
reset after their last use so that dead values do not multiply states.

*Granularity.* A step ends at an access another CPU can observe, so every order in which the
CPUs' loads, stores and locked operations on shared fields can interleave is explored. Three
kinds of statement are folded into the step they follow: a CPU's decrement of its own `Run`
(only the owner takes), `ReleaseSemaphore` on somebody else's `Run` (it only enables), and a
store only the same CPU reads.

*Numbers.* UINT32 values near the top are written as negative numbers: `(UINT32)-1` is `-1`;
comparisons that are unsigned in the code are written with intervals from 0.

*Timeouts.* `IsSyncTimerTimeout()` may turn true at any iteration of a wait. With
`LongTimeouts` only when every other CPU is waiting for somebody, i.e. the timeout outlasts
straight-line code (`PcdCpuSmmApSyncTimeout` is 1 s). `CleanGiveUp` excludes one race, the one of
finding 1 below, so that the other properties can be checked beyond it.

*Environment.* An SMI is latched for each CPU and taken at any later time; SMI IPIs do the same.
`MtrrsConfigured` is what `NeedConfigureMtrrs()` returns: TRUE on this platform, FALSE also
checked, since only then does the relaxed mode differ. On this platform
`PlatformValidSmi()` returns TRUE and `PlatformSmmBspElection()` returns `EFI_NOT_READY`. Handlers
may call every service of the driver, any number of times. Hot plug is off
(`PcdCpuHotPlugSupport` is FALSE) and not modelled. MTRR contents are `os` or `smm`.

`SmiRun` says what the rendezvous promises to its handlers: one owner at a time, at most one
procedure per other CPU, and a run that ends only when all procedures have. `KeepsPromise`
is the refinement, with the owner read off `pc` and the tasks off `Busy`.

| Run | Instance | Shows |
|---|---|---|
| `smm_mtrr` | 3 CPUs, 2 of them HT siblings, MTRRs programmed, 2 SMIs | the four barriers keep OS and SMM MTRRs apart (`BackupIsOs`, `HandlersSeeSmmMtrrs`, `OsSeesOsMtrrs`); no CPU runs normal-mode code or leaves while handlers of a gathered run work (`NoNormalModeCode`, `QuietExit`) |
| `smm_relaxed` | 3 CPUs, no MTRR programming, timeouts at any moment, 2 SMIs | `TypeOK`, `SingleBsp`, `ApFindsBsp`, `LockHolds`, `ApCountIsExact`, `RunIsZeroOutside`, `ModeAgreement`, `SwitchHonoured`, `ReadyMeansAllIn`, `KeepsPromise` in both sync modes and across mode changes |
| `smm_live` | 2 CPUs, 2 SMIs, fair scheduling | `EveryoneLeaves`, `SmiServed` |
| `smm_give_up` | 2 CPUs, without `CleanGiveUp` | violation of `ApCountIsExact` (finding 1) |

*Bounds.* `MaxSmi = 2` lets a second run start while the first one ends, the case in which stale
flags matter; SMI IPIs sent by waiting CPUs do not count against it. Three CPUs are a BSP, an
AP of the run and a late or refused CPU at the same time. All these configurations turn
the deadlock check off because the model stops once its SMIs are used up; that nobody is stuck
inside SMM is `EveryoneLeaves`. CPUs are interchangeable in `smm_relaxed`, the siblings in
`smm_mtrr`; both are declared as symmetric (these runs check only safety).

*Fairness.* A CPU in SMM executes its code without being scheduled away, hence weak fairness for
each CPU's rendezvous, BSP, AP and waiting steps, the taking of a latched SMI included.
Handlers return; because they may call services repeatedly before they do, that is
strong fairness of `HandlerReturns`. Nothing is assumed of `RaiseSmi` or of which services
are called.

*Observation.* `ASSERT (Counter <= mNumberOfCpus)` (`MpService.c:1505`), absent in a release
build as in the model, fails when a handler of a gathered run calls `SmmCpuSyncCheckApArrivalWorker()`:
`Counter` is then locked at `(UINT32)-1`.

## 4. The SMI child dispatcher: `QncSmmDispatcher.tla`

The callback list only grows at its tail, so a record's handle is the number of its
registration, `live` is the set of handles in the list, and `GetNextNode` is the next larger live
one. A register is the set of its 1 bits; the enable and the status bit of a source share a
name. `pc` is the dispatcher's place: `search`, `exhaust`, `callback`, `eos`, `sleep`, `asleep`, or
`idle`. `unserved` (the children whose source fired and who have not been looked at since) and
`swtMasked` are observers; no action reads them.

*Hardware.* The status registers clear the bits written as 1; the code shows this by writing 1s to
clear (`QNCSmmClearSmi`). A write of one bit by read-modify-write therefore clears all
bits of that register that read as 1, which the model does. An active source makes the chipset raise
an SMI.

*Callbacks* may register and unregister children and, for software SMIs, are the ACPI
driver's enable and disable callbacks. They never unregister the record the dispatcher stands
on: no driver in the repository does, and the code would then read freed memory.
`EnableAcpiCallback()` turns the timer enable off and `DisableAcpi` does not turn it on again;
`swtMasked` makes that exception visible in `EnablesMatchRecords`.

*Further points.* `SxCmpContext()` ignores the phase, so the model has none. A refused registration
changes nothing. ASSERTs are those of a release build, i.e. absent: a periodic child without a tick
keeps the programmed rate. QNCn types with an empty source description are always active and hide
later records; the theorems cover them, `dispatch_quiet` leaves them out because `Served` does not
hold with them and no driver of the repository registers one. The rate of the periodic timer is or-ed into
PMCW (`QNCSmmPeriodicTimer.c:336`): after a child with another rate, `CurrentSetting` is not the rate in effect, as
the comment at `:108` has it. The model keeps both registers, and no property relates them.

| Run | Instance | Shows |
|---|---|---|
| `dispatch_quiet` | up to 3 registrations out of 10 requests of every protocol (refused ones included), sources fire one at a time, removal and registration also from callbacks, sleep and ACPI mode changes | `TypeOK`, `UniqueSwValues`, `EnablesMatchRecords`, `NothingLost`, `TimersRestarted`, and `Served` under fairness; no deadlock |
| `dispatch_late` | sources latch at any moment | violation of `LateSmiKept` (finding 2) |

*Bounds.* Three records are two children of one source and one of another, in every order;
`MAXIMUM_SWI_VALUE = 2` puts the edge of the value space (the last value is never assigned, 1 is)
and its exhaustion within reach. The interval table is the real one.

*Fairness.* Weak fairness of the dispatcher's own steps (it runs to its end once called, callbacks
return), and of `Dispatch` while a source is active. The machine need not wake from sleep.

## 5. MP services: `MpServices.tla`

The BSP hands a procedure to an AP by storing it in `CpuData[].Procedure` and restarting the AP
with INIT-SIPI-SIPI; the AP reports through `CpuData[].State`. `State`, `Procedure` and `Clock` are
the fields of `CpuData[]`, `all` the fields of `mMPSystemData` that belong to
`StartupAllAPs()`. A procedure is the number of its request, and `req` records how each request
ended; no action decides by it, save that a procedure's return is noted there.

*Threads.* The BSP has two: `main`, the caller of the services, and `cb`, the notification
`CheckAPsStatus()` of the 10 ms timer, which preempts `main` between any two steps and runs to its
end. `CheckAllAPs()` and `CheckThisAP()` are written once and taken by either thread. `apPc` is
each AP's place: `hlt`, `boot` (restarted, `mApFunction` not yet read), `wrap`, `proc`, `clear` and
`fin` in `ApProcWrapper()`, and `stored`, `loaded` in `AsmExchangeRole`, where the BSP's places are
`bspStored` and `bspLoaded`. A critical section of `CpuDataLock` is one step. `apCtx` is
the processor whose stack, hence whose context, the AP runs on: it differs from the AP's own number
only after a role exchange, until `ApProcWrapper()` reloads it.

*Time.* A reading of the performance counter is the number of ticks since the last one, at most
`MaxDelta`; `TotalTime` accumulates over calls as in the code, `age` counts from the call.

*Discipline.* Two constants name what the properties need and the code does not enforce.
`PromptAPs`: an AP has read `mApFunction` before the BSP changes it again, which the 200 µs delay
after the SIPI is for. `CarefulCallers`: no second `StartupAllAPs()` while one is pending, no
`EnableDisableAP()` on a busy AP, no `ExitBootServices()` with a request pending. Each is needed: a
second `StartupAllAPs()` rewrites `CpuList` before it returns `EFI_NOT_READY`, so the pending one
never completes (`CallsEnd`); an exit waits for an AP that only the suppressed notification
would mark idle (`CallsEnd`); disabling a busy AP, or an AP that is slow to start, leaves an idle mark on
a running AP (`IdleIsParked`). These are listed as hazards. `CarefulCallers` also starts no request while
`WaitEvent` is set: `CheckAPsStatus()` signals the event before it clears it (`MpService.c:852`, `:871`), which
the model does in one step, so the function of an event that starts the next request within the signal, and has
that request's event wiped, is excluded. The callers in the repository are blocking. One more observation: if every AP is
disabled, `StartupAllAPs()` returns `EFI_NOT_STARTED` to `ChangeApLoopModeCallBack()`, whose
`ASSERT_EFI_ERROR` (`MpCommon.c:197`) then fires.

| Run | Instance | Shows |
|---|---|---|
| `mp_services` | 3 processors, 2 requests of 4 kinds (one by one, in parallel with a limit, one AP with an event and a limit, one AP blocking), 1 switch or enable change | `OwnTask` (no procedure runs twice or after its call ended, also when an INIT races completion), `EndedAccounted`, `OneByOne`, `IdleIsParked`, `OneCpuPerStack` and `OneBsp` across role exchanges, and `CallsEnd` under fairness |
| `mp_time_limit` | the same, with two requests that have a limit | violation of `TimeLimitHonoured` (finding 3) |

*Bounds.* Two APs are needed for the order of `CpuList` and for a third processor during an
exchange; two requests let one call start while another is pending, and a second one
meet what the first left behind (`TotalTime`, `FinishCount`). The deadlock check is off because the
model stops when all calls are made; `CallsEnd` says that nobody is stuck before.

*Fairness.* Every processor goes on executing (weak fairness per AP, for the notification and for
the timer). The main thread is disabled whenever the notification runs, again and again, but that
ends well within the timer's period: strong fairness of its steps, and of readings between which time
passed. A procedure with a limit may hang; one without a limit returns.

## 6. Fault tolerant write: `FaultTolerantWrite.tla`, `NvStore.tla`

The flash has three areas of one size: the working block (variables first, work space with header
and write log last), the spare block and one other firmware volume. Flash bits go one way between
erases, so a header or a log entry is the set of the bits programmed. `todo` is the driver's
remaining program: flash operations, one step each, and calls, replaced by the function's body when
they are reached, with what the function has then read from flash.

*Power failure* may come before every step and in the middle of every flash operation (an area half
erased or half written, a log header half programmed); memory is lost, flash stays, and start-up
begins again with the block services' repair of damaged volume headers and `InitFtwProtocol()`.
Failures may come during recovery too. The parts of `mSpiInitTable` differ in what
one erase command erases, 4 KB or 64 KB: with 64 KB an area goes at once, with 4 KB in ascending order.

*External.* `FaultTolerantWrite.c` (`FtwWrite`, `FtwRestart`, `FtwAbort`) belongs to MdeModulePkg and
is not in the repository; it is modelled from how the driver here relies on it.

`NvStore` is the promise: each target block holds one value, which changes at once to the value
asked for, or stays. `StoreIsAtomic` is the refinement; `Recovered(t)`, what the next start-up would
make of the flash as it is, is the mapping. The commit point is the programming of the
`SPARE_COMPLETED` bit: the other steps and the power
failures map to stutters, the end of start-up, when the callers find what the blocks hold, to `Drop`.

| Run | Instance | Shows |
|---|---|---|
| `ftw` | a 4 KB part with room in its log, 64 KB parts whose log fills up after 1 or 2 writes; 3 writes, 3 power failures | `StoreIsAtomic`; `SettledWhenIdle` (valid work space, empty log, blocks as asked); `Recovers` under fairness; `TypeOK`, with the log never beyond its room |
| `ftw_spare` | a 4 KB part whose log fills up, 1 failure | violation of `NothingIsLost` (finding 4) |

*Bounds.* Three writes fill and reclaim a log of one or two entries; three failures are
one in a write, one in its recovery and one in the recovery of that. *Fairness.* The driver goes
on while it has power, and the number of failures is bounded: weak fairness of its steps.

## 7. OHCI transfers: `OhciTransfers.tla`

Every transfer owns an endpoint descriptor (ED): `Ed[n]` is that of the n-th transfer together with
its transfer descriptors (TDs), each with a condition code and a toggle. `InterruptSchedule` is the set
of EDs linked below the interrupt lists, `InterruptContextList` the asynchronous transfers (the code's
list grows at its tail only, so its order is that of the numbers and a set is enough), `BulkHead` and
`BulkFilled` are the bulk list and its `BULK_LIST_FILLED` bit, `call` is the calling thread's place in a
transfer function, `Entry` the house keeper's. `DataToggle` is the caller's toggle, `deviceToggle` the
device's. `hcPeriodic` and `inHand` are what the controller is at in the frame in progress; `astray` and
`late` are observers.

*Three parties.* The calling thread; `OhciHouseKeeper()`, which a 100 ms timer runs at `TPL_NOTIFY`
between any two steps of the caller but not inside a cancel, which runs at `TPL_NOTIFY` itself;
and the host controller, which retires a TD at any moment of either. A
submission is one step: until its last store the ED is skipped by the controller, and the house
keeper finds TDs not executed. `OhciAttachED()` stores the pointer to the new ED before the new
ED's own pointer (`OhciUrb.c:301-302`), so for a moment the list ends at the new ED; a controller that comes by
just then leaves the rest of that list out for one frame, which the model does not show. A cancel has
one step for each point the controller can observe. The controller and the devices are external.

*Frames.* The controller looks at `PERIODIC_ENABLE` at the start of a frame (`StartOfFrame`), so a cancel,
which clears the bit and frees TDs and ED without waiting (`Ohci.c:993-995`), and a bulk transfer, which takes its
ED off and frees it with the list enabled (`Ohci.c:857-875`), both free descriptors the controller may have in
hand. Between the free of the TDs and that of the ED packets still arrive (`PacketArrives` on an ED that is
not `allocated`); after it, one packet that was under way may (`LatePacket`). Either way the device's toggle
moves and nobody notices: the endpoint is in `late`. Only the submission of a bulk transfer waits, 20 ms
(`Ohci.c:707-719`), which is `BulkListFilled` waiting for `inHand`. `FramesBeginClean` is what the order of the code
does secure: with the frame in progress the freed descriptors are out of reach. What the controller writes
into memory that was freed and has become something else, within that frame or through `HcBulkCurrentED`,
which the driver never writes, is not modelled.

*Polling.* `CheckIfDone()` says that a bulk transfer is not ready as long as the controller has not cleared
`BULK_LIST_FILLED`, whatever the TDs say; `Waiting` does too, and `BulkListDone` clears it.

*Callbacks.* On an error a callback may leave its transfer alone, or, like `UsbOnHubInterrupt`, cancel
it and submit a new one (`CancelAndResubmit`), for which there may be no memory (`CancelAndFail`). The house
keeper then reads `NextEntry` of the freed entry: its old value, because the build leaves freed pool memory as
it is (`PcdDebugPropertyMask` is 0x23 or 0x27), or NULL, that of the new entry if it got the same memory.
Another value would need an allocation by somebody else between the free and the read.

*The tree.* A list is a depth and an index; the `Leaf` table is the real one. `Passes` is the linking
of the lists, `OhciFindMinInterruptEDList` the choice of the least loaded one.

*Discipline.* A caller has one transfer at a time on an endpoint and cancels what it has submitted.

| Run | Instance | Shows |
|---|---|---|
| `ohci` | a hub polled every 64 frames, a keyboard every 10, a disk; 3 transfers, 1 error (device error, stall, time-out or lack of memory) besides the errors that lost toggles cause | `ToggleInStep`: host and device agree on the toggle through submission, service, re-activation, errors, cancel and resubmission; `RateHonoured` for intervals that are no power of two and beyond the tree's 32 frames; `FramesBeginClean`; under fairness `ServedInTurn` (a complete transfer is reported and made active again unless one ahead of it stays stalled or unanswered for ever, and a device that answers when it is asked is asked again after every re-activation and every cancel of others); `TypeOK`, with the house keeper always on an entry of the list |
| `ohci_silent` | the hub and the keyboard, no errors | violation of `CallbackIsCalled` (finding 5) |

*Limits of the code that the properties name.* `ToggleInStep` makes an exception (`Lost`) for an endpoint whose
synchronous transfer timed out or failed after some packets, whose submission ran out of memory
(`astray`), or which sent a packet after the cancel had read its toggle (`late`), until the halt is cleared. There
the toggle returned is not the device's, against the comments at `Ohci.c:904` and `:624`: a cancel does not wait
for the frame's end, a bulk transfer that times out leaves `DataToggle` where the submission moved it, and after an
error `CheckEDStatus()` complements what the controller complemented already (`OhciSched.c:295`).
Asynchronous transfers have one packet: with `AsyncPackets = {2}` TLC finds a transfer cancelled
between its completion and its re-activation that returns the wrong toggle, because
`OhciFreeInterruptContext()` reads the first TD. The one caller in the repository, the hub driver,
asks for `NumOfPort / 8 + 1` bytes, one packet. `OhciHouseKeeper()` returns at the first entry that is
stalled or silent, so those behind it wait, and a stall never reaches the callback that would clear it
(`UsbHub.c:629`): `ServedInTurn` names the blocking entry. A synchronous interrupt transfer does not
free its TDs, since its cancel finds no context.

*Bounds.* Three transfers are two interrupt endpoints and a third transfer during or after theirs; a toggle
mismatch after a late packet or a failed transfer is an error too, so that recovery from one error meets another. The deadlock check is off because the model
stops when all transfers are made. *Fairness.* Weak, for the steps of a cancel and of the house
keeper, for the timer and for the start of frames. No device need ever answer: an interrupt endpoint with nothing to
report refuses for ever, and that is a behaviour of `FairSpec`. The second part of
`ServedInTurn` has the fairness of the one device it speaks of as its hypothesis.

## 8. Findings

1. `PiSmmCpuDxeSmm/MpService.c:635`: an AP that gives up takes its check-in back after the
   BSP has locked `Counter`: the BSP then waits for ever. The comment at `:400` names a
   PCD that does not exist and an AP that enters; the counterexample has an AP that leaves, with
   a timeout that is long.
2. `QNCSmmHelpers.c:218` (and `:503`): setting EOS and clearing one source write the whole of SMIS
   back, so an SMI that latched during the callback is lost, against the comment at
   `QNCSmmCore.c:795`.
3. `CpuMpDxe/MpService.c:1148`: `CheckTimeout()` adds to `TotalTime`, which no call resets. The
   second request of a processor (or the second `StartupAllAPs()`) starts with the time of the
   first on its clock and is given up early, against the description of
   `TimeoutInMicroSeconds` at `:244`.
4. `FaultTolerantWriteDxe/UpdateWorkingBlock.c:226`: `WorkSpaceRefresh()` reclaims a full log
   without a look at the work space header, and `InitFtwProtocol()` calls it before it tries the
   spare block (`FtwMisc.c:1227`: "If the working block workspace is not valid, try the spare
   block"). With 4 KB erase sectors a power failure that has erased the variables and not yet the
   log behind them makes the next boot copy the damaged block over the good copy.
5. `Ohci/Dxe/OhciSched.c:460`: the house keeper returns at the first entry that is not executed, so a device
   with nothing to send keeps the callbacks of the transfers behind its own from being called, against
   `Ohci.c:915`: "This function is called at the rate specified by PollingInterval."

## 9. Proofs

| Module | Theorem | States | Hypotheses |
|---|---|---|---|
| `SmmRendezvousProofs` | `TypeCorrect` | `TypeOK` | – |
| | `OnlyOneBsp` | `SingleBsp` | – |
| `SmmRunProofs` | `RunCorrect` | `RunInv` | `CleanGiveUp` |
| | `ClosedRunStaysClosed` | `LockHolds` | `CleanGiveUp` |
| | `WaitsForWhoIsThere` | `ApCountIsExact` | `CleanGiveUp` |
| | `JoiningApFindsItsBsp` | `ApFindsBsp` | `CleanGiveUp` |
| | `NoSignalIsLeft` | `RunIsZeroOutside` | `CleanGiveUp` |
| | `OneModePerRun` | `ModeAgreement` | `CleanGiveUp` |
| | `ReadyIsTrue` | `ReadyMeansAllIn` | `CleanGiveUp` |
| | `SwitchIsHonoured` | `SwitchHonoured` | `CleanGiveUp` |
| `SmmPromiseProofs` | `RendezvousKeepsPromise` | `KeepsPromise` (refinement of `SmiRun`) | `CleanGiveUp` |
| `SmmMtrrProofs` | `MtrrsCorrect` | `MtrrInv` | `CleanGiveUp` |
| | `BackupsAreTheOs` | `BackupIsOs` | `CleanGiveUp` |
| | `HandlersRunWithSmmMtrrs` | `HandlersSeeSmmMtrrs` | `CleanGiveUp` |
| | `GatheredCorrect` | `GatheredFits` | `CleanGiveUp`, `LongTimeouts` |
| | `NoNormalModeCodeBesideHandlers` | `NoNormalModeCode` | `CleanGiveUp`, `LongTimeouts` |
| | `OsRunsWithItsMtrrs` | `OsSeesOsMtrrs` | `CleanGiveUp`, `LongTimeouts` |
| | `NobodyExitsUnderTheHandlers` | `QuietExit` (action property) | `CleanGiveUp`, `LongTimeouts` |
| `QncSmmDispatcherProofs` | `DispatcherTypes` | `TypeOK` | – |
| | `SwValuesAreUnique` | `UniqueSwValues` | – |
| | `EnablesFollowDatabase` | `EnablesMatchRecords` | – |
| | `TimersAreRestarted` | `TimersRestarted` | – |
| | `NoSmiIsLost` | `NothingLost` | `~AsyncSmi`, `RealSources` |
| `MpServicesProofs` | `ServiceTypes` | `TypeOK` | – |
| | `ServicesCorrect` | `MpInv` | `CarefulCallers`, `PromptAPs` |
| | `EachApRunsItsTask` | `OwnTask` | `CarefulCallers`, `PromptAPs` |
| | `EndedCallsAccount` | `EndedAccounted` | `CarefulCallers`, `PromptAPs` |
| | `SingleThreadIsOneByOne` | `OneByOne` | `CarefulCallers`, `PromptAPs` |
| | `IdleApsAreParked` | `IdleIsParked` | `CarefulCallers`, `PromptAPs` |
| | `StacksAreApart` | `OneCpuPerStack` | `CarefulCallers`, `PromptAPs` |
| | `OneBspOutsideSwitch` | `OneBsp` | `CarefulCallers`, `PromptAPs` |
| `OhciTransfersProofs` | `StructureKept` | `StructInv` | – |
| | `OhciTypes` | `TypeOK` | – |
| | `FreedBehindTheFrame` | `FramesBeginClean` (action property) | – |
| | `IntervalsAreKept` | `RateHonoured` | – |
| | `TogglesStayInStep` | `ToggleInStep` | `AsyncPackets \subseteq {1}` |
| `FaultTolerantWriteProofs` | `FtwInvariant` | `FtwInv` | – |
| | `FtwTypes` | `TypeOK` | – |
| | `FtwSettled` | `SettledWhenIdle` | – |
| | `FtwKeepsImages` | `NoLoss` | `RoomyLogs` |
| | `FtwIsAtomic` | `StoreIsAtomic` (refinement of `NvStore`) | `RoomyLogs` |
| | `FtwLosesNothing` | `NothingIsLost` | `RoomyLogs` |

*Constants.* The assumptions in the modules only type the constants (a finite set of CPUs, finitely
many kinds of calls, natural bounds, intervals from 1 to 255), so the theorems hold for any number of
CPUs, SMIs, registrations, requests, transfers, flash parts, writes and power failures.

*Hypotheses.* Each is a value some passing run gives the constant, and each is needed:
- `CleanGiveUp` excludes the race of finding 1 and nothing else; without it `Counter` is wrong.
- `LongTimeouts`: otherwise a BSP whose timer ran out while another CPU still executes the last lines of
  the previous run goes on without that CPU, which may leave SMM beside its handlers.
- `~AsyncSmi`: finding 2 loses an SMI that latches during a callback.
- `RealSources`: no QNCn type whose descriptor has no bits. `SourceIsActive()` is TRUE for one at
  any time (`QNCSmmHelpers.c:176`), so the search never gets behind its record, and setting EOS clears
  the status of the others; TLC confirms that `NothingLost` fails with such a child.
- `CarefulCallers` and `PromptAPs`: section 5 says what each excludes and what happens without it.
- One packet per asynchronous transfer: section 7.
- `RoomyLogs`: the log of a part with 4 KB erase sectors has room for all the writes, so it is never
  reclaimed. Parts with 64 KB sectors may have logs of any size, and reclaim them. Without it finding 4
  loses a block, and `ftw_spare` violates `NothingIsLost`. The parts of `ftw` satisfy it, and
  `FtwTypes` and `FtwSettled` do without it.

### The rendezvous

`SingleBsp` is inductive given `TypeOK`: a CPU enters the BSP's code only by seeing its own index, an
index is stored only over `NoCpu`, and only a CPU in the BSP's code, hence the one `BspIndex` names,
takes it away.

None of the counting properties is inductive: whether `ApCount` is right at a barrier depends on where
each AP has got to, that depends on the signals under way, and these on the BSP's place. `RunInv`
makes that dependence explicit. `At` is the place of the elected BSP. `Follows` gives the places an AP
may be at for each `At`: those who have taken the last signal (`Answered`), those who have yet to
(`Asked`), those serving procedures and those arriving. `SignalsFit` and `AnswersFit` say that each AP's
`Run` is 1 exactly while it is asked, and the BSP's the number of answers; `CounterFits`
and `CountFits` relate `Counter` and `ApCount` to the set of CPUs in the run; `PresentFits`, `BusyFits`,
`KnowsBsp`, `ModesFit`, `InsideFits` and `ClosingFits` tie the flags to the places, up to the three
separate stores with which a run is closed while others enter. The finite-set
lemmas turn a step of one CPU into a change of one in these cardinalities. The properties are
read off `RunInv`; two need a part of their own, `ReadyFits` and `SwitchFits`.

*Refinement.* The owner is the CPU in `OwnerPcs`, the tasks are `Busy` restricted to the APs in their loop.
Most steps move neither (`SilentMove`); the others are matched action by action. The end of a run maps to
the abstract one because `RunInv` leaves no task when the BSP leaves the handlers.

*MTRRs.* `MtrrInv` says for each place who has backed up and who has replaced: all backups are
taken before the first replacement, and a core shows the OS's MTRRs again only after the last
CPU on it restored them. Siblings share a core in any way. `GatheredFits` is what
`SmmWaitForApArrival()` achieves and who could undo it: nobody is about to clear `AllCpusInSync`
left from the run before, and who is outside has an SMI latched.

### The dispatcher

The type invariant includes that the two list pointers stay on live records. `UniqueSwValues` is
inductive given types. `EnablesMatchRecords` is not: after a wake-up the code enables SLP
without a look at the database; `SleepHasRecord` says that a Sleep child is live whenever the
dispatcher is on its way to sleep or asleep. `TimersFit` says that a periodic child may have reached its period only
while the timer source is being exhausted. `OwedFits` follows an owed child through a dispatch: its
source stays the only active one, the search has not passed its record, and the exhausting
walk does not either, since `GetNextNode` skips no live record (`NextNode`) although callbacks
register and remove.

### MP services

`ServiceTypes` holds for every caller. The others come from `MpInv`. Its idea is the *owner* of an
AP: `AllReq` is the `StartupAllAPs()` request under way, `InAll(p)` says that p has been handed to it and
is not done, `ThisReq(p)` is the `StartupThisAP()` request p is busy with. `ApFits` says that an AP has
an owner exactly when its `State` is neither idle nor disabled, and never two; `Works` says for each
`State` where the AP is and what it has fetched, unless it was sent an INIT and is not yet marked
(`Aborted`). `AllCounts` ties `CpuList`, `FailedCpuList`, `FinishCount` and `StartCount` to the request, also while
`ResetProcessor` goes through the list; `TurnsFit` keeps all but the first of `CpuList` parked in single
thread mode; `WakeFits` describes the loop that wakes the APs; `CallsFit` and `ThreadsFit` say that the main
thread and the notification are never in the same request. `RoleFits` lists the stages
of `AsmExchangeRole`, in which the two processors hold each other's stacks, and `Unowned` keeps both out of every
request; `OneCpuPerStack` and `OneBsp` follow.

### OHCI transfers

`StructInv`: every ED in use belongs to the list of asynchronous transfers, to the
synchronous call or to the cancel (`Places`), an endpoint has one at a time (`OneEach`), the completed TDs of an
ED are a prefix and its list serves its interval (`EdsFit`), and the enable bits follow the caller's place
(`CallFits`). `RateHonoured` further needs that the leaf table is the bit reversal that spreads every node of the
tree evenly over the 32 frames. `ToggleInv` says, of every endpoint not `Lost`, that the first
TD to come carries the device's toggle and the following ones alternate, and what toggle the cancel or the
synchronous call will return. Its last part, `LeftOver`, is about the controller that goes on after a call is done
with its descriptors: what is left on a list and can still be served belongs to an endpoint that is lost already,
so no packet moves the toggle of another. `FramesBeginClean` follows from `StructInv`, by which only a cancel
past `freeContext` has an ED with freed TDs, and then the interrupt lists are disabled.

### Fault tolerant write

The state that matters is in `todo`, the rest of the driver's program, and no property of the flash
alone is inductive: whether an erase loses anything depends on what is to be done after it. `FtwInv`
is `Types`, `FlashOK` and `Point`.

*The flash.* `FlashOK` is what holds at every moment, hence what a power failure leaves for start-up:
only the last entry of a log is open or torn, a torn entry was never committed, and a committed
write has one target. If that is the working block, the spare block is valid and its log has
come as far (`Fits`), because flushing it replaces the log too.

*The points.* `Point` lists the forms of `todo`, each `Do(op, rest)`, with what holds there: the calls of
`InitFtwProtocol()`, abort, reclaim, the three uses of the flush, the record of a write, restart and
the stages of `FtwWrite()`. Where a reclaim or an abort returns to is a parameter (`Cont`), so each function
is treated once. `Storing` covers erase and write of an area with the contents on the way, `Mirrored` says
that the spare block holds the value of the working block while that is overwritten, and `Keeps` carries
what was asked for through a reclaim in the middle of `FtwWrite()`. A first group of lemmas turns
the bodies of the functions into these forms, a second gives the outcomes of one flash operation (done or
cut short), and then there is one lemma per point. `FtwTypes` and `FtwSettled` are read off.

*Refinement.* `RecW` and `RecO` are what start-up makes of the two targets, as functions of the areas. Each step of
each point leaves them as they are (`Still`), wherever it is cut, with three exceptions: the mark
`SPARE_COMPLETED` is the store's `Commit`, the end of start-up its `Drop`, a call of `FtwWrite()` its
`Ask`. That neither becomes lost (`NoLoss`) has to go along in the induction: with 64 KB sectors
the repair of a volume whose header is gone erases the work space behind it as well, which is harmless
only because the content is then still in the spare block.

### Only model-checked

Liveness: `EveryoneLeaves`, `SmiServed`, `Served`, `CallsEnd`, `Recovers`, `ServedInTurn`. It is beyond the
prover. Every invariant, action property and refinement a passing run checks is stated by a theorem.

## 10. What is not modelled

*In modelled components.* Hot plug, exception registration and SMM profile in the rendezvous; the
counter arithmetic of `SyncTimer.c` (a timeout is a choice); the sleep callbacks of the ACPI driver;
the Run and Mwait loops of the APs and the early start-up of `CpuMpDxe`; the boot block path of fault
tolerant write (no driver in the repository produces the swap protocol it needs) and device errors;
attributes and address conversion in the block services, the SPI controller's polling; control
transfers (their toggles are constants), root hub ports, start and stop of the OHCI driver,
and what its controller writes into freed memory that is in use again.

*Whole components.* The SMM foundation, the variable driver and the callers of the lock box are not in
the repository, so the hand-overs of `PiSmmCommunication` and the lock box would be checked against
invented partners. Memory reference code, SEC, platform initialisation, the CPU drivers, the PCI host
bridge and S3 resume are one-pass programming of hardware: there is no state that two actors share,
and what could be wrong is in register values no model here would know. Boot device selection, capsule
update, ACPI and SMBIOS tables, TCG and secure boot helpers are sequential policy and table code over
services outside the repository. UART, I2C and SD drivers poll devices; EHCI and the USB bus are
EDK II code with small changes. `PROJECT.json` gives the reason for each.

*Beyond the prover.* Liveness under fairness, and what recursive definitions compute for every input.

## Running

    tlc -workers 2 -config SmmRelaxed.cfg MCSmmRendezvous
    tlc -workers 2 -config DispatchQuiet.cfg MCQncSmmDispatcher
    tlc -workers 2 -config MpServices.cfg MCMpServices
    tlc -workers 2 -config Ftw.cfg MCFaultTolerantWrite
    tlc -workers 2 -config Ohci.cfg MCOhciTransfers
    tlapm SmmRendezvousProofs.tla
    tlapm SmmRunProofs.tla
    tlapm SmmPromiseProofs.tla
    tlapm SmmMtrrProofs.tla
    tlapm QncSmmDispatcherProofs.tla
    tlapm MpServicesProofs.tla
    tlapm OhciTransfersProofs.tla
    tlapm FaultTolerantWriteProofs.tla

The other configurations run the same way, with the MC module of their component.
