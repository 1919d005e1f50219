--------------------------- MODULE QncSmmDispatcher ---------------------------
(***************************************************************************)
(* The SMI child dispatcher of the Quark north cluster                     *)
(* (QuarkSocPkg/QuarkNorthCluster/Smm/DxeSmm/QncSmmDispatcher): drivers    *)
(* register children for SMI sources, and QNCSmmCoreDispatcher(), called   *)
(* by the BSP for every SMI, finds an active source, calls the children    *)
(* registered for it and clears it.  The enable and status registers are   *)
(* shared with SmmControlDxe, the ACPI SMM driver and the hardware, which  *)
(* latches status bits while the dispatcher runs.                          *)
(*                                                                         *)
(* The callback database is a list to which records are only added at the  *)
(* tail, so a record's place is the number of its registration: a handle   *)
(* is that number and GetNextNode() the next larger live one.  A bit       *)
(* description is its bit's name; the enable and the status bit of a       *)
(* source share one.  A register is the set of its bits that are 1.        *)
(***************************************************************************)
EXTENDS Integers, FiniteSets

CONSTANTS
    Requests,           \* the registrations drivers ask for
    MaxRegistrations,   \* bound: records created in one behaviour
    MAXIMUM_SWI_VALUE,  \* 0xFF in QNCSmm.h
    CommandPorts,       \* the values software writes to the APM port
    SleepTypes,         \* the values the OS writes to SLP_TYP
    HwSources,          \* the sources that fire by themselves
    AsyncSmi            \* status bits latch at any moment, several at a time

ASSUME BoundsAssumption ==
    /\ MaxRegistrations \in Nat
    /\ MAXIMUM_SWI_VALUE \in Nat
    /\ CommandPorts \subseteq 0 .. MAXIMUM_SWI_VALUE
    /\ SleepTypes \subseteq {0, 3, 4, 5}
    /\ HwSources \subseteq {"SWT", "GPIO", "RTC", "THRM", "BIOSWP"}
    /\ AsyncSmi \in BOOLEAN

Types == {"Sx", "Sw", "Gpi", "QNCn", "PowerButton", "PeriodicTimer"}

\* A registration context: key is SwSmiInputValue, Sx.Type, QNCn.Type or
\* PeriodicTimer.Period, and tick is SmiTickInterval.
Contexts == [type : Types, key : Int, tick : Nat]
ASSUME RequestsAssumption == Requests \subseteq Contexts

Handles == 1 .. MaxRegistrations
NULL == 0

VARIABLES
    live,               \* the handles in mPrivateData.CallbackDataBase
    rec,                \* the record of each handle
    last,               \* the last handle given out
    hw,                 \* the enable, status and PMCW registers, and mTimers
    SciEn,              \* PM1_CNT.SCI_EN: an ACPI OS is present
    SlpTyp,             \* PM1_CNT.SLP_TYP
    ApmCnt,             \* the APM command port
    pc, RecordInDb, RecordToExhaust, ActiveSource, SxChildWasDispatched,
    unserved,           \* children owed a call for an SMI that has happened
    swtMasked           \* EnableAcpiCallback() turned the SWT enable off

dbVars == <<live, rec, last>>
pmVars == <<SciEn, SlpTyp, ApmCnt>>
locals == <<RecordInDb, RecordToExhaust, ActiveSource, SxChildWasDispatched>>
ghosts == <<unserved, swtMasked>>
vars == <<dbVars, hw, pmVars, pc, locals, ghosts>>

(***************************************************************************)
(* Sources and their registers.                                            *)
(***************************************************************************)
SmisBits == {"SLP", "APM", "SWT", "GPIO"}
Bits == SmisBits \cup {"RTC", "THRM", "BIOSWP"}
NoSource == "none"      \* NULL_SOURCE_DESC: no enable and no status bit
Sources == Bits \cup {NoSource}

\* QNCN_SOURCE_DESCS
RtcAlarm == 2
BiosWp == 11
ThrmSts == 14
NUM_ICHN_TYPES == 43
QncnSource(n) ==
    CASE n = RtcAlarm -> "RTC"
      [] n = BiosWp -> "BIOSWP"
      [] n = ThrmSts -> "THRM"
      [] OTHER -> NoSource

\* SX_SOURCE_DESC, SW_SOURCE_DESC, GPI_SOURCE_DESC, mTIMER_SOURCE_DESCS
SrcDesc(r) ==
    CASE r.type = "Sx" -> "SLP"
      [] r.type = "Sw" -> "APM"
      [] r.type = "Gpi" -> "GPIO"
      [] r.type = "PeriodicTimer" -> "SWT"
      [] OTHER -> QncnSource(r.key)

\* The status bits of the register that holds bit s.
RegisterOf(s) == IF s \in SmisBits THEN SmisBits ELSE {s}

\* WriteBitDesc() on an enable bit: read, change the bit, write back.
SetEnable(h, s) == [h EXCEPT !.en = @ \cup ({s} \cap Bits)]
QNCSmmDisableSource(h, s) == [h EXCEPT !.en = @ \ {s}]

\* WriteBitDesc() on a status bit reads the register, sets the bit and writes
\* all of it back.  The status registers clear the bits written as 1, so every
\* bit that was read as 1 is cleared.  BIOSWE (QNC_SMM_CLEAR_WITH_ZERO) is an
\* ordinary bit.
QNCSmmClearSource(h, s) == [h EXCEPT !.sts = @ \ RegisterOf(s)]
QNCSmmEnableSource(h, s) == QNCSmmClearSource(SetEnable(h, s), s)

\* QNCSmmSetAndCheckEos() ors EOS into SMIS, with the same effect on it.
QNCSmmSetAndCheckEos(h) == [h EXCEPT !.sts = @ \ SmisBits]

\* SourceIsActive(); ThrmSts is QNC_SMM_SCI_EN_DEPENDENT.
SourceIsActive(s) ==
    /\ ~(s = "THRM" /\ SciEn)
    /\ s \in Bits => s \in hw.en /\ s \in hw.sts

(***************************************************************************)
(* The periodic timer.  PMCW[2:0] selects the rate, an index into the      *)
(* interval table; it is kept as the set of its bits.                      *)
(***************************************************************************)
\* mSmmPeriodicTimerIntervals, in units of 100 ns
Interval == [i \in 0 .. 7 |->
    CASE i = 0 -> 15000
      [] i = 1 -> 160000
      [] i = 2 -> 320000
      [] i = 3 -> 640000
      [] i = 4 -> 80000000
      [] i = 5 -> 160000000
      [] i = 6 -> 320000000
      [] i = 7 -> 640000000]

Fits(c, i) ==
    \/ c.tick = 0 /\ c.key >= Interval[i]
    \/ c.tick = Interval[i]

\* ContextToTimerInterval() returns the first entry that fits.
HasTimerInterval(c) == \E i \in 0 .. 7 : Fits(c, i)
ContextToTimerInterval(c) ==
    Interval[CHOOSE i \in 0 .. 7 : Fits(c, i) /\ \A j \in 0 .. i - 1 : ~Fits(c, j)]

Timers(db, r) == {h \in db : r[h].type = "PeriodicTimer"}

\* The entry that is the smallest SmiTickInterval asked for, if there is one.
IsMinReqInterval(db, r, i) ==
    /\ \E h \in Timers(db, r) : r[h].tick = Interval[i]
    /\ \A h \in Timers(db, r) : r[h].tick >= Interval[i]

RateBits(i) == {b \in 0 .. 2 : (i \div 2^b) % 2 = 1}

\* A child without a tick makes the minimum 0, which no case of the switch
\* names: the rate is or-ed with 0 and CurrentSetting is kept.
OrRate(h, db, r) ==
    IF \E i \in 0 .. 7 : IsMinReqInterval(db, r, i)
    THEN LET i == CHOOSE i \in 0 .. 7 : IsMinReqInterval(db, r, i)
         IN  [h EXCEPT !.pmcw = @ \cup RateBits(i), !.pse = TRUE,
                       !.CurrentSetting = i]
    ELSE [h EXCEPT !.pse = TRUE]

QNCSmmPeriodicTimerProgramTimers(h, db, r) ==
    IF Timers(db, r) = {}
    THEN QNCSmmDisableSource(h, "SWT")
    ELSE QNCSmmClearSource(OrRate(h, db, r), "SWT")

\* Faulty: nothing is restarted.
KeepElapsed(db, r) == r
\* The second half of QNCSmmPeriodicTimerClearSource().
ResetElapsed(db, r) ==
    [h \in Handles |->
        IF h \in Timers(db, r) /\ r[h].elapsed >= r[h].key
        THEN [r[h] EXCEPT !.elapsed = 0]
        ELSE r[h]]

(***************************************************************************)
(* Walking the database.                                                   *)
(***************************************************************************)
First(s) == IF s = {} THEN NULL ELSE CHOOSE m \in s : \A k \in s : m <= k
GetFirstNode == First(live)
\* Faulty: a handle that was removed is followed like any other.
FollowAll(h) == IF h < last THEN h + 1 ELSE NULL
GetNextNode(h) == First({k \in live : k > h})

\* No record: not allocated yet, or freed.
Blank == [type |-> "PowerButton", key |-> 0, tick |-> 0, elapsed |-> 0]

Init ==
    /\ live = {}
    /\ rec = [h \in Handles |-> Blank]
    /\ last = 0
    /\ hw = [en |-> {"APM"}, sts |-> {}, pmcw |-> {}, pse |-> FALSE,
             CurrentSetting |-> 0]
    /\ SciEn = FALSE
    /\ SlpTyp = 0
    /\ ApmCnt = 0
    /\ pc = "idle"
    /\ RecordInDb = NULL
    /\ RecordToExhaust = NULL
    /\ ActiveSource = NoSource
    /\ SxChildWasDispatched = FALSE
    /\ unserved = {}
    /\ swtMasked = FALSE

(***************************************************************************)
(* Registration, from a driver's entry point (pc = "idle": drivers are     *)
(* started inside SMM, where SMIs latch and wait) or from a callback.  A   *)
(* refused request frees its record and changes nothing.                   *)
(***************************************************************************)
SxS0 == 0
EfiMaximumSleepType == 6
Unassigned == -1        \* SwSmiInputValue == (UINTN)-1

\* Faulty: every value is free.
NeverDuplicate(v) == FALSE
SmiInputValueDuplicateCheck(v) ==
    \E h \in live : rec[h].type = "Sw" /\ rec[h].key = v

\* The first free value, or Unassigned; MAXIMUM_SWI_VALUE is never assigned.
Free == {v \in 1 .. MAXIMUM_SWI_VALUE - 1 : ~SmiInputValueDuplicateCheck(v)}
SwSmiInputValue(c) ==
    IF c.key # Unassigned THEN c.key
    ELSE IF Free = {} THEN Unassigned
    ELSE CHOOSE v \in Free : \A w \in Free : v <= w

ChildContext(c) == IF c.type = "Sw" THEN [c EXCEPT !.key = SwSmiInputValue(c)] ELSE c

Acceptable(c) ==
    \/ c.type = "Sx" /\ c.key \in SxS0 .. EfiMaximumSleepType - 1
    \/ c.type = "Sw" /\ c.key \in 0 .. MAXIMUM_SWI_VALUE
                     /\ ~SmiInputValueDuplicateCheck(c.key)
    \/ c.type = "Gpi"
    \/ c.type = "QNCn" /\ c.key \in 0 .. NUM_ICHN_TYPES - 1
    \/ c.type = "PeriodicTimer" /\ HasTimerInterval(c)

\* Nothing is waiting for the dispatcher.
Quiet == \A s \in Bits : ~SourceIsActive(s)

QNCSmmCoreRegister(request) ==
    /\ pc = "callback" \/ (pc = "idle" /\ (AsyncSmi \/ Quiet))
    /\ last < MaxRegistrations
    /\ Acceptable(ChildContext(request))
    /\ LET c == ChildContext(request)
           s == SrcDesc(c)
           timer == c.type = "PeriodicTimer"
           h == last + 1
           db == live \cup {h}
           r == [rec EXCEPT ![h] = [type |-> c.type, key |-> c.key,
                                    tick |-> c.tick, elapsed |-> 0]]
           mapped == QNCSmmPeriodicTimerProgramTimers(hw, live, rec)
           cleared == IF timer THEN QNCSmmPeriodicTimerProgramTimers(mapped, db, r)
                      ELSE QNCSmmClearSource(hw, s)
       IN  /\ live' = db
           /\ last' = h
           /\ rec' = IF timer THEN ResetElapsed(db, r) ELSE r
           /\ hw' = QNCSmmEnableSource(cleared, s)
           /\ swtMasked' = (swtMasked /\ ~timer)
    /\ UNCHANGED <<pmVars, pc, locals, unserved>>

\* Faulty: the source of any record may be disabled.
NoneLeft(h) == TRUE
\* No record is left with the enables of h (CompareEnables).
SafeToDisable(h) == \A k \in live \ {h} : SrcDesc(rec[k]) # SrcDesc(rec[h])

\* The children this platform registers never unregister the record the
\* dispatcher is standing on, which it reads after the callback returns.
QNCSmmCoreUnRegister(h) ==
    /\ pc \in {"idle", "callback"}
    /\ h \in live
    /\ pc = "callback" => h \notin {RecordInDb, RecordToExhaust}
    /\ live' = live \ {h}
    /\ hw' = IF SafeToDisable(h) THEN QNCSmmDisableSource(hw, SrcDesc(rec[h])) ELSE hw
    /\ unserved' = unserved \ {h}
    /\ rec' = [rec EXCEPT ![h] = Blank]
    /\ UNCHANGED <<last, pmVars, pc, locals, swtMasked>>

(***************************************************************************)
(* SMI sources.  Children registered for an enabled source are owed a call *)
(* when it fires and their context matches.                                *)
(***************************************************************************)
Owed(s, key) ==
    {h \in live : /\ SrcDesc(rec[h]) = s
                  /\ s \in hw.en
                  /\ s \in {"APM", "SLP"} => rec[h].key = key
                  /\ ~(s = "THRM" /\ SciEn)}

\* EFI_SMM_CONTROL2.Trigger(): SmmClear(), then the APM port is written.  Code
\* outside SMM runs only while no source is active.
Activate(v) ==
    /\ pc = "idle"
    /\ Quiet
    /\ hw' = [hw EXCEPT !.sts = (@ \ SmisBits) \cup {"APM"}, !.en = @ \cup {"APM"}]
    /\ ApmCnt' = v
    /\ unserved' = unserved \cup {h \in live : rec[h].type = "Sw" /\ rec[h].key = v}
    /\ UNCHANGED <<dbVars, SciEn, SlpTyp, pc, locals, swtMasked>>

\* EFI_SMM_CONTROL2.Clear().  With an empty database the dispatcher returns
\* without clearing anything and without EOS: no SMI is raised until software
\* clears the one it triggered.
SmmClear ==
    /\ pc = "idle"
    /\ Quiet \/ live = {}
    /\ hw' = [hw EXCEPT !.sts = @ \ SmisBits]
    /\ UNCHANGED <<dbVars, pmVars, pc, locals, ghosts>>

\* The OS writes SLP_TYP (V_S0, V_S3, V_S4 or V_S5) and SLP_EN.
OsSleep(typ) ==
    /\ pc = "idle"
    /\ Quiet
    /\ SlpTyp' = typ
    /\ hw' = [hw EXCEPT !.sts = @ \cup {"SLP"}]
    /\ unserved' = unserved \cup Owed("SLP", typ)
    /\ UNCHANGED <<dbVars, SciEn, ApmCnt, pc, locals, swtMasked>>

\* A GPIO edge, a timer tick, the RTC alarm, a thermal event, or a BIOS write
\* enable; without AsyncSmi one at a time and never while the dispatcher runs.
HwEvent(s) ==
    /\ pc # "asleep"
    /\ AsyncSmi \/ (pc = "idle" /\ Quiet)
    /\ s = "SWT" => hw.pse
    /\ hw' = [hw EXCEPT !.sts = @ \cup {s}]
    /\ unserved' = unserved \cup Owed(s, 0)
    /\ UNCHANGED <<dbVars, pmVars, pc, locals, swtMasked>>

(***************************************************************************)
(* QNCSmmCoreDispatcher().  QNCSmmSetAndCheckEos() returns TRUE, so the    *)
(* outer loop runs once: at most one source is serviced per call.  With an *)
(* empty database the call returns at once.                                *)
(***************************************************************************)
Dispatch ==
    /\ pc = "idle"
    /\ live # {}
    /\ pc' = "search"
    /\ RecordInDb' = GetFirstNode
    /\ SxChildWasDispatched' = FALSE
    /\ UNCHANGED <<dbVars, hw, pmVars, RecordToExhaust, ActiveSource, ghosts>>

SearchNext ==
    /\ pc = "search"
    /\ RecordInDb # NULL
    /\ ~SourceIsActive(SrcDesc(rec[RecordInDb]))
    /\ RecordInDb' = GetNextNode(RecordInDb)
    /\ UNCHANGED <<dbVars, hw, pmVars, pc, RecordToExhaust, ActiveSource,
                   SxChildWasDispatched, ghosts>>

FoundSource ==
    /\ pc = "search"
    /\ RecordInDb # NULL
    /\ SourceIsActive(SrcDesc(rec[RecordInDb]))
    /\ pc' = "exhaust"
    /\ ActiveSource' = SrcDesc(rec[RecordInDb])
    /\ RecordToExhaust' = RecordInDb
    /\ SxChildWasDispatched' =
          (SxChildWasDispatched \/ rec[RecordInDb].type = "Sx")
    /\ UNCHANGED <<dbVars, hw, pmVars, RecordInDb, ghosts>>

SearchEnd ==
    /\ pc = "search"
    /\ RecordInDb = NULL
    /\ pc' = "eos"
    /\ UNCHANGED <<dbVars, hw, pmVars, locals, ghosts>>

\* PeriodicTimerGetContext() adds the child's own table interval.
ElapsedTime(h) ==
    IF rec[h].type = "PeriodicTimer"
    THEN rec[h].elapsed + ContextToTimerInterval(rec[h])
    ELSE rec[h].elapsed

\* {Sx,Sw,PeriodicTimer}CmpContext(); a type without GetContext always matches.
ContextsMatch(h) ==
    CASE rec[h].type = "Sx" -> rec[h].key = SlpTyp
      [] rec[h].type = "Sw" -> rec[h].key = ApmCnt
      [] rec[h].type = "PeriodicTimer" -> ElapsedTime(h) >= rec[h].key
      [] OTHER -> TRUE

\* Faulty: the record the source was found through is passed over.
Rest(h) == SrcDesc(rec[h]) = ActiveSource /\ h # RecordInDb
CompareSources(h) == SrcDesc(rec[h]) = ActiveSource

Exhaust ==
    /\ pc = "exhaust"
    /\ RecordToExhaust # NULL
    /\ LET h == RecordToExhaust IN
        \/ /\ CompareSources(h)
           /\ rec' = [rec EXCEPT ![h].elapsed = ElapsedTime(h)]
           /\ unserved' = unserved \ {h}
           /\ \/ /\ ContextsMatch(h)
                 /\ pc' = "callback"
                 /\ UNCHANGED RecordToExhaust
              \/ /\ ~ContextsMatch(h)
                 /\ RecordToExhaust' = GetNextNode(h)
                 /\ UNCHANGED pc
        \/ /\ ~CompareSources(h)
           /\ RecordToExhaust' = GetNextNode(h)
           /\ UNCHANGED <<rec, unserved, pc>>
    /\ UNCHANGED <<live, last, hw, pmVars, RecordInDb, ActiveSource,
                   SxChildWasDispatched, swtMasked>>

CallbackReturns ==
    /\ pc = "callback"
    /\ pc' = "exhaust"
    /\ RecordToExhaust' = GetNextNode(RecordToExhaust)
    /\ SxChildWasDispatched' =
          (SxChildWasDispatched \/ rec[RecordToExhaust].type = "Sx")
    /\ UNCHANGED <<dbVars, hw, pmVars, RecordInDb, ActiveSource, ghosts>>

\* RecordInDb->ClearSource, or QNCSmmClearSource() where it is NULL.
ClearActive ==
    /\ pc = "exhaust"
    /\ RecordToExhaust = NULL
    /\ pc' = "eos"
    /\ IF rec[RecordInDb].type = "PeriodicTimer"
       THEN /\ hw' = QNCSmmPeriodicTimerProgramTimers(hw, live, rec)
            /\ rec' = ResetElapsed(live, rec)
       ELSE /\ hw' = QNCSmmClearSource(hw, ActiveSource)
            /\ UNCHANGED rec
    /\ UNCHANGED <<live, last, pmVars, locals, ghosts>>

\* The last use of the locals.
SetEos ==
    /\ pc = "eos"
    /\ hw' = QNCSmmSetAndCheckEos(hw)
    /\ pc' = IF SxChildWasDispatched THEN "sleep" ELSE "idle"
    /\ RecordInDb' = NULL
    /\ RecordToExhaust' = NULL
    /\ ActiveSource' = NoSource
    /\ SxChildWasDispatched' = FALSE
    /\ UNCHANGED <<dbVars, pmVars, ghosts>>

\* QNCSmmSxGoToSleep() up to the write of SLP_EN; its IoAnd16 on SMIS writes
\* back SLP alone.
QNCSmmSxGoToSleep ==
    /\ pc = "sleep"
    /\ pc' = "asleep"
    /\ hw' = QNCSmmDisableSource(QNCSmmClearSource(hw, "SLP"), "SLP")
    /\ UNCHANGED <<dbVars, pmVars, locals, ghosts>>

\* The code after SLP_EN, when the machine wakes there or has not lost power.
Resume ==
    /\ pc = "asleep"
    /\ pc' = "idle"
    /\ SlpTyp' = IF SciEn THEN SlpTyp ELSE SxS0
    /\ hw' = QNCSmmEnableSource(QNCSmmClearSource(hw, "SLP"), "SLP")
    /\ UNCHANGED <<dbVars, SciEn, ApmCnt, locals, ghosts>>

(***************************************************************************)
(* The callbacks of AcpiSmmPlatform.c that change what the dispatcher      *)
(* reads.  From then on the OS owns the thermal event.                     *)
(***************************************************************************)
EnableAcpiCallback ==
    /\ pc = "callback"
    /\ rec[RecordToExhaust].type = "Sw"
    /\ hw' = [hw EXCEPT !.en = @ \ {"SWT"}]
    /\ SciEn' = TRUE
    /\ swtMasked' = TRUE
    /\ unserved' = {h \in unserved : SrcDesc(rec[h]) # "THRM"}
    /\ UNCHANGED <<dbVars, SlpTyp, ApmCnt, pc, locals>>

DisableAcpiCallback ==
    /\ pc = "callback"
    /\ rec[RecordToExhaust].type = "Sw"
    /\ SciEn' = FALSE
    /\ UNCHANGED <<dbVars, hw, SlpTyp, ApmCnt, pc, locals, ghosts>>

Dispatcher ==
    \/ SearchNext \/ FoundSource \/ SearchEnd
    \/ Exhaust \/ CallbackReturns \/ ClearActive
    \/ SetEos \/ QNCSmmSxGoToSleep

Next ==
    \/ \E c \in Requests : QNCSmmCoreRegister(c)
    \/ \E h \in Handles : QNCSmmCoreUnRegister(h)
    \/ \E v \in CommandPorts : Activate(v)
    \/ SmmClear
    \/ \E typ \in SleepTypes : OsSleep(typ)
    \/ \E s \in HwSources : HwEvent(s)
    \/ Dispatch
    \/ Dispatcher
    \/ Resume
    \/ EnableAcpiCallback
    \/ DisableAcpiCallback

Spec == Init /\ [][Next]_vars

\* The dispatcher runs to its end once called (callbacks return), and an active
\* source makes the chipset raise an SMI.
FairSpec ==
    /\ Spec
    /\ WF_vars(Dispatcher)
    /\ WF_vars(~Quiet /\ Dispatch)

(***************************************************************************)
(* Properties.                                                             *)
(***************************************************************************)
Record == [type : Types, key : Int, tick : Nat, elapsed : Nat]
Registers == [en : SUBSET Bits, sts : SUBSET Bits, pmcw : SUBSET (0 .. 2),
              pse : BOOLEAN, CurrentSetting : 0 .. 7]

\* Every variable has its type, a periodic child in the database has an entry
\* of the interval table, and the dispatcher's two list pointers are NULL or
\* point to records that exist (RecordInDb, RecordToExhaust), callbacks that
\* register and unregister included.
TypeOK ==
    /\ live \subseteq 1 .. last
    /\ rec \in [Handles -> Record]
    /\ \A h \in Timers(live, rec) : HasTimerInterval(rec[h])
    /\ last \in 0 .. MaxRegistrations
    /\ hw \in Registers
    /\ SciEn \in BOOLEAN
    /\ SlpTyp \in {0, 3, 4, 5}
    /\ ApmCnt \in 0 .. MAXIMUM_SWI_VALUE
    /\ pc \in {"idle", "search", "exhaust", "callback", "eos", "sleep", "asleep"}
    /\ RecordInDb \in Handles \cup {NULL}
    /\ RecordToExhaust \in Handles \cup {NULL}
    /\ pc = "search" => RecordInDb \in live \cup {NULL}
    /\ pc = "exhaust" => RecordInDb \in live /\ RecordToExhaust \in live \cup {NULL}
    /\ pc = "callback" => RecordInDb \in live /\ RecordToExhaust \in live
    /\ ActiveSource \in Sources
    /\ SxChildWasDispatched \in BOOLEAN
    /\ unserved \subseteq live
    /\ swtMasked \in BOOLEAN

\* A software SMI has one owner: no two live Sw children share a
\* SwSmiInputValue, whether it was asked for or assigned, and none lies outside
\* 0 .. MAXIMUM_SWI_VALUE (SmiInputValueDuplicateCheck and its two callers).
UniqueSwValues ==
    \A h, k \in live :
        rec[h].type = "Sw" =>
            /\ rec[h].key \in 0 .. MAXIMUM_SWI_VALUE
            /\ rec[k].type = "Sw" /\ rec[k].key = rec[h].key => h = k

\* The enable registers follow the database, whatever the order of
\* registrations, removals, callbacks and sleep: a source with a child is
\* enabled (but for a timer EnableAcpiCallback() turned off, and for SLP while
\* the machine is put to sleep), and a source nobody listens to is not (but for
\* APM, which SmmControlDxe enables).
EnablesMatchRecords ==
    \A s \in Bits :
        /\ (\E h \in live : SrcDesc(rec[h]) = s) =>
              s \in hw.en \/ (s = "SWT" /\ swtMasked) \/ (s = "SLP" /\ pc = "asleep")
        /\ s \in hw.en => s = "APM" \/ \E h \in live : SrcDesc(rec[h]) = s

\* As long as sources fire one at a time, no child misses an SMI: one that is
\* owed a call has its source still latched or lies ahead of the dispatcher in
\* the queue it is exhausting.
NothingLost ==
    \A h \in unserved :
        \/ SrcDesc(rec[h]) \in hw.sts
        \/ /\ pc \in {"exhaust", "callback"}
           /\ SrcDesc(rec[h]) = ActiveSource
           /\ RecordToExhaust # NULL
           /\ h >= RecordToExhaust

\* Between two SMIs the elapsed time of a periodic child is short of its
\* period: a child that reached it was called and restarted, by the step that
\* clears the source, also if callbacks changed the database meanwhile.
TimersRestarted ==
    pc = "idle" => \A h \in Timers(live, rec) :
                       rec[h].elapsed # 0 => rec[h].elapsed < rec[h].key

\* A child that is owed a call gets it, or is unregistered.
Served == \A h \in Handles : h \in unserved ~> h \notin unserved

\* QNCSmmCore.c:795: "If there is an asynchronous SMI that occurs while
\* processing the Callback, let all of the drivers (including this one) have an
\* opportunity to scan for the SMI and handle it.": what the dispatcher writes
\* to the status registers leaves the sources latched whose children it has not
\* called.
LateSmiKept ==
    [][\A h \in unserved :
          pc \in {"exhaust", "eos"} /\ SrcDesc(rec[h]) \in hw.sts
              => SrcDesc(rec[h]) \in hw'.sts \/ h \notin unserved']_vars
=============================================================================
