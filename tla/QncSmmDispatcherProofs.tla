----------------------- MODULE QncSmmDispatcherProofs -----------------------
(***************************************************************************)
(* Proofs about QncSmmDispatcher for any set of registration requests, any *)
(* number of registrations and SMI sources firing at any moment.           *)
(***************************************************************************)
EXTENDS QncSmmDispatcher, WellFoundedInduction, TLAPS

(***************************************************************************)
(* Walking the database.                                                   *)
(***************************************************************************)
\* A set of natural numbers that is not empty has a least element.
LEMMA LeastElement ==
    ASSUME NEW S \in SUBSET Nat, S # {}
    PROVE  \E m \in S : \A k \in S : m <= k
<1>1. PICK m \in S : \A k \in S : ~(<<k, m>> \in OpToRel(<, Nat))
  BY NatLessThanWellFounded, WFMin
<1>2. \A k \in S : ~(k < m)
  BY <1>1 DEF OpToRel
<1> QED BY <1>2

\* GetFirstNode and GetNextNode return NULL or a record of the database.
LEMMA FirstInSet ==
    ASSUME NEW S \in SUBSET Nat
    PROVE  First(S) \in S \cup {NULL}
BY LeastElement DEF First

(***************************************************************************)
(* The interval table.                                                     *)
(***************************************************************************)
\* Every entry of the table is a natural number.
LEMMA IntervalNat == \A i \in 0 .. 7 : Interval[i] \in Nat
BY DEF Interval

\* A context with an entry in the table has a first one.
LEMMA TimerIntervalNat ==
    ASSUME NEW c, HasTimerInterval(c)
    PROVE  ContextToTimerInterval(c) \in Nat
<1> DEFINE S == {i \in 0 .. 7 : Fits(c, i)}
<1>1. S \in SUBSET Nat /\ S # {}
  BY DEF HasTimerInterval
<1>2. PICK m \in S : \A k \in S : m <= k
  BY <1>1, LeastElement
<1>3. m \in 0 .. 7 /\ Fits(c, m) /\ \A j \in 0 .. m - 1 : ~Fits(c, j)
  BY <1>2
<1> QED BY <1>3, IntervalNat DEF ContextToTimerInterval

(***************************************************************************)
(* The registers.                                                          *)
(***************************************************************************)
\* What clearing, enabling and disabling a source do to the enables.
LEMMA RegisterOperations ==
    ASSUME NEW h \in Registers, NEW s
    PROVE  /\ QNCSmmClearSource(h, s) \in Registers
           /\ QNCSmmClearSource(h, s).en = h.en
           /\ QNCSmmEnableSource(h, s) \in Registers
           /\ QNCSmmEnableSource(h, s).en = h.en \cup ({s} \cap Bits)
           /\ QNCSmmDisableSource(h, s) \in Registers
           /\ QNCSmmDisableSource(h, s).en = h.en \ {s}
           /\ QNCSmmSetAndCheckEos(h) \in Registers
           /\ QNCSmmSetAndCheckEos(h).en = h.en
BY DEF Registers, QNCSmmClearSource, QNCSmmEnableSource, SetEnable,
       QNCSmmDisableSource, QNCSmmSetAndCheckEos

\* Programming the timer touches the SWT enable only, and only when no
\* periodic child is left.
LEMMA ProgramTimersEnables ==
    ASSUME NEW h \in Registers, NEW db, NEW r
    PROVE  /\ QNCSmmPeriodicTimerProgramTimers(h, db, r) \in Registers
           /\ QNCSmmPeriodicTimerProgramTimers(h, db, r).en =
                IF Timers(db, r) = {} THEN h.en \ {"SWT"} ELSE h.en
<1>1. OrRate(h, db, r) \in Registers /\ OrRate(h, db, r).en = h.en
  BY DEF OrRate, Registers, RateBits
<1> QED BY <1>1, RegisterOperations DEF QNCSmmPeriodicTimerProgramTimers

\* Restarting timers changes nothing but elapsed times.
LEMMA ResetKeepsContexts ==
    ASSUME NEW db \in SUBSET Handles, NEW r \in [Handles -> Record]
    PROVE  /\ ResetElapsed(db, r) \in [Handles -> Record]
           /\ \A h \in Handles : /\ ResetElapsed(db, r)[h].type = r[h].type
                                 /\ ResetElapsed(db, r)[h].key = r[h].key
                                 /\ ResetElapsed(db, r)[h].tick = r[h].tick
BY DEF ResetElapsed, Record

(***************************************************************************)
(* Type correctness.                                                       *)
(***************************************************************************)
USE DEF vars, dbVars, pmVars, locals, ghosts

\* Handles are natural numbers, and so are the handles in the database.
LEMMA LiveHandles ==
    ASSUME TypeOK
    PROVE  live \subseteq Handles /\ Handles \subseteq Nat /\ NULL \notin live
BY BoundsAssumption DEF TypeOK, Handles, NULL

\* A walk over the database stays in it.
LEMMA WalkType ==
    ASSUME TypeOK
    PROVE  /\ GetFirstNode \in live \cup {NULL}
           /\ \A h : GetNextNode(h) \in live \cup {NULL}
<1>1. GetFirstNode \in live \cup {NULL}
  BY LiveHandles, FirstInSet DEF GetFirstNode
<1>2. ASSUME NEW h PROVE GetNextNode(h) \in live \cup {NULL}
  <2>1. {k \in live : k > h} \in SUBSET Nat
    BY LiveHandles
  <2> QED BY <2>1, FirstInSet DEF GetNextNode
<1> QED BY <1>1, <1>2

\* A source description is one of the sources.
LEMMA SrcDescType == \A r : SrcDesc(r) \in Sources
BY DEF SrcDesc, QncnSource, Sources, Bits, SmisBits, NoSource

\* The context an accepted request leaves in its record is a context.
LEMMA ChildContextType ==
    ASSUME NEW c \in Contexts
    PROVE  /\ ChildContext(c) \in Contexts
           /\ ChildContext(c).type = c.type
           /\ c.type # "Sw" => ChildContext(c) = c
<1>1. SwSmiInputValue(c) \in Int
  <2>1. Free \in SUBSET Nat
    BY BoundsAssumption DEF Free
  <2>2. Free # {} => (CHOOSE v \in Free : \A w \in Free : v <= w) \in Free
    BY <2>1, LeastElement
  <2>3. c.key \in Int
    BY DEF Contexts
  <2>4. CASE c.key # Unassigned
    BY <2>3, <2>4 DEF SwSmiInputValue
  <2>5. CASE c.key = Unassigned /\ Free = {}
    BY <2>5 DEF SwSmiInputValue, Unassigned
  <2>6. CASE c.key = Unassigned /\ Free # {}
    <3>1. SwSmiInputValue(c) \in Free
      BY <2>2, <2>6 DEF SwSmiInputValue
    <3>2. SwSmiInputValue(c) \in Nat
      BY <2>1, <3>1, Zenon
    <3> QED BY <3>2
  <2> QED BY <2>4, <2>5, <2>6
<1> QED BY <1>1 DEF ChildContext, Contexts

\* Registering appends one record that holds the accepted context and leaves
\* the contexts of the others alone.
LEMMA RegisterRecords ==
    ASSUME TypeOK, NEW request \in Requests, QNCSmmCoreRegister(request)
    PROVE  /\ last' = last + 1 /\ last + 1 \in Handles /\ last + 1 \notin live
           /\ live' = live \cup {last + 1}
           /\ rec' \in [Handles -> Record]
           /\ \A k \in live : /\ rec'[k].type = rec[k].type
                              /\ rec'[k].key = rec[k].key
                              /\ rec'[k].tick = rec[k].tick
           /\ rec'[last + 1].type = ChildContext(request).type
           /\ rec'[last + 1].key = ChildContext(request).key
           /\ rec'[last + 1].tick = ChildContext(request).tick
<1> DEFINE c == ChildContext(request)
           h == last + 1
           new == [type |-> c.type, key |-> c.key, tick |-> c.tick, elapsed |-> 0]
           r == [rec EXCEPT ![h] = new]
           db == live \cup {h}
<1>1. c \in Contexts
  BY ChildContextType, RequestsAssumption
<1>2. h \in Handles /\ h \in Nat /\ last' = h /\ live' = db
  BY BoundsAssumption DEF TypeOK, Handles, QNCSmmCoreRegister
<1>3. new \in Record /\ r \in [Handles -> Record]
  BY <1>1, <1>2 DEF Contexts, Record, TypeOK
<1>4. db \in SUBSET Handles /\ h \notin live
  <2>1. db \in SUBSET Handles
    BY <1>2, LiveHandles
  <2>2. last \in Nat /\ \A k \in live : k <= last
    BY BoundsAssumption DEF TypeOK
  <2> QED BY <2>1, <2>2
<1>5. /\ rec' \in [Handles -> Record]
      /\ \A k \in Handles : rec'[k].type = r[k].type /\ rec'[k].key = r[k].key
                            /\ rec'[k].tick = r[k].tick
  BY <1>3, <1>4, ResetKeepsContexts DEF QNCSmmCoreRegister
<1>6. r[h] = new /\ \A k \in live : k \in Handles /\ r[k] = rec[k]
  BY <1>2, <1>4, LiveHandles DEF TypeOK
<1> QED BY <1>2, <1>4, <1>5, <1>6

\* Registering keeps the types.
LEMMA RegisterType ==
    ASSUME TypeOK, NEW request \in Requests, QNCSmmCoreRegister(request)
    PROVE  TypeOK'
<1>1. ASSUME NEW k \in live', rec'[k].type = "PeriodicTimer"
      PROVE  HasTimerInterval(rec'[k])
  <2>1. CASE k = last + 1
    <3>1. ChildContext(request).type = "PeriodicTimer"
      BY <1>1, <2>1, RegisterRecords
    <3>2. HasTimerInterval(ChildContext(request))
      BY <3>1 DEF QNCSmmCoreRegister, Acceptable
    <3> QED BY <2>1, <3>2, RegisterRecords DEF HasTimerInterval, Fits
  <2>2. CASE k # last + 1
    <3>1. k \in live /\ rec[k].type = "PeriodicTimer"
      BY <1>1, <2>2, RegisterRecords
    <3>2. HasTimerInterval(rec[k])
      BY <3>1 DEF TypeOK, Timers
    <3> QED BY <3>1, <3>2, RegisterRecords DEF HasTimerInterval, Fits
  <2> QED BY <2>1, <2>2
<1>2. \A k \in Timers(live', rec') : HasTimerInterval(rec'[k])
  BY <1>1 DEF Timers
<1>3. hw' \in Registers
  BY RegisterOperations, ProgramTimersEnables DEF QNCSmmCoreRegister, TypeOK
<1>4. live' \subseteq 1 .. last' /\ last' \in 0 .. MaxRegistrations
  <2>1. last \in Nat /\ last' = last + 1 /\ last + 1 \in 1 .. MaxRegistrations
    BY RegisterRecords, BoundsAssumption DEF TypeOK, Handles
  <2>2. \A k \in live' : k \in 1 .. last \/ k = last + 1
    BY RegisterRecords DEF TypeOK
  <2> QED BY <2>1, <2>2
<1>5. swtMasked' \in BOOLEAN
  BY DEF QNCSmmCoreRegister, TypeOK
<1> QED
  BY <1>2, <1>3, <1>4, <1>5, RegisterRecords DEF QNCSmmCoreRegister, TypeOK

\* Unregistering keeps the types: the records the dispatcher stands on stay.
LEMMA UnRegisterType ==
    ASSUME TypeOK, NEW h \in Handles, QNCSmmCoreUnRegister(h)
    PROVE  TypeOK'
<1>1. Blank \in Record
  BY DEF Blank, Record, Types
<1>2. rec' \in [Handles -> Record] /\ \A k \in live' : k \in live /\ rec'[k] = rec[k]
  BY <1>1, LiveHandles DEF QNCSmmCoreUnRegister, TypeOK
<1>3. \A k \in Timers(live', rec') : HasTimerInterval(rec'[k])
  BY <1>2 DEF Timers, TypeOK
<1>4. hw' \in Registers
  BY RegisterOperations DEF QNCSmmCoreUnRegister, TypeOK
<1> QED BY <1>2, <1>3, <1>4 DEF QNCSmmCoreUnRegister, TypeOK

\* Software and hardware that raise SMIs, and the callbacks, keep the types.
LEMMA EnvironmentType ==
    ASSUME TypeOK,
           \/ \E v \in CommandPorts : Activate(v)
           \/ SmmClear
           \/ \E typ \in SleepTypes : OsSleep(typ)
           \/ \E s \in HwSources : HwEvent(s)
           \/ EnableAcpiCallback
           \/ DisableAcpiCallback
    PROVE  TypeOK'
<1> USE DEF TypeOK, Registers
<1>1. CASE \E v \in CommandPorts : Activate(v)
  <2>1. PICK v \in CommandPorts : Activate(v)
    BY <1>1
  <2>2. hw' \in Registers
    BY <2>1 DEF Activate, Bits, SmisBits
  <2>3. ApmCnt' \in 0 .. MAXIMUM_SWI_VALUE
    BY <2>1, BoundsAssumption DEF Activate
  <2>4. unserved' \subseteq live'
    BY <2>1 DEF Activate
  <2> QED BY <2>1, <2>2, <2>3, <2>4 DEF Activate
<1>2. CASE SmmClear
  BY <1>2 DEF SmmClear
<1>3. CASE \E typ \in SleepTypes : OsSleep(typ)
  BY <1>3, BoundsAssumption DEF OsSleep, Owed, Bits, SmisBits
<1>4. CASE \E s \in HwSources : HwEvent(s)
  BY <1>4, BoundsAssumption DEF HwEvent, Owed, Bits, SmisBits
<1>5. CASE EnableAcpiCallback
  BY <1>5 DEF EnableAcpiCallback
<1>6. CASE DisableAcpiCallback
  BY <1>6 DEF DisableAcpiCallback
<1> QED BY <1>1, <1>2, <1>3, <1>4, <1>5, <1>6

\* Accounting a tick to a record keeps its context.
LEMMA ExhaustRecords ==
    ASSUME TypeOK, Exhaust
    PROVE  /\ rec' \in [Handles -> Record]
           /\ \A k \in Handles : /\ rec'[k].type = rec[k].type
                                 /\ rec'[k].key = rec[k].key
                                 /\ rec'[k].tick = rec[k].tick
<1> DEFINE h == RecordToExhaust
<1>1. h \in live /\ h \in Handles
  BY LiveHandles DEF Exhaust, TypeOK
<1>2. rec[h] \in Record
  BY <1>1 DEF TypeOK
<1>3. ElapsedTime(h) \in Nat
  <2>1. CASE rec[h].type = "PeriodicTimer"
    <3>1. ContextToTimerInterval(rec[h]) \in Nat
      BY <1>1, <2>1, TimerIntervalNat DEF TypeOK, Timers
    <3> QED BY <1>2, <3>1 DEF ElapsedTime, Record
  <2>2. CASE rec[h].type # "PeriodicTimer"
    BY <1>2, <2>2 DEF ElapsedTime, Record
  <2> QED BY <2>1, <2>2
<1>4. rec' = rec \/ rec' = [rec EXCEPT ![h] = [rec[h] EXCEPT !.elapsed = ElapsedTime(h)]]
  BY DEF Exhaust
<1>5. [rec[h] EXCEPT !.elapsed = ElapsedTime(h)] \in Record
  BY <1>2, <1>3 DEF Record
<1> QED BY <1>1, <1>2, <1>4, <1>5 DEF TypeOK, Record

\* The dispatcher keeps the types.
LEMMA DispatcherType ==
    ASSUME TypeOK, Dispatch \/ Dispatcher \/ Resume
    PROVE  TypeOK'
<1>1. CASE Dispatch
  BY <1>1, WalkType, LiveHandles DEF Dispatch, TypeOK
<1>2. CASE SearchNext
  BY <1>2, WalkType, LiveHandles DEF SearchNext, TypeOK
<1>3. CASE FoundSource
  BY <1>3, SrcDescType, LiveHandles DEF FoundSource, TypeOK
<1>4. CASE SearchEnd
  BY <1>4 DEF SearchEnd, TypeOK
<1>5. CASE Exhaust
  <2>1. \A k \in Timers(live', rec') : HasTimerInterval(rec'[k])
    <3>1. \A k \in Timers(live', rec') : k \in Timers(live, rec) /\ k \in Handles
      BY <1>5, ExhaustRecords, LiveHandles DEF Exhaust, Timers
    <3> QED BY <1>5, <3>1, ExhaustRecords DEF TypeOK, HasTimerInterval, Fits
  <2> QED BY <1>5, <2>1, ExhaustRecords, WalkType, LiveHandles DEF Exhaust, TypeOK
<1>6. CASE CallbackReturns
  BY <1>6, WalkType, LiveHandles DEF CallbackReturns, TypeOK
<1>7. CASE ClearActive
  <2>1. hw' \in Registers
    <3>1. \/ hw' = QNCSmmPeriodicTimerProgramTimers(hw, live, rec)
          \/ hw' = QNCSmmClearSource(hw, ActiveSource)
      BY <1>7 DEF ClearActive
    <3>2. hw \in Registers
      BY DEF TypeOK
    <3>3. QNCSmmPeriodicTimerProgramTimers(hw, live, rec) \in Registers
      BY <3>2, ProgramTimersEnables
    <3>4. QNCSmmClearSource(hw, ActiveSource) \in Registers
      BY <3>2, RegisterOperations
    <3> QED BY <3>1, <3>3, <3>4
  <2>2. /\ rec' \in [Handles -> Record]
        /\ \A k \in Handles : /\ rec'[k].type = rec[k].type
                              /\ rec'[k].key = rec[k].key
                              /\ rec'[k].tick = rec[k].tick
    <3>1. rec' = ResetElapsed(live, rec) \/ rec' = rec
      BY <1>7 DEF ClearActive
    <3>2. live \in SUBSET Handles /\ rec \in [Handles -> Record]
      BY LiveHandles DEF TypeOK
    <3>3. CASE rec' = ResetElapsed(live, rec)
      BY <3>2, <3>3, ResetKeepsContexts
    <3>4. CASE rec' = rec
      BY <3>2, <3>4
    <3> QED BY <3>1, <3>3, <3>4
  <2>3. \A k \in Timers(live', rec') : HasTimerInterval(rec'[k])
    <3>1. \A k \in Timers(live', rec') : k \in Timers(live, rec) /\ k \in Handles
      BY <1>7, <2>2, LiveHandles DEF ClearActive, Timers
    <3> QED BY <2>2, <3>1 DEF TypeOK, HasTimerInterval, Fits
  <2> QED BY <1>7, <2>1, <2>2, <2>3 DEF ClearActive, TypeOK
<1>8. CASE SetEos
  BY <1>8, RegisterOperations DEF SetEos, TypeOK, Sources, NoSource
<1>9. CASE QNCSmmSxGoToSleep
  BY <1>9, RegisterOperations DEF QNCSmmSxGoToSleep, TypeOK
<1>10. CASE Resume
  BY <1>10, RegisterOperations DEF Resume, TypeOK, SxS0
<1> QED
  BY <1>1, <1>2, <1>3, <1>4, <1>5, <1>6, <1>7, <1>8, <1>9, <1>10 DEF Dispatcher

\* The dispatcher starts well typed.
LEMMA InitType == Init => TypeOK
<1> SUFFICES ASSUME Init PROVE TypeOK
  OBVIOUS
<1>1. Blank \in Record
  BY DEF Blank, Record, Types
<1>2. rec \in [Handles -> Record] /\ hw \in Registers
  BY <1>1 DEF Init, Registers, Bits, SmisBits
<1>3. Timers(live, rec) = {}
  BY DEF Init, Timers
<1>4. last \in 0 .. MaxRegistrations /\ ApmCnt \in 0 .. MAXIMUM_SWI_VALUE
  BY BoundsAssumption DEF Init
<1>5. live \subseteq 1 .. last /\ unserved \subseteq live
  BY DEF Init
<1>6. ActiveSource \in Sources
  BY DEF Init, Sources
<1> QED BY <1>2, <1>3, <1>4, <1>5, <1>6 DEF Init, TypeOK

\* Every step keeps the types.
LEMMA NextType == TypeOK /\ [Next]_vars => TypeOK'
<1> SUFFICES ASSUME TypeOK, [Next]_vars PROVE TypeOK'
  OBVIOUS
<1>1. CASE UNCHANGED vars
  BY <1>1 DEF TypeOK, Timers
<1>2. CASE \E c \in Requests : QNCSmmCoreRegister(c)
  BY <1>2, RegisterType
<1>3. CASE \E h \in Handles : QNCSmmCoreUnRegister(h)
  BY <1>3, UnRegisterType
<1>4. CASE Dispatch \/ Dispatcher \/ Resume
  BY <1>4, DispatcherType
<1> QED BY <1>1, <1>2, <1>3, <1>4, EnvironmentType DEF Next

\* TypeOK holds in every reachable state: whatever callbacks register and
\* unregister, the dispatcher never walks off the database.
THEOREM DispatcherTypes == Spec => []TypeOK
BY InitType, NextType, PTL DEF Spec

(***************************************************************************)
(* Software SMI values.                                                    *)
(***************************************************************************)
\* Only a registration adds a record, and nothing changes the context of one.
LEMMA ContextsKept ==
    ASSUME TypeOK, [Next]_vars, ~ \E c \in Requests : QNCSmmCoreRegister(c)
    PROVE  \A k \in live' : /\ k \in live
                            /\ rec'[k].type = rec[k].type
                            /\ rec'[k].key = rec[k].key
<1>1. CASE \E h \in Handles : QNCSmmCoreUnRegister(h)
  BY <1>1, LiveHandles DEF QNCSmmCoreUnRegister, TypeOK
<1>2. CASE Exhaust
  BY <1>2, ExhaustRecords, LiveHandles DEF Exhaust
<1>3. CASE ClearActive
  <2>1. live' = live /\ (rec' = ResetElapsed(live, rec) \/ rec' = rec)
    BY <1>3 DEF ClearActive
  <2>2. live \in SUBSET Handles /\ rec \in [Handles -> Record]
    BY LiveHandles DEF TypeOK
  <2> QED BY <2>1, <2>2, ResetKeepsContexts
<1>4. CASE live' = live /\ rec' = rec
  BY <1>4
<1>5. CASE \/ UNCHANGED vars
           \/ \E v \in CommandPorts : Activate(v)
           \/ SmmClear
           \/ \E typ \in SleepTypes : OsSleep(typ)
           \/ \E s \in HwSources : HwEvent(s)
           \/ Dispatch \/ Resume \/ EnableAcpiCallback \/ DisableAcpiCallback
  BY <1>4, <1>5 DEF Activate, SmmClear, OsSleep, HwEvent, Dispatch, Resume,
                    EnableAcpiCallback, DisableAcpiCallback
<1>6. CASE \/ SearchNext \/ FoundSource \/ SearchEnd \/ CallbackReturns
           \/ SetEos \/ QNCSmmSxGoToSleep
  BY <1>4, <1>6 DEF SearchNext, FoundSource, SearchEnd, CallbackReturns, SetEos,
                    QNCSmmSxGoToSleep
<1> QED BY <1>1, <1>2, <1>3, <1>5, <1>6 DEF Next, Dispatcher

\* A step keeps the software SMI values apart.
LEMMA NextUnique == TypeOK /\ UniqueSwValues /\ [Next]_vars => UniqueSwValues'
<1> SUFFICES ASSUME TypeOK, UniqueSwValues, [Next]_vars PROVE UniqueSwValues'
  OBVIOUS
<1>1. CASE \E c \in Requests : QNCSmmCoreRegister(c)
  <2>1. PICK request \in Requests : QNCSmmCoreRegister(request)
    BY <1>1
  <2> DEFINE c == ChildContext(request)
  <2>2. c.type = "Sw" => /\ c.key \in 0 .. MAXIMUM_SWI_VALUE
                         /\ \A k \in live : rec[k].type = "Sw" => rec[k].key # c.key
    BY <2>1 DEF QNCSmmCoreRegister, Acceptable, SmiInputValueDuplicateCheck
  <2> HIDE DEF c
  <2>3. /\ live' = live \cup {last + 1}
        /\ \A k \in live : rec'[k].type = rec[k].type /\ rec'[k].key = rec[k].key
        /\ rec'[last + 1].type = c.type /\ rec'[last + 1].key = c.key
    BY <2>1, RegisterRecords DEF c
  <2> QED BY <2>2, <2>3 DEF UniqueSwValues
<1>2. CASE ~ \E c \in Requests : QNCSmmCoreRegister(c)
  BY <1>2, ContextsKept DEF UniqueSwValues
<1> QED BY <1>1, <1>2

\* Whatever is asked for, assigned and released, two registered children never
\* share a software SMI value (QNCSmmCoreRegister, SwType).
THEOREM SwValuesAreUnique == Spec => []UniqueSwValues
<1>1. Init => UniqueSwValues
  BY DEF Init, UniqueSwValues
<1> QED BY <1>1, InitType, NextType, NextUnique, PTL DEF Spec

(***************************************************************************)
(* Enables and records.  Resume() enables the sleep SMI again without a    *)
(* look at the database, so EnablesMatchRecords is inductive only together *)
(* with the fact that a dispatcher on its way to sleep got there through   *)
(* an Sx record nobody could remove.                                       *)
(***************************************************************************)
HasChild(s) == \E h \in live : SrcDesc(rec[h]) = s

SleepHasRecord ==
    /\ pc \in {"idle", "search", "sleep", "asleep"} => ~SxChildWasDispatched
    /\ pc \in {"exhaust", "callback"} => ActiveSource = SrcDesc(rec[RecordInDb])
    /\ pc = "callback" => ActiveSource = SrcDesc(rec[RecordToExhaust])
    /\ pc \in {"exhaust", "callback"} /\ SxChildWasDispatched => ActiveSource = "SLP"
    /\ pc = "eos" /\ SxChildWasDispatched => HasChild("SLP")
    /\ pc \in {"sleep", "asleep"} => HasChild("SLP")

\* The source of a record depends on its type and key only, and a record of the
\* Sx protocol has the sleep SMI as its source.
LEMMA SrcDescOfContext ==
    /\ \A q, r : q.type = r.type /\ q.key = r.key => SrcDesc(q) = SrcDesc(r)
    /\ \A r : r.type = "Sx" => SrcDesc(r) = "SLP"
    /\ \A r : r.type = "PeriodicTimer" <=> SrcDesc(r) = "SWT"
BY DEF SrcDesc, QncnSource, NoSource

\* What a step other than a registration or a removal does to the sources that
\* have a child: nothing.
LEMMA SourcesKept ==
    ASSUME TypeOK, [Next]_vars, live' = live,
           ~ \E c \in Requests : QNCSmmCoreRegister(c)
    PROVE  /\ \A k \in live : SrcDesc(rec'[k]) = SrcDesc(rec[k])
           /\ \A s : HasChild(s)' <=> HasChild(s)
<1>1. \A k \in live : SrcDesc(rec'[k]) = SrcDesc(rec[k])
  BY ContextsKept, SrcDescOfContext
<1> QED BY <1>1 DEF HasChild

\* SleepHasRecord under a registration: the new record is not one the
\* dispatcher stands on.
LEMMA RegisterSleep ==
    ASSUME TypeOK, SleepHasRecord, NEW request \in Requests,
           QNCSmmCoreRegister(request)
    PROVE  SleepHasRecord'
<1>1. \A k \in live : SrcDesc(rec'[k]) = SrcDesc(rec[k])
  BY RegisterRecords, SrcDescOfContext
<1>2. pc = "callback" => RecordInDb \in live /\ RecordToExhaust \in live
  BY DEF TypeOK
<1> QED BY <1>1, <1>2 DEF QNCSmmCoreRegister, SleepHasRecord

\* SleepHasRecord under a removal: callbacks leave the dispatcher's records.
LEMMA UnRegisterSleep ==
    ASSUME TypeOK, SleepHasRecord, NEW h \in Handles, QNCSmmCoreUnRegister(h)
    PROVE  SleepHasRecord'
<1>1. \A k \in live' : k \in live /\ rec'[k] = rec[k]
  BY LiveHandles DEF QNCSmmCoreUnRegister, TypeOK
<1>2. pc = "callback" => RecordInDb \in live' /\ RecordToExhaust \in live'
  BY DEF TypeOK, QNCSmmCoreUnRegister
<1> QED BY <1>1, <1>2 DEF QNCSmmCoreUnRegister, SleepHasRecord

\* SleepHasRecord under the steps that leave the database alone.
LEMMA OtherSleep ==
    ASSUME TypeOK, SleepHasRecord, [Next]_vars, live' = live,
           ~ \E c \in Requests : QNCSmmCoreRegister(c)
    PROVE  SleepHasRecord' \/ \E h \in Handles : QNCSmmCoreUnRegister(h)
<1> USE DEF SleepHasRecord
<1>1. CASE Dispatch \/ SearchNext \/ SearchEnd
  BY <1>1, SourcesKept DEF Dispatch, SearchNext, SearchEnd
<1>2. CASE FoundSource
  BY <1>2, SrcDescOfContext DEF FoundSource
<1>3. CASE Exhaust
  <2>1. RecordInDb \in live /\ RecordToExhaust \in live
    BY <1>3 DEF Exhaust, TypeOK
  <2> QED BY <1>3, <2>1, SourcesKept DEF Exhaust, CompareSources
<1>4. CASE CallbackReturns
  BY <1>4, SrcDescOfContext DEF CallbackReturns
<1>5. CASE ClearActive
  <2>1. RecordInDb \in live /\ ActiveSource = SrcDesc(rec[RecordInDb])
    BY <1>5 DEF ClearActive, TypeOK
  <2>2. SxChildWasDispatched => HasChild("SLP")
    BY <1>5, <2>1 DEF ClearActive, HasChild
  <2> QED BY <1>5, <2>2, SourcesKept DEF ClearActive
<1>6. CASE SetEos \/ QNCSmmSxGoToSleep
  BY <1>6, SourcesKept DEF SetEos, QNCSmmSxGoToSleep
<1>7. CASE Resume
  BY <1>7 DEF Resume
<1>8. CASE \/ UNCHANGED vars
           \/ \E v \in CommandPorts : Activate(v)
           \/ SmmClear
           \/ \E typ \in SleepTypes : OsSleep(typ)
           \/ \E s \in HwSources : HwEvent(s)
           \/ EnableAcpiCallback \/ DisableAcpiCallback
  <2>1. rec' = rec /\ UNCHANGED <<pc, locals>>
    BY <1>8 DEF Activate, SmmClear, OsSleep, HwEvent, EnableAcpiCallback,
                DisableAcpiCallback
  <2> QED BY <2>1 DEF HasChild
<1> QED
  BY <1>1, <1>2, <1>3, <1>4, <1>5, <1>6, <1>7, <1>8 DEF Next, Dispatcher

\* Every step keeps SleepHasRecord.
LEMMA NextSleep == TypeOK /\ SleepHasRecord /\ [Next]_vars => SleepHasRecord'
<1> SUFFICES ASSUME TypeOK, SleepHasRecord, [Next]_vars PROVE SleepHasRecord'
  OBVIOUS
<1>1. CASE \E c \in Requests : QNCSmmCoreRegister(c)
  BY <1>1, RegisterSleep
<1>2. CASE \E h \in Handles : QNCSmmCoreUnRegister(h)
  BY <1>2, UnRegisterSleep
<1>3. CASE /\ ~ \E c \in Requests : QNCSmmCoreRegister(c)
           /\ ~ \E h \in Handles : QNCSmmCoreUnRegister(h)
  <2>1. live' = live
    BY <1>3 DEF Next, Dispatcher, Activate, SmmClear, OsSleep, HwEvent, Dispatch,
                SearchNext, FoundSource, SearchEnd, Exhaust, CallbackReturns,
                ClearActive, SetEos, QNCSmmSxGoToSleep, Resume,
                EnableAcpiCallback, DisableAcpiCallback
  <2> QED BY <1>3, <2>1, OtherSleep
<1> QED BY <1>1, <1>2, <1>3

\* A registration enables the source of the new record and no other; that a
\* periodic child finds the timer programmed, and with it possibly disabled,
\* before it is in the database makes no difference.
LEMMA RegisterEnables ==
    ASSUME TypeOK, NEW request \in Requests, QNCSmmCoreRegister(request)
    PROVE  hw'.en = hw.en \cup ({SrcDesc(ChildContext(request))} \cap Bits)
<1> DEFINE c == ChildContext(request)
           h == last + 1
           new == [type |-> c.type, key |-> c.key, tick |-> c.tick, elapsed |-> 0]
           r == [rec EXCEPT ![h] = new]
           db == live \cup {h}
           mapped == QNCSmmPeriodicTimerProgramTimers(hw, live, rec)
           timed == QNCSmmPeriodicTimerProgramTimers(mapped, db, r)
<1>1. hw \in Registers
  BY DEF TypeOK
<1>2. CASE c.type = "PeriodicTimer"
  <2>1. h \in Timers(db, r)
    <3>1. h \in Handles
      BY RegisterRecords
    <3> QED BY <1>2, <3>1 DEF Timers, TypeOK
  <2>2. mapped \in Registers /\ (mapped.en = hw.en \/ mapped.en = hw.en \ {"SWT"})
    BY <1>1, ProgramTimersEnables
  <2>3. timed \in Registers /\ timed.en = mapped.en
    <3> HIDE DEF mapped, db, r
    <3> QED BY <2>1, <2>2, ProgramTimersEnables
  <2>4. SrcDesc(c) = "SWT" /\ "SWT" \in Bits
    BY <1>2, SrcDescOfContext DEF Bits, SmisBits
  <2>5. hw' = QNCSmmEnableSource(timed, SrcDesc(c))
    BY <1>2 DEF QNCSmmCoreRegister
  <2>6. hw'.en = timed.en \cup ({SrcDesc(c)} \cap Bits)
    <3> HIDE DEF timed, c
    <3> QED BY <2>3, <2>5, RegisterOperations
  <2> HIDE DEF timed, mapped, c
  <2> QED BY <2>2, <2>3, <2>4, <2>6 DEF c
<1>3. CASE c.type # "PeriodicTimer"
  <2>1. hw' = QNCSmmEnableSource(QNCSmmClearSource(hw, SrcDesc(c)), SrcDesc(c))
    BY <1>3 DEF QNCSmmCoreRegister
  <2> HIDE DEF c
  <2>2. hw'.en = hw.en \cup ({SrcDesc(c)} \cap Bits)
    <3>1. /\ QNCSmmClearSource(hw, SrcDesc(c)) \in Registers
          /\ QNCSmmClearSource(hw, SrcDesc(c)).en = hw.en
      BY <1>1, RegisterOperations
    <3> QED BY <2>1, <3>1, RegisterOperations
  <2> QED BY <2>2 DEF c
<1> QED BY <1>2, <1>3

\* Every step keeps the enables in line with the database.
LEMMA NextEnables ==
    TypeOK /\ SleepHasRecord /\ EnablesMatchRecords /\ [Next]_vars
        => EnablesMatchRecords'
<1> SUFFICES ASSUME TypeOK, SleepHasRecord, EnablesMatchRecords, [Next]_vars
             PROVE  EnablesMatchRecords'
  OBVIOUS
<1> SUFFICES
      \A s \in Bits :
          /\ HasChild(s)' => s \in hw'.en \/ (s = "SWT" /\ swtMasked')
                                        \/ (s = "SLP" /\ pc' = "asleep")
          /\ s \in hw'.en => s = "APM" \/ HasChild(s)'
  BY DEF EnablesMatchRecords, HasChild
<1>0. \A s \in Bits :
          /\ HasChild(s) => s \in hw.en \/ (s = "SWT" /\ swtMasked)
                                       \/ (s = "SLP" /\ pc = "asleep")
          /\ s \in hw.en => s = "APM" \/ HasChild(s)
  BY DEF EnablesMatchRecords, HasChild
<1>1. hw \in Registers
  BY DEF TypeOK
<1>2. CASE \E c \in Requests : QNCSmmCoreRegister(c)
  <2>1. PICK request \in Requests : QNCSmmCoreRegister(request)
    BY <1>2
  <2> DEFINE c == ChildContext(request)
  <2>2. hw'.en = hw.en \cup ({SrcDesc(c)} \cap Bits)
    BY <2>1, RegisterEnables
  <2>3. /\ pc' = pc /\ pc # "asleep"
        /\ swtMasked' = (swtMasked /\ c.type # "PeriodicTimer")
    BY <2>1 DEF QNCSmmCoreRegister
  <2>4. c.type = "PeriodicTimer" => SrcDesc(c) = "SWT"
    BY SrcDescOfContext
  <2>5. \A s : HasChild(s)' <=> HasChild(s) \/ s = SrcDesc(c)
    <3>1. \A k \in live : SrcDesc(rec'[k]) = SrcDesc(rec[k])
      BY <2>1, RegisterRecords, SrcDescOfContext
    <3>2. SrcDesc(rec'[last + 1]) = SrcDesc(c)
      BY <2>1, RegisterRecords, SrcDescOfContext
    <3> HIDE DEF c
    <3> QED BY <2>1, <3>1, <3>2, RegisterRecords DEF HasChild
  <2> HIDE DEF c
  <2> QED BY <1>0, <2>2, <2>3, <2>4, <2>5
<1>3. CASE \E h \in Handles : QNCSmmCoreUnRegister(h)
  <2>1. PICK h \in Handles : QNCSmmCoreUnRegister(h)
    BY <1>3
  <2>2. live' = live \ {h} /\ \A k \in live' : rec'[k] = rec[k]
    BY <2>1, LiveHandles DEF QNCSmmCoreUnRegister, TypeOK
  <2>3. h \in live /\ pc' = pc /\ pc # "asleep" /\ swtMasked' = swtMasked
    BY <2>1 DEF QNCSmmCoreUnRegister
  <2>4. \A s : HasChild(s)' <=> \E k \in live \ {h} : SrcDesc(rec[k]) = s
    BY <2>2 DEF HasChild
  <2>5. CASE SafeToDisable(h)
    <3>1. hw'.en = hw.en \ {SrcDesc(rec[h])}
      BY <1>1, <2>1, <2>5, RegisterOperations DEF QNCSmmCoreUnRegister
    <3>2. \A s : HasChild(s)' <=> HasChild(s) /\ s # SrcDesc(rec[h])
      BY <2>3, <2>4, <2>5 DEF SafeToDisable, HasChild
    <3> QED BY <1>0, <2>3, <3>1, <3>2
  <2>6. CASE ~SafeToDisable(h)
    <3>1. hw' = hw
      BY <2>1, <2>6 DEF QNCSmmCoreUnRegister
    <3>2. \A s : HasChild(s)' <=> HasChild(s)
      BY <2>3, <2>4, <2>6 DEF SafeToDisable, HasChild
    <3> QED BY <1>0, <2>3, <3>1, <3>2
  <2> QED BY <2>5, <2>6
<1>4. CASE /\ ~ \E c \in Requests : QNCSmmCoreRegister(c)
           /\ ~ \E h \in Handles : QNCSmmCoreUnRegister(h)
  <2>1. live' = live
    BY <1>4 DEF Next, Dispatcher, Activate, SmmClear, OsSleep, HwEvent, Dispatch,
                SearchNext, FoundSource, SearchEnd, Exhaust, CallbackReturns,
                ClearActive, SetEos, QNCSmmSxGoToSleep, Resume,
                EnableAcpiCallback, DisableAcpiCallback
  <2>2. \A s : HasChild(s)' <=> HasChild(s)
    BY <1>4, <2>1, SourcesKept
  <2>3. CASE hw'.en = hw.en /\ swtMasked' = swtMasked /\ (pc = "asleep" => pc' = pc)
    BY <1>0, <2>2, <2>3
  <2>4. CASE \/ UNCHANGED vars
             \/ SmmClear
             \/ \E typ \in SleepTypes : OsSleep(typ)
             \/ \E s \in HwSources : HwEvent(s)
             \/ DisableAcpiCallback \/ Dispatch \/ SearchNext \/ FoundSource
             \/ SearchEnd \/ Exhaust \/ CallbackReturns
    <3>1. hw'.en = hw.en
      BY <1>1, <2>4 DEF Registers, SmmClear, OsSleep, HwEvent,
            DisableAcpiCallback, Dispatch, SearchNext, FoundSource, SearchEnd,
            Exhaust, CallbackReturns
    <3>2. swtMasked' = swtMasked /\ (pc = "asleep" => pc' = pc)
      BY <2>4 DEF SmmClear, OsSleep, HwEvent, DisableAcpiCallback, Dispatch,
            SearchNext, FoundSource, SearchEnd, Exhaust, CallbackReturns
    <3> QED BY <2>3, <3>1, <3>2
  <2>5. CASE ClearActive
    <3>1. rec[RecordInDb].type = "PeriodicTimer" => Timers(live, rec) # {}
      BY <2>5 DEF ClearActive, TypeOK, Timers
    <3>2. hw'.en = hw.en
      <4>1. CASE rec[RecordInDb].type = "PeriodicTimer"
        BY <1>1, <2>5, <3>1, <4>1, ProgramTimersEnables DEF ClearActive
      <4>2. CASE rec[RecordInDb].type # "PeriodicTimer"
        BY <1>1, <2>5, <4>2, RegisterOperations DEF ClearActive
      <4> QED BY <4>1, <4>2
    <3> QED BY <2>3, <2>5, <3>2 DEF ClearActive
  <2>6. CASE SetEos
    BY <1>1, <2>3, <2>6, RegisterOperations DEF SetEos
  <2>7. CASE QNCSmmSxGoToSleep
    <3>1. hw'.en = hw.en \ {"SLP"}
      <4>1. /\ QNCSmmClearSource(hw, "SLP") \in Registers
            /\ QNCSmmClearSource(hw, "SLP").en = hw.en
        BY <1>1, RegisterOperations
      <4> QED BY <2>7, <4>1, RegisterOperations DEF QNCSmmSxGoToSleep
    <3> QED BY <1>0, <2>2, <2>7, <3>1 DEF QNCSmmSxGoToSleep
  <2>8. CASE Resume
    <3>1. hw'.en = hw.en \cup ({"SLP"} \cap Bits)
      <4>1. /\ QNCSmmClearSource(hw, "SLP") \in Registers
            /\ QNCSmmClearSource(hw, "SLP").en = hw.en
        BY <1>1, RegisterOperations
      <4> QED BY <2>8, <4>1, RegisterOperations DEF Resume
    <3>2. HasChild("SLP")
      BY <2>8 DEF Resume, SleepHasRecord
    <3> QED BY <1>0, <2>2, <2>8, <3>1, <3>2 DEF Resume
  <2>9. CASE \E v \in CommandPorts : Activate(v)
    <3>1. hw'.en = hw.en \cup {"APM"}
      BY <1>1, <2>9 DEF Activate, Registers
    <3> QED BY <1>0, <2>2, <2>9, <3>1 DEF Activate
  <2>10. CASE EnableAcpiCallback
    <3>1. hw'.en = hw.en \ {"SWT"}
      BY <1>1, <2>10 DEF EnableAcpiCallback, Registers
    <3> QED BY <1>0, <2>2, <2>10, <3>1 DEF EnableAcpiCallback
  <2> QED
    BY <1>4, <2>4, <2>5, <2>6, <2>7, <2>8, <2>9, <2>10 DEF Next, Dispatcher
<1> QED BY <1>2, <1>3, <1>4

\* The enable registers follow the database through every interleaving of
\* registrations, removals, callbacks, SMIs and sleep (QNCSmmCoreRegister,
\* QNCSmmCoreUnRegister, QNCSmmSxGoToSleep).
THEOREM EnablesFollowDatabase == Spec => []EnablesMatchRecords
<1>1. Init => SleepHasRecord /\ EnablesMatchRecords
  BY DEF Init, SleepHasRecord, EnablesMatchRecords
<1> QED BY <1>1, InitType, NextType, NextSleep, NextEnables, PTL DEF Spec

(***************************************************************************)
(* Periodic timers.  Elapsed times run up to the period only while the     *)
(* dispatcher exhausts the timer source, and ClearActive restarts what     *)
(* reached it.                                                             *)
(***************************************************************************)
Ticking == pc \in {"exhaust", "callback"} /\ ActiveSource = "SWT"
Running(h) == rec[h].elapsed # 0 => rec[h].elapsed < rec[h].key
TimersFit == ~Ticking => \A h \in Timers(live, rec) : Running(h)

\* ResetElapsed() leaves no periodic child at its period or beyond, and leaves the
\* elapsed time of the others alone.
LEMMA ResetRestarts ==
    ASSUME NEW db \in SUBSET Handles, NEW r \in [Handles -> Record], NEW h \in db
    PROVE  LET q == ResetElapsed(db, r)[h]
           IN  /\ q.elapsed = r[h].elapsed \/ q.elapsed = 0
               /\ r[h].type = "PeriodicTimer" /\ q.elapsed # 0 => q.elapsed < q.key
<1>1. r[h] \in Record /\ r[h].elapsed \in Nat /\ r[h].key \in Int
  BY DEF Record
<1> QED BY <1>1 DEF ResetElapsed, Timers, Record

\* A registration adds a child whose time begins with 0.
LEMMA RegisterTimers ==
    ASSUME TypeOK, TimersFit, NEW request \in Requests, QNCSmmCoreRegister(request)
    PROVE  TimersFit'
<1> DEFINE c == ChildContext(request)
           h == last + 1
           new == [type |-> c.type, key |-> c.key, tick |-> c.tick, elapsed |-> 0]
           r == [rec EXCEPT ![h] = new]
           db == live \cup {h}
<1>1. UNCHANGED <<pc, ActiveSource>> /\ live' = db
  BY DEF QNCSmmCoreRegister
<1>2. h \in Handles /\ h \notin live /\ live \subseteq Handles
  BY RegisterRecords, LiveHandles
<1>3. c \in Contexts
  BY ChildContextType, RequestsAssumption
<1>4. new \in Record /\ r \in [Handles -> Record]
  BY <1>2, <1>3 DEF Contexts, Record, TypeOK
<1>5. rec' = r \/ rec' = ResetElapsed(db, r)
  BY DEF QNCSmmCoreRegister
<1>6. r[h].elapsed = 0 /\ \A k \in live : r[k] = rec[k]
  BY <1>2, <1>4 DEF TypeOK
<1>7. db \in SUBSET Handles
  BY <1>2
<1> HIDE DEF r, db, h, new, c
<1>8. \A k \in Handles : rec'[k].type = r[k].type /\ rec'[k].key = r[k].key
  <2>1. CASE rec' = r
    BY <2>1
  <2>2. CASE rec' = ResetElapsed(db, r)
    BY <1>4, <1>7, <2>2, ResetKeepsContexts
  <2> QED BY <1>5, <2>1, <2>2
<1>9. \A k \in db : rec'[k].elapsed \in {r[k].elapsed, 0}
  BY <1>4, <1>5, <1>7, ResetRestarts
<1>10. ASSUME ~Ticking', NEW k \in Timers(live', rec') PROVE Running(k)'
  <2>1. k \in db /\ r[k].type = "PeriodicTimer"
    BY <1>1, <1>7, <1>8, <1>10 DEF Timers
  <2>2. CASE k = h
    BY <1>6, <1>7, <1>9, <2>1, <2>2 DEF Running
  <2>3. CASE k # h
    <3>1. k \in Timers(live, rec) /\ r[k] = rec[k]
      BY <1>6, <2>1, <2>3 DEF Timers, db
    <3>2. Running(k)
      BY <1>1, <1>10, <3>1 DEF TimersFit, Ticking
    <3> QED BY <1>7, <1>8, <1>9, <2>1, <3>1, <3>2 DEF Running
  <2> QED BY <2>2, <2>3
<1> QED BY <1>10 DEF TimersFit

\* A tick is accounted to children of the source being exhausted only.
LEMMA ExhaustTimers ==
    ASSUME TypeOK, TimersFit, Exhaust
    PROVE  TimersFit'
<1> SUFFICES ASSUME ~Ticking', NEW k \in Timers(live', rec') PROVE Running(k)'
  BY DEF TimersFit
<1>1. /\ live' = live /\ ActiveSource # "SWT" /\ ~Ticking
      /\ RecordToExhaust \in live /\ live \subseteq Handles
  BY LiveHandles DEF Exhaust, Ticking, TypeOK
<1>2. k \in Timers(live, rec) /\ k \in Handles
  BY <1>1, ExhaustRecords DEF Timers
<1>3. rec'[k] = rec[k]
  <2>1. CASE k = RecordToExhaust
    <3>1. SrcDesc(rec[k]) = "SWT"
      BY <1>2, SrcDescOfContext DEF Timers
    <3> QED BY <1>1, <2>1, <3>1 DEF Exhaust, CompareSources
  <2>2. CASE k # RecordToExhaust
    BY <1>1, <1>2, <2>2 DEF Exhaust, TypeOK
  <2> QED BY <2>1, <2>2
<1> QED BY <1>1, <1>2, <1>3 DEF TimersFit, Running

\* Every step keeps the timers short of their periods.
LEMMA NextTimers ==
    TypeOK /\ SleepHasRecord /\ TimersFit /\ [Next]_vars => TimersFit'
<1> SUFFICES ASSUME TypeOK, SleepHasRecord, TimersFit, [Next]_vars PROVE TimersFit'
  OBVIOUS
<1>1. CASE \E c \in Requests : QNCSmmCoreRegister(c)
  BY <1>1, RegisterTimers
<1>2. CASE \E h \in Handles : QNCSmmCoreUnRegister(h)
  <2>1. UNCHANGED <<pc, ActiveSource>> /\ \A k \in live' : k \in live /\ rec'[k] = rec[k]
    BY <1>2, LiveHandles DEF QNCSmmCoreUnRegister, TypeOK
  <2> QED BY <2>1 DEF TimersFit, Ticking, Timers, Running
<1>3. CASE Exhaust
  BY <1>3, ExhaustTimers
<1>4. CASE ClearActive
  <2>1. RecordInDb \in live /\ ActiveSource = SrcDesc(rec[RecordInDb]) /\ live' = live
    BY <1>4 DEF ClearActive, TypeOK, SleepHasRecord
  <2>2. CASE rec[RecordInDb].type = "PeriodicTimer"
    <3>1. rec' = ResetElapsed(live, rec) /\ live \in SUBSET Handles /\ rec \in [Handles -> Record]
      BY <1>4, <2>2, LiveHandles DEF ClearActive, TypeOK
    <3>2. \A k \in live : rec'[k].type = rec[k].type
      BY <3>1, ResetKeepsContexts
    <3> QED BY <2>1, <3>1, <3>2, ResetRestarts DEF TimersFit, Timers, Running
  <2>3. CASE rec[RecordInDb].type # "PeriodicTimer"
    <3>1. rec' = rec /\ ActiveSource # "SWT"
      BY <1>4, <2>1, <2>3, SrcDescOfContext DEF ClearActive
    <3> QED BY <2>1, <3>1 DEF TimersFit, Ticking, Timers, Running
  <2> QED BY <2>2, <2>3
<1>5. CASE UNCHANGED <<live, rec>> /\ (Ticking => Ticking')
  BY <1>5 DEF TimersFit, Timers, Running
<1>6. CASE \/ UNCHANGED vars
           \/ \E v \in CommandPorts : Activate(v)
           \/ SmmClear
           \/ \E typ \in SleepTypes : OsSleep(typ)
           \/ \E s \in HwSources : HwEvent(s)
           \/ Dispatch \/ Resume \/ EnableAcpiCallback \/ DisableAcpiCallback
  BY <1>5, <1>6 DEF Ticking, Activate, SmmClear, OsSleep, HwEvent, Dispatch, Resume,
                    EnableAcpiCallback, DisableAcpiCallback
<1>7. CASE \/ SearchNext \/ FoundSource \/ SearchEnd \/ CallbackReturns
           \/ SetEos \/ QNCSmmSxGoToSleep
  BY <1>5, <1>7 DEF Ticking, SearchNext, FoundSource, SearchEnd, CallbackReturns, SetEos,
                    QNCSmmSxGoToSleep
<1> QED BY <1>1, <1>2, <1>3, <1>4, <1>6, <1>7 DEF Next, Dispatcher

\* Between two SMIs every periodic child is short of its period, whatever its
\* callbacks registered or removed (PeriodicTimerGetContext,
\* QNCSmmPeriodicTimerClearSource).
THEOREM TimersAreRestarted == Spec => []TimersRestarted
<1>1. Init => SleepHasRecord /\ TimersFit
  BY DEF Init, SleepHasRecord, TimersFit, Timers
<1>2. TimersFit => TimersRestarted
  BY DEF TimersFit, TimersRestarted, Ticking, Running
<1> QED BY <1>1, <1>2, InitType, NextType, NextSleep, NextTimers, PTL DEF Spec

(***************************************************************************)
(* No SMI is lost while sources fire one at a time.  The children owed a   *)
(* call all listen to one source, the only active one until the dispatcher *)
(* has found it, and none of them lies behind the dispatcher.              *)
(***************************************************************************)
\* Every request is for a source with registers of its own.  The entries of
\* QNCN_SOURCE_DESCS without a bit count as active at any time: with a child there
\* the dispatcher never comes to the sources behind it in the list, and EOS clears
\* their status.
RealSources == \A c \in Requests : c.type = "QNCn" => QncnSource(c.key) # NoSource

ChildrenHaveBits == \A h \in live : SrcDesc(rec[h]) \in Bits

OnlyActive(s) == SourceIsActive(s) /\ \A t \in Bits : SourceIsActive(t) => t = s
OwedFits ==
    /\ pc \in {"idle", "search"} => \A h \in unserved : OnlyActive(SrcDesc(rec[h]))
    /\ pc = "search" => \A h \in unserved : RecordInDb # NULL /\ RecordInDb <= h
    /\ pc \in {"exhaust", "callback"} =>
          \A h \in unserved : /\ SrcDesc(rec[h]) = ActiveSource
                              /\ RecordToExhaust # NULL
                              /\ RecordToExhaust <= h
                              /\ pc = "callback" => RecordToExhaust # h
    /\ pc \in {"eos", "sleep", "asleep"} => unserved = {}

\* The next node of the database passes over no record.
LEMMA NextNode ==
    ASSUME TypeOK, NEW h \in live, NEW k \in live, k > h
    PROVE  GetNextNode(h) # NULL /\ GetNextNode(h) <= k
<1> DEFINE S == {j \in live : j > h}
<1>1. S \in SUBSET Nat /\ k \in S /\ NULL \notin S
  BY LiveHandles
<1>2. \E m \in S : \A j \in S : m <= j
  BY <1>1, LeastElement
<1>3. First(S) \in S /\ First(S) <= k
  BY <1>1, <1>2 DEF First
<1> QED BY <1>1, <1>3 DEF GetNextNode

\* The first node is the least.
LEMMA FirstNode ==
    ASSUME TypeOK, NEW k \in live
    PROVE  GetFirstNode # NULL /\ GetFirstNode <= k
<1>1. live \in SUBSET Nat /\ NULL \notin live
  BY LiveHandles
<1>2. \E m \in live : \A j \in live : m <= j
  BY <1>1, LeastElement
<1> QED BY <1>1, <1>2 DEF GetFirstNode, First

\* Every child keeps a source with bits.
LEMMA NextBits ==
    ASSUME RealSources, TypeOK, ChildrenHaveBits, [Next]_vars
    PROVE  ChildrenHaveBits'
<1>1. CASE \E c \in Requests : QNCSmmCoreRegister(c)
  <2>1. PICK request \in Requests : QNCSmmCoreRegister(request)
    BY <1>1
  <2> DEFINE c == ChildContext(request)
  <2>2. SrcDesc(c) \in Bits
    <3>1. Acceptable(c)
      BY <2>1 DEF QNCSmmCoreRegister
    <3>2. c.type = "QNCn" => c = request
      BY ChildContextType, RequestsAssumption
    <3> HIDE DEF c
    <3>3. c.type = "QNCn" => QncnSource(c.key) \in Bits
      BY <3>2, SrcDescType DEF RealSources, QncnSource, Bits, SmisBits, NoSource
    <3> QED BY <3>1, <3>3 DEF Acceptable, SrcDesc, Bits, SmisBits
  <2>3. \A k \in live : SrcDesc(rec'[k]) = SrcDesc(rec[k])
    BY <2>1, RegisterRecords, SrcDescOfContext
  <2>4. SrcDesc(rec'[last + 1]) = SrcDesc(c)
    BY <2>1, RegisterRecords, SrcDescOfContext
  <2>5. live' = live \cup {last + 1}
    BY <2>1, RegisterRecords
  <2> QED BY <2>2, <2>3, <2>4, <2>5 DEF ChildrenHaveBits
<1>2. CASE ~ \E c \in Requests : QNCSmmCoreRegister(c)
  BY <1>2, ContextsKept, SrcDescOfContext DEF ChildrenHaveBits
<1> QED BY <1>1, <1>2

\* With nothing active nobody is owed a call.
LEMMA QuietOwesNothing ==
    ASSUME OwedFits, ChildrenHaveBits, TypeOK, pc = "idle", Quiet
    PROVE  unserved = {}
BY DEF OwedFits, ChildrenHaveBits, TypeOK, Quiet, OnlyActive

\* A source that fires alone is the only active one, and those who are owed a call
\* listen to it.
LEMMA FiresAlone ==
    ASSUME TypeOK, ChildrenHaveBits, Quiet, pc = "idle", NEW s \in Bits, unserved = {},
           UNCHANGED <<live, rec, SciEn, pc>>, hw' \in Registers,
           \A t \in Bits \ {s} : t \in hw'.sts /\ t \in hw'.en => t \in hw.sts /\ t \in hw.en,
           s \in hw'.sts,
           \A h \in unserved' : /\ h \in live /\ SrcDesc(rec[h]) = s
                                /\ s \in hw'.en /\ ~(s = "THRM" /\ SciEn)
    PROVE  OwedFits'
<1>1. \A t \in Bits \ {s} : ~SourceIsActive(t)'
  BY DEF Quiet, SourceIsActive
<1>2. \A h \in unserved' : SrcDesc(rec'[h]) = s /\ SourceIsActive(s)'
  BY DEF SourceIsActive
<1> QED BY <1>1, <1>2 DEF OwedFits, OnlyActive

\* Software, the OS and the hardware that raise an SMI, one at a time.
LEMMA EventOwed ==
    ASSUME ~AsyncSmi, TypeOK, TypeOK', ChildrenHaveBits, OwedFits,
           \/ \E v \in CommandPorts : Activate(v)
           \/ \E typ \in SleepTypes : OsSleep(typ)
           \/ \E s \in HwSources : HwEvent(s)
    PROVE  OwedFits'
<1>0. hw \in Registers /\ hw' \in Registers
  BY DEF TypeOK
<1>1. ASSUME NEW v \in CommandPorts, Activate(v) PROVE OwedFits'
  <2>1. pc = "idle" /\ Quiet /\ UNCHANGED <<live, rec, SciEn, pc>>
    BY <1>1 DEF Activate
  <2>2. unserved = {}
    BY <2>1, QuietOwesNothing
  <2>3. hw'.sts = (hw.sts \ SmisBits) \cup {"APM"} /\ hw'.en = hw.en \cup {"APM"}
    BY <1>0, <1>1 DEF Activate, Registers
  <2>4. \A h \in unserved' : h \in live /\ SrcDesc(rec[h]) = "APM"
    BY <1>1, <2>2 DEF Activate, SrcDesc
  <2>5. "APM" \in Bits
    BY DEF Bits, SmisBits
  <2> QED BY <1>0, <2>1, <2>2, <2>3, <2>4, <2>5, FiresAlone
<1>2. ASSUME NEW typ \in SleepTypes, OsSleep(typ) PROVE OwedFits'
  <2>1. pc = "idle" /\ Quiet /\ UNCHANGED <<live, rec, SciEn, pc>>
    BY <1>2 DEF OsSleep
  <2>2. unserved = {}
    BY <2>1, QuietOwesNothing
  <2>3. hw'.sts = hw.sts \cup {"SLP"} /\ hw'.en = hw.en
    BY <1>0, <1>2 DEF OsSleep, Registers
  <2>4. \A h \in unserved' : h \in live /\ SrcDesc(rec[h]) = "SLP" /\ "SLP" \in hw.en
    BY <1>2, <2>2 DEF OsSleep, Owed
  <2>5. "SLP" \in Bits
    BY DEF Bits, SmisBits
  <2> QED BY <1>0, <2>1, <2>2, <2>3, <2>4, <2>5, FiresAlone
<1>3. ASSUME NEW s \in HwSources, HwEvent(s) PROVE OwedFits'
  <2>1. pc = "idle" /\ Quiet /\ UNCHANGED <<live, rec, SciEn, pc>>
    BY <1>3 DEF HwEvent
  <2>2. unserved = {}
    BY <2>1, QuietOwesNothing
  <2>3. hw'.sts = hw.sts \cup {s} /\ hw'.en = hw.en
    BY <1>0, <1>3 DEF HwEvent, Registers
  <2>4. \A h \in unserved' : /\ h \in live /\ SrcDesc(rec[h]) = s /\ s \in hw.en
                             /\ ~(s = "THRM" /\ SciEn)
    BY <1>3, <2>2 DEF HwEvent, Owed
  <2>5. s \in Bits
    BY BoundsAssumption DEF Bits, SmisBits
  <2> QED BY <1>0, <2>1, <2>2, <2>3, <2>4, <2>5, FiresAlone
<1> QED BY <1>1, <1>2, <1>3

\* Registering and removing children: between SMIs the others keep their source
\* active, and in a callback the ones ahead of the dispatcher stay ahead.
LEMMA RegistrationOwed ==
    ASSUME ~AsyncSmi, TypeOK, ChildrenHaveBits, OwedFits,
           \/ \E c \in Requests : QNCSmmCoreRegister(c)
           \/ \E h \in Handles : QNCSmmCoreUnRegister(h)
    PROVE  OwedFits'
<1>1. ASSUME NEW c \in Requests, QNCSmmCoreRegister(c) PROVE OwedFits'
  <2>1. UNCHANGED <<pc, RecordInDb, RecordToExhaust, ActiveSource, unserved>>
    BY <1>1 DEF QNCSmmCoreRegister
  <2>2. \A k \in unserved : SrcDesc(rec'[k]) = SrcDesc(rec[k])
    BY <1>1, RegisterRecords, SrcDescOfContext DEF TypeOK
  <2>3. CASE pc = "callback"
    BY <2>1, <2>2, <2>3 DEF OwedFits
  <2>4. CASE pc = "idle" /\ Quiet
    BY <2>1, <2>4, QuietOwesNothing DEF OwedFits
  <2> QED BY <1>1, <2>3, <2>4 DEF QNCSmmCoreRegister
<1>2. ASSUME NEW h \in Handles, QNCSmmCoreUnRegister(h) PROVE OwedFits'
  <2>1. /\ UNCHANGED <<pc, RecordInDb, RecordToExhaust, ActiveSource, SciEn>>
        /\ unserved' = unserved \ {h} /\ pc \in {"idle", "callback"} /\ h \in live
    BY <1>2 DEF QNCSmmCoreUnRegister
  <2>2. \A k \in unserved' : k \in unserved /\ rec'[k] = rec[k] /\ k \in live \ {h}
    BY <1>2, <2>1, LiveHandles DEF QNCSmmCoreUnRegister, TypeOK
  <2>3. CASE pc = "callback"
    BY <2>1, <2>2, <2>3 DEF OwedFits
  <2>4. CASE pc = "idle"
    <3>1. /\ hw'.sts = hw.sts /\ hw'.en \subseteq hw.en
          /\ \A k \in live \ {h} : SrcDesc(rec[k]) \in hw.en => SrcDesc(rec[k]) \in hw'.en
      <4>1. hw \in Registers
        BY DEF TypeOK
      <4>2. CASE SafeToDisable(h)
        BY <1>2, <4>1, <4>2 DEF QNCSmmCoreUnRegister, QNCSmmDisableSource, Registers, SafeToDisable
      <4>3. CASE ~SafeToDisable(h)
        BY <1>2, <4>3 DEF QNCSmmCoreUnRegister
      <4> QED BY <4>2, <4>3
    <3>2. \A t \in Bits : SourceIsActive(t)' => SourceIsActive(t)
      BY <2>1, <3>1 DEF SourceIsActive
    <3>3. \A k \in unserved' : SourceIsActive(SrcDesc(rec[k]))'
      BY <2>1, <2>2, <2>4, <3>1 DEF OwedFits, OnlyActive, SourceIsActive
    <3>4. \A k \in unserved' : OnlyActive(SrcDesc(rec[k]))'
      BY <2>2, <2>4, <3>2, <3>3 DEF OwedFits, OnlyActive
    <3> QED BY <2>1, <2>4, <3>4 DEF OwedFits
  <2> QED BY <2>1, <2>3, <2>4
<1> QED BY <1>1, <1>2

\* The dispatcher passes over nobody who is owed a call.
LEMMA DispatcherOwed ==
    ASSUME TypeOK, ChildrenHaveBits, OwedFits, Dispatch \/ Dispatcher \/ Resume
    PROVE  OwedFits'
<1>0. /\ unserved \subseteq live /\ live \subseteq Nat /\ NULL \notin live
      /\ \A h \in unserved : SrcDesc(rec[h]) \in Bits
  BY LiveHandles DEF TypeOK, ChildrenHaveBits
<1>1. CASE Dispatch
  <2>1. UNCHANGED <<hw, SciEn, rec, unserved>> /\ pc = "idle" /\ pc' = "search" /\ RecordInDb' = GetFirstNode
    BY <1>1 DEF Dispatch
  <2>2. \A h \in unserved : RecordInDb' # NULL /\ RecordInDb' <= h
    BY <1>0, <2>1, FirstNode
  <2> QED BY <2>1, <2>2 DEF OwedFits, OnlyActive, SourceIsActive
<1>2. CASE SearchNext
  <2>1. /\ UNCHANGED <<hw, SciEn, rec, unserved, pc>> /\ pc = "search" /\ RecordInDb # NULL
        /\ RecordInDb' = GetNextNode(RecordInDb) /\ ~SourceIsActive(SrcDesc(rec[RecordInDb]))
    BY <1>2 DEF SearchNext
  <2>2. RecordInDb \in live
    BY <2>1 DEF TypeOK
  <2>3. \A h \in unserved : h > RecordInDb
    BY <1>0, <2>1, <2>2 DEF OwedFits, OnlyActive
  <2>4. \A h \in unserved : RecordInDb' # NULL /\ RecordInDb' <= h
    BY <1>0, <2>1, <2>2, <2>3, NextNode
  <2> QED BY <2>1, <2>4 DEF OwedFits, OnlyActive, SourceIsActive
<1>3. CASE FoundSource
  <2>1. /\ UNCHANGED <<rec, unserved>> /\ pc = "search" /\ pc' = "exhaust" /\ RecordInDb # NULL
        /\ SourceIsActive(SrcDesc(rec[RecordInDb])) /\ ActiveSource' = SrcDesc(rec[RecordInDb])
        /\ RecordToExhaust' = RecordInDb
    BY <1>3 DEF FoundSource
  <2>2. RecordInDb \in live /\ SrcDesc(rec[RecordInDb]) \in Bits
    BY <2>1 DEF TypeOK, ChildrenHaveBits
  <2> QED BY <2>1, <2>2 DEF OwedFits, OnlyActive
<1>4. CASE SearchEnd
  BY <1>4 DEF SearchEnd, OwedFits
<1>5. CASE Exhaust
  <2>1. /\ RecordToExhaust \in live /\ pc = "exhaust" /\ pc' \in {"exhaust", "callback"}
        /\ UNCHANGED ActiveSource /\ unserved' \subseteq unserved
        /\ RecordToExhaust \in unserved => RecordToExhaust \notin unserved'
    BY <1>5 DEF Exhaust, TypeOK, CompareSources, OwedFits
  <2>2. \A k \in live : SrcDesc(rec'[k]) = SrcDesc(rec[k])
    BY <1>5, ExhaustRecords, SrcDescOfContext, LiveHandles
  <2>3. \A k \in unserved' : k > RecordToExhaust
    BY <1>0, <2>1 DEF OwedFits
  <2>4. CASE pc' = "callback"
    <3>1. RecordToExhaust' = RecordToExhaust
      BY <1>5, <2>1, <2>4 DEF Exhaust
    <3> QED BY <1>0, <2>1, <2>2, <2>3, <2>4, <3>1 DEF OwedFits
  <2>5. CASE pc' = "exhaust"
    <3>1. RecordToExhaust' = GetNextNode(RecordToExhaust)
      BY <1>5, <2>1, <2>5 DEF Exhaust
    <3>2. \A k \in unserved' : RecordToExhaust' # NULL /\ RecordToExhaust' <= k
      BY <1>0, <2>1, <2>3, <3>1, NextNode
    <3> QED BY <1>0, <2>1, <2>2, <2>5, <3>2 DEF OwedFits
  <2> QED BY <2>1, <2>4, <2>5
<1>6. CASE CallbackReturns
  <2>1. /\ RecordToExhaust \in live /\ pc = "callback" /\ pc' = "exhaust"
        /\ UNCHANGED <<rec, ActiveSource, unserved>>
        /\ RecordToExhaust' = GetNextNode(RecordToExhaust)
    BY <1>6 DEF CallbackReturns, TypeOK
  <2>2. \A k \in unserved : k > RecordToExhaust
    BY <1>0, <2>1 DEF OwedFits
  <2>3. \A k \in unserved : RecordToExhaust' # NULL /\ RecordToExhaust' <= k
    BY <1>0, <2>1, <2>2, NextNode
  <2> QED BY <2>1, <2>3 DEF OwedFits
<1>7. CASE ClearActive
  BY <1>7 DEF ClearActive, OwedFits
<1>8. CASE SetEos \/ QNCSmmSxGoToSleep \/ Resume
  BY <1>8 DEF SetEos, QNCSmmSxGoToSleep, Resume, OwedFits
<1> QED BY <1>1, <1>2, <1>3, <1>4, <1>5, <1>6, <1>7, <1>8 DEF Dispatcher

\* Every step keeps OwedFits.
LEMMA NextOwed ==
    ASSUME ~AsyncSmi, TypeOK, TypeOK', ChildrenHaveBits, OwedFits, [Next]_vars
    PROVE  OwedFits'
<1>1. CASE UNCHANGED vars
  BY <1>1 DEF OwedFits, OnlyActive, SourceIsActive
<1>2. CASE SmmClear
  <2>1. unserved = {}
    BY <1>2, QuietOwesNothing DEF SmmClear, TypeOK
  <2> QED BY <1>2, <2>1 DEF SmmClear, OwedFits
<1>3. CASE EnableAcpiCallback \/ DisableAcpiCallback
  <2>1. /\ UNCHANGED <<rec, pc, ActiveSource, RecordToExhaust>> /\ pc = "callback"
        /\ unserved' \subseteq unserved
    BY <1>3 DEF EnableAcpiCallback, DisableAcpiCallback
  <2> QED BY <2>1 DEF OwedFits
<1> QED BY <1>1, <1>2, <1>3, EventOwed, RegistrationOwed, DispatcherOwed DEF Next

\* While sources fire one at a time, none of the children registered for one misses
\* its SMI, though the dispatcher serves one source per SMI and EOS clears the whole
\* status register (QNCSmmCoreDispatcher).
THEOREM NoSmiIsLost ==
    ASSUME ~AsyncSmi, RealSources
    PROVE  Spec => []NothingLost
<1>1. Init => ChildrenHaveBits /\ OwedFits
  BY DEF Init, ChildrenHaveBits, OwedFits
<1>2. TypeOK /\ TypeOK' /\ ChildrenHaveBits /\ OwedFits /\ [Next]_vars
        => ChildrenHaveBits' /\ OwedFits'
  BY NextBits, NextOwed
<1>3. TypeOK /\ ChildrenHaveBits /\ OwedFits => NothingLost
  <2> SUFFICES ASSUME TypeOK, ChildrenHaveBits, OwedFits, NEW h \in unserved
               PROVE  \/ SrcDesc(rec[h]) \in hw.sts
                      \/ /\ pc \in {"exhaust", "callback"}
                         /\ SrcDesc(rec[h]) = ActiveSource
                         /\ RecordToExhaust # NULL
                         /\ h >= RecordToExhaust
    BY DEF NothingLost
  <2>1. h \in live /\ SrcDesc(rec[h]) \in Bits
    BY DEF TypeOK, ChildrenHaveBits
  <2>2. CASE pc \in {"idle", "search"}
    BY <2>1, <2>2 DEF OwedFits, OnlyActive, SourceIsActive
  <2>3. CASE pc \in {"exhaust", "callback"}
    BY <2>1, <2>3, LiveHandles DEF OwedFits, TypeOK
  <2> QED BY <2>2, <2>3 DEF OwedFits, TypeOK
<1> QED BY <1>1, <1>2, <1>3, DispatcherTypes, PTL DEF Spec
=============================================================================
