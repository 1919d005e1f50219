----------------------------- MODULE MpServicesProofs -----------------------------
(***************************************************************************)
(* Proofs about MpServices.                                                *)
(*                                                                         *)
(* ServiceTypes holds as it stands.  The others hold while callers are     *)
(* careful (CarefulCallers) and an AP has read mApFunction before the BSP  *)
(* changes it (PromptAPs); section 5 of the README says what goes wrong    *)
(* otherwise.                                                              *)
(*                                                                         *)
(* The inductive invariant MpInv gives every application processor at most *)
(* one owner, the request it works for, and says for each State where the  *)
(* processor may then be.  The rest of it ties the two threads of the BSP, *)
(* the counts of StartupAllAPs() and the role exchange to the owners.      *)
(***************************************************************************)
EXTENDS MpServices, FiniteSetTheorems, SequenceTheorems, WellFoundedInduction, TLAPS

\* The types of the variables.
Infos == {"IDLE", "STORED", "LOADED"}
ClockSet == [WaitEvent : Nat, ExpectedTime : Nat, age : Nat, TotalTime : Nat]
AllSet == [CpuList : SUBSET Cpus, StartCount : Nat, FinishCount : Nat,
           SingleThread : BOOLEAN, Procedure : 0 .. MaxRequests, Clock : ClockSet]
ArgSet == [req : 0 .. MaxRequests, single : BOOLEAN, wait : BOOLEAN, limit : Nat,
           exit : BOOLEAN, cpu : Cpus, enable : BOOLEAN]
ReqSet == [cpus : SUBSET Cpus, single : BOOLEAN, limit : Nat, status : Statuses,
           done : SUBSET Cpus, failed : SUBSET Cpus, early : BOOLEAN]

\* The calls the two threads are in.
MainAll == pc["main"] \in {"wake", "save", "all", "allEnd", "allInit", "allIdle"}
MainThis == pc["main"] \in {"this", "thisTime", "thisIdle"}
CbAll == pc["cb"] \in {"all", "allEnd", "allInit", "allIdle"}
CbThis == pc["cb"] \in {"this", "thisTime", "thisIdle"}

\* The variables keep their types.
MpTypes ==
    /\ State \in [Cpus -> CpuStates]
    /\ Procedure \in [Cpus -> 0 .. MaxRequests + 1]
    /\ Clock \in [Cpus -> ClockSet]
    /\ all \in AllSet
    /\ mStopCheckAPsStatus \in BOOLEAN
    /\ mApFunction \in {"NULL", "ApProcWrapper"}
    /\ BspNumber \in Cpus /\ bspCpu \in Cpus
    /\ BSPInfo \in Infos /\ APInfo \in Infos
    /\ apPc \in [Cpus -> ApPlaces]
    /\ apProc \in [Cpus -> 0 .. MaxRequests + 1]
    /\ apCtx \in [Cpus -> Cpus]
    /\ pc \in [Frames -> MainPlaces \cup CbPlaces]
    /\ pc["main"] \in MainPlaces /\ pc["cb"] \in CbPlaces
    /\ cur \in [Frames -> Nat]
    /\ arg \in ArgSet
    /\ req \in Seq(ReqSet) /\ Len(req) <= MaxRequests

\* A thread inside a call knows the call's request or processor, and SaveRequest
\* and the role exchange are never preempted.
ThreadsFit ==
    /\ arg.req <= Len(req)
    /\ all.Clock.WaitEvent <= Len(req)
    /\ \A p \in Cpus : Clock[p].WaitEvent <= Len(req)
    /\ MainAll \/ MainThis => arg.req # NULL
    /\ MainThis \/ pc["main"] = "allIdle" => cur["main"] \in Cpus
    /\ CbAll => all.Clock.WaitEvent # NULL
    /\ CbThis => cur["cb"] \in Cpus /\ Clock[cur["cb"]].WaitEvent # NULL
    /\ pc["cb"] = "allIdle" => cur["cb"] \in Cpus
    /\ pc["main"] \in {"wake", "save"} => mStopCheckAPsStatus
    /\ pc["main"] \in {"wake", "save", "exchange"} => pc["cb"] = "off"

\* The request of StartupAllAPs() that is under way, if any.
AllReq == IF MainAll THEN arg.req ELSE all.Clock.WaitEvent
\* p was handed to that request and is not done with it.
InAll(p) == /\ AllReq # NULL
            /\ p \in all.CpuList
            /\ pc["main"] = "wake" => p < cur["main"]
\* The request of StartupThisAP() p is busy with, if any.
ThisReq(p) == IF MainThis /\ cur["main"] = p THEN arg.req ELSE Clock[p].WaitEvent
\* The request p works for.
Owner(p) == IF InAll(p) THEN AllReq ELSE ThisReq(p)

\* one call at a time
CallsFit ==
    /\ MainAll \/ pc["main"] = "exitWait" => all.Clock.WaitEvent = NULL
    /\ MainThis => Clock[cur["main"]].WaitEvent = NULL
    /\ \A f \in Frames : pc[f] = "allIdle" => cur[f] \in all.CpuList
    /\ pc["main"] \in {"wake", "save"} => (arg.single <=> req[arg.req].single)
    /\ AllReq # NULL =>
         /\ pc["main"] \notin {"wake", "save"} =>
              all.Procedure = AllReq /\ (all.SingleThread <=> req[AllReq].single)
         /\ \A p \in Cpus : ThisReq(p) # AllReq

\* A thread aborts the processors of a request that has timed out.
Resetting ==
    \/ pc["main"] \in {"allInit", "allIdle"}
    \/ pc["cb"] \in {"allInit", "allIdle"}

\* p is in the HLT loop or on its way to it.
Parked(p) == \/ apPc[p] = "hlt"
             \/ apPc[p] = "boot" /\ mApFunction = "NULL"
\* p was sent an INIT and is not yet marked idle.
Aborted(p) == \E f \in Frames : pc[f] \in {"allIdle", "thisIdle"} /\ cur[f] = p

\* SwitchBSP() is under way.
Switching == pc["main"] \in {"exchange", "switched"}
\* The processors that are not APs: the BSP and, while the roles are exchanged,
\* the future BSP.
Aside == {BspNumber, bspCpu} \cup (IF pc["main"] = "exchange" THEN {arg.cpu} ELSE {})
\* The application processors.
Aps == Cpus \ Aside

\* Two processors never read mApFunction at a time.
OneBoots == \A p, q \in Cpus : apPc[p] = "boot" /\ apPc[q] = "boot" => p = q

\* The future BSP before AsmExchangeRole.
Entering(t) ==
    \/ /\ State[t] = "Idle" /\ Procedure[t] = FutureBSPProc
       /\ (apPc[t] = "boot" /\ mApFunction = "ApProcWrapper") \/ apPc[t] = "wrap"
    \/ State[t] = "Busy" /\ apPc[t] = "proc" /\ apProc[t] = FutureBSPProc
\* The old BSP between AsmExchangeRole and the HLT loop.
Leaving(o, t) ==
    \/ /\ apPc[o] \in {"clear", "fin"} /\ apProc[o] = FutureBSPProc
       /\ apCtx[o] = t /\ State[o] # "Finished"
    \/ apPc[o] = "hlt" /\ apProc[o] # FutureBSPProc /\ apCtx[o] = o
\* The old BSP has stored its stack pointer, and how far the other may then be.
OldStored(o, t) ==
    /\ apPc[o] = "bspStored" /\ apCtx[o] = o /\ State[o] \in {"Idle", "Busy"}
    /\ \/ BSPInfo = "STORED" /\ APInfo = "IDLE" /\ Entering(t)
       \/ BSPInfo = "STORED" /\ APInfo = "STORED" /\ apPc[t] = "stored" /\ State[t] = "Busy"
       \/ BSPInfo = "LOADED" /\ APInfo = "STORED" /\ apPc[t] = "loaded" /\ State[t] = "Busy"
\* The old BSP has loaded the AP's stack pointer.
OldLoaded(o, t) ==
    /\ apPc[o] = "bspLoaded" /\ apCtx[o] = t /\ State[o] \in {"Idle", "Busy"}

\* The role exchange
RoleFits ==
    LET o == BspNumber  t == arg.cpu
    IN
    /\ ~Switching =>
         /\ bspCpu = o /\ apPc[o] = "bsp" /\ apCtx[o] = o /\ apProc[o] # FutureBSPProc
         /\ State[o] \in {"Idle", "Busy"}
    /\ pc["main"] = "exchange" =>
         /\ bspCpu = o /\ t # o /\ apCtx[t] = t
         /\ \/ OldStored(o, t)
            \/ /\ OldLoaded(o, t) \/ (Leaving(o, t) /\ BSPInfo = "LOADED")
               /\ APInfo = "LOADED"
               /\ State[t] = "Busy"
               /\ \/ BSPInfo = "STORED" /\ apPc[t] = "stored"
                  \/ BSPInfo = "LOADED" /\ apPc[t] = "loaded"
    /\ pc["main"] = "switched" =>
         /\ bspCpu = t /\ t # o /\ apCtx[t] = t /\ apPc[t] = "bsp" /\ State[t] = "Busy"
         /\ apProc[t] # FutureBSPProc
         /\ BSPInfo = "LOADED"
         /\ OldLoaded(o, t) \/ Leaving(o, t)

\* No request is given to the BSP or the future BSP.
Unowned == \A c \in Aside : ~InAll(c) /\ ThisReq(c) = NULL

\* What each State of p says of its place and of the procedure it runs for r.
Works(p, r) ==
    \/ /\ State[p] = "Ready"
       /\ p \notin req[r].done
       /\ \/ Procedure[p] = r /\ ((apPc[p] = "boot" /\ mApFunction = "ApProcWrapper") \/ apPc[p] = "wrap")
          \/ req[r].single /\ Parked(p)
    \/ State[p] = "Busy" /\ apPc[p] = "proc" /\ apProc[p] = r /\ p \notin req[r].done
    \/ State[p] = "Busy" /\ apPc[p] \in {"clear", "fin"} /\ apProc[p] # FutureBSPProc /\ p \in req[r].done
    \/ State[p] = "Finished" /\ apPc[p] = "hlt" /\ p \in req[r].done

\* An AP is in its own context; it has an owner exactly when it is neither idle nor
\* disabled, and only one; if it is not idle it works, or was aborted and is parked.
ApFits(p) ==
    /\ apCtx[p] = p
    /\ State[p] \in {"Idle", "Disabled"} => Owner(p) = NULL /\ Parked(p)
    /\ State[p] \notin {"Idle", "Disabled"} =>
         /\ Owner(p) # NULL
         /\ IF Aborted(p) THEN Parked(p) ELSE Works(p, Owner(p))
    /\ ~(InAll(p) /\ ThisReq(p) # NULL)

\* Every AP fits.
ApsFit == \A p \in Aps : ApFits(p)

\* The request of a StartupThisAP() is open and its own processor's.
ThisFits ==
    \A p \in Cpus :
        ThisReq(p) # NULL =>
            LET r == req[ThisReq(p)]
            IN  r.status = "open" /\ r.cpus = {p} /\ ~r.single /\ r.failed = {}

\* CpuList, FailedCpuList and the processors on which the procedure returned make up
\* the request, and the counts of CheckAllAPs() agree with CpuList.
AllCounts ==
    AllReq # NULL =>
        LET r == req[AllReq]
        IN  /\ r.status = "open"
            /\ all.CpuList \subseteq r.cpus \ r.failed
            /\ r.cpus \subseteq all.CpuList \cup r.failed \cup r.done
            /\ ~Resetting =>
                 /\ r.failed = {}
                 /\ all.FinishCount + Cardinality(all.CpuList) = all.StartCount

\* In single thread mode whoever is not the first of CpuList waits, parked.
TurnsFit ==
    AllReq # NULL /\ req[AllReq].single =>
        \A p, q \in all.CpuList :
            InAll(p) /\ q < p => State[p] = "Ready" /\ Parked(p)

\* Those StartupAllAPs() has still to wake are idle, and there is one.
WakeFits ==
    pc["main"] = "wake" =>
        /\ \A p \in all.CpuList :
             p >= cur["main"] => State[p] = "Idle" /\ p \notin req[arg.req].done
        /\ all.CpuList \cap Aside = {}
        /\ \E p \in all.CpuList : p >= cur["main"]

\* The inductive invariant.
MpInv ==
    /\ MpTypes /\ ThreadsFit /\ CallsFit /\ OneBoots /\ RoleFits /\ Unowned
    /\ ApsFit /\ ThisFits /\ AllCounts /\ TurnsFit /\ WakeFits /\ EndedAccounted

(***************************************************************************)
(* Arithmetic and the records.                                             *)
(***************************************************************************)
\* A nonempty set of natural numbers has a least element.
LEMMA LeastExists ==
    ASSUME NEW S \in SUBSET Nat, S # {}
    PROVE  \E n \in S : \A m \in S : n <= m
<1>1. PICK n \in S : \A m \in S : ~ (<<m, n>> \in OpToRel(<, Nat))
  BY WFMin, NatLessThanWellFounded
<1>2. \A m \in S : ~(m < n)
  BY <1>1 DEF OpToRel
<1>3. \A m \in S : n <= m
  BY <1>2
<1> QED BY <1>3

\* Min() returns it.
LEMMA MinFact ==
    ASSUME NEW S \in SUBSET Nat, S # {}
    PROVE  Min(S) \in S /\ \A m \in S : Min(S) <= m
<1>1. \E n \in S : \A m \in S : n =< m
  BY LeastExists
<1> QED BY <1>1, Zenon DEF Min

\* A bounded set of natural numbers has a maximum, and Max() returns it.
LEMMA MaxIs ==
    ASSUME NEW S \in SUBSET Nat, S # {}, NEW b \in Nat, \A m \in S : m <= b
    PROVE  Max(S) \in S /\ \A m \in S : m <= Max(S)
<1> DEFINE U == {n \in Nat : \A m \in S : m <= n}
<1>1. U \in SUBSET Nat /\ U # {}
  OBVIOUS
<1> HIDE DEF U
<1>2. PICK u \in U : \A v \in U : u <= v
  BY <1>1, LeastExists
<1> USE DEF U
<1>3. u \in S
  <2> SUFFICES ASSUME u \notin S PROVE FALSE
    OBVIOUS
  <2>1. PICK s \in S : TRUE
    OBVIOUS
  <2>2. u # 0
    BY <2>1, <1>2
  <2>3. u - 1 \in U
    BY <1>2, <2>2
  <2> QED BY <2>3, <1>2
<1>4. \E n \in S : \A m \in S : n >= m
  BY <1>2, <1>3
<1>5. Max(S) \in S /\ \A m \in S : Max(S) >= m
  BY <1>4, Zenon DEF Max
<1> QED BY <1>5

\* The maximum of a set of processors.
LEMMA MaxFact ==
    ASSUME NEW S \in SUBSET Cpus, S # {}
    PROVE  Max(S) \in S /\ \A m \in S : m <= Max(S)
<1>1. S \in SUBSET Nat /\ NumberOfProcessors \in Nat /\ \A m \in S : m <= NumberOfProcessors
  BY ProcessorsAssumption DEF Cpus
<1> QED BY <1>1, MaxIs

\* The minimum of a set of processors.
LEMMA MinCpu ==
    ASSUME NEW S \in SUBSET Cpus, S # {}
    PROVE  Min(S) \in S /\ Min(S) \in Cpus /\ \A m \in S : Min(S) <= m
<1>1. S \in SUBSET Nat
  BY DEF Cpus
<1>2. Min(S) \in S /\ \A m \in S : Min(S) <= m
  BY <1>1, MinFact
<1> QED BY <1>2

\* There are finitely many processors.
LEMMA CpusFinite == IsFiniteSet(Cpus) /\ Cpus \subseteq Nat /\ 0 \in Cpus
<1>1. IsFiniteSet(0 .. NumberOfProcessors - 1)
  BY ProcessorsAssumption, FS_Interval
<1> QED BY <1>1, ProcessorsAssumption DEF Cpus

\* The limits of finitely many calls are bounded.
LEMMA TimeCapType == TimeCap \in Nat
<1> DEFINE C == AllCalls \cup ThisCalls
           L == {c.limit : c \in C} \cup {0}
<1>1. IsFiniteSet(C)
  BY BoundsAssumption, FS_Union
<1>2. \A c \in C : c.limit \in Nat
  BY BoundsAssumption
<1> HIDE DEF C
<1>3. PICK f \in Bijection(1 .. Cardinality(C), C) : TRUE
  BY <1>1, FS_CardinalityType DEF ExistsBijection
<1>4. Cardinality(C) \in Nat
  BY <1>1, FS_CardinalityType
<1> DEFINE N == Cardinality(C)
<1> HIDE DEF N
<1>5. f \in [1 .. N -> C] /\ \A c \in C : \E i \in 1 .. N : f[i] = c
  BY <1>3 DEF N, Bijection, Injection, Surjection
<1>6. N \in Nat
  BY <1>4 DEF N
<1> DEFINE Bad == {n \in 0 .. N : \A b \in Nat : \E i \in 1 .. n : ~(f[i].limit <= b)}
<1>7. Bad = {}
  <2> SUFFICES ASSUME Bad # {} PROVE FALSE
    OBVIOUS
  <2>1. Bad \in SUBSET Nat
    BY <1>6
  <2> HIDE DEF Bad
  <2>2. PICK n \in Bad : \A m \in Bad : n <= m
    BY <2>1, LeastExists
  <2>n. n \in Nat
    BY <2>1, <2>2
  <2>5. n - 1 \notin Bad
    BY <2>2, <2>n
  <2>3. n # 0
    BY <2>2 DEF Bad
  <2>4. n - 1 \in 0 .. N /\ n \in 1 .. N
    BY <2>2, <2>3, <1>6 DEF Bad
  <2>6. PICK b \in Nat : \A i \in 1 .. n - 1 : f[i].limit <= b
    BY <2>4, <2>5 DEF Bad
  <2>7. f[n] \in C
    BY <2>4, <1>5
  <2>8. f[n].limit \in Nat
    BY <2>7, <1>2
  <2> DEFINE d == IF b >= f[n].limit THEN b ELSE f[n].limit
  <2>9. d \in Nat /\ d >= b /\ d >= f[n].limit
    BY <2>8
  <2> HIDE DEF d
  <2>10. \A i \in 1 .. n : f[i].limit <= d
    <3> TAKE i \in 1 .. n
    <3>0. i \in 1 .. N
      BY <2>4, <1>6
    <3>1. f[i] \in C
      BY <3>0, <1>5
    <3>2. f[i].limit \in Nat
      BY <3>1, <1>2
    <3>3. CASE i = n
      BY <3>3, <2>9
    <3>4. CASE i # n
      <4>1. i \in 1 .. n - 1
        BY <3>4, <2>4
      <4>2. f[i].limit <= b
        BY <4>1, <2>6
      <4> QED BY <4>2, <2>9, <3>2
    <3> QED BY <3>3, <3>4
  <2> QED BY <2>9, <2>10, <2>2 DEF Bad
<1> HIDE DEF Bad
<1>7a. N \in 0 .. N /\ N \notin Bad
  BY <1>6, <1>7
<1>8. PICK b \in Nat : \A i \in 1 .. N : f[i].limit <= b
  BY <1>7a DEF Bad
<1>9. L \in SUBSET Nat /\ L # {}
  BY <1>2
<1>10. \A m \in L : m <= b
  BY <1>5, <1>8
<1> HIDE DEF L
<1>11. Max(L) \in L
  BY <1>9, <1>10, MaxIs
<1>12. Max(L) \in Nat
  BY <1>9, <1>11
<1> QED BY <1>12 DEF L, C, TimeCap

-----------------------------------------------------------------------------
\* What CalculateTimeout() and CheckTimeout() make of a clock.
LEMMA ClockFacts ==
    ASSUME NEW clock \in ClockSet, NEW event \in Nat, NEW limit \in Nat, NEW delta \in Nat
    PROVE  /\ StartClock(clock, event, limit) \in ClockSet
           /\ StartClock(clock, event, limit).WaitEvent = event
           /\ StopClock(clock) \in ClockSet
           /\ StopClock(clock).WaitEvent = NULL
           /\ ReadClock(clock, delta) \in ClockSet
           /\ ReadClock(clock, delta).WaitEvent = clock.WaitEvent
<1>1. \A n \in Nat : Min({n, TimeCap}) \in Nat
  <2> TAKE n \in Nat
  <2> DEFINE S == {n, TimeCap}
  <2>1. S \in SUBSET Nat /\ S # {}
    BY TimeCapType
  <2> HIDE DEF S
  <2>2. Min(S) \in Nat
    BY <2>1, MinFact
  <2> QED BY <2>2 DEF S
<1>2. clock.TotalTime + delta \in Nat /\ clock.age + delta \in Nat
  BY DEF ClockSet
<1>3. Min({clock.TotalTime + delta, TimeCap}) \in Nat /\ Min({clock.age + delta, TimeCap}) \in Nat
  BY <1>1, <1>2
<1> QED BY <1>3 DEF ClockSet, StartClock, StopClock, ReadClock, NoClock, NULL

\* The main thread's arguments outside of a call.
LEMMA NoArgType == NoArg \in ArgSet /\ NoArg.req = NULL
BY CpusFinite, BoundsAssumption DEF NoArg, ArgSet, NULL

\* A clock that was never started.
LEMMA NoClockType == NoClock \in ClockSet /\ NoClock.WaitEvent = NULL
BY DEF NoClock, ClockSet, NULL

\* A request's record.
LEMMA ReqIs ==
    ASSUME req \in Seq(ReqSet), NEW r \in 1 .. Len(req)
    PROVE  req[r] \in ReqSet /\ DOMAIN req = 1 .. Len(req)
OBVIOUS

\* req with the record of one request replaced
Replaced(r, new) ==
    /\ req' \in Seq(ReqSet)
    /\ Len(req') = Len(req)
    /\ \A s \in 1 .. Len(req) : req'[s] = IF s = r THEN new ELSE req[s]

\* An EXCEPT replaces one record.
LEMMA ReplacedFact ==
    ASSUME req \in Seq(ReqSet), NEW r \in 1 .. Len(req), NEW new \in ReqSet,
           req' = [req EXCEPT ![r] = new]
    PROVE  Replaced(r, new)
BY ExceptSeq DEF Replaced

\* A request's record when the call has ended.
EndedRec(old, status, failed, clock) ==
    [old EXCEPT !.status = status, !.failed = failed,
                !.early = status = "TIMEOUT" /\ clock.age <= clock.ExpectedTime]

\* The end of a call changes its record's status and failed processors.
LEMMA EndedFact ==
    ASSUME req \in Seq(ReqSet), NEW r \in 1 .. Len(req), NEW status \in Statuses,
           NEW failed \in SUBSET Cpus, NEW clock, req' = Ended(r, status, failed, clock)
    PROVE  /\ Replaced(r, EndedRec(req[r], status, failed, clock))
           /\ LET new == EndedRec(req[r], status, failed, clock)
              IN  /\ new.status = status /\ new.failed = failed /\ new.cpus = req[r].cpus
                  /\ new.done = req[r].done /\ new.single = req[r].single
<1>1. req[r] \in ReqSet
  BY ReqIs
<1> DEFINE e == (status = "TIMEOUT" /\ clock.age <= clock.ExpectedTime)
<1>2. e \in BOOLEAN
  OBVIOUS
<1>3. EndedRec(req[r], status, failed, clock) = [req[r] EXCEPT !.status = status, !.failed = failed, !.early = e]
  BY DEF EndedRec
<1> HIDE DEF e
<1>4. [req[r] EXCEPT !.status = status, !.failed = failed, !.early = e] \in ReqSet
  BY <1>1, <1>2 DEF ReqSet
<1>5. req' = [req EXCEPT ![r] = EndedRec(req[r], status, failed, clock)]
  BY DEF Ended, EndedRec
<1>6. Replaced(r, EndedRec(req[r], status, failed, clock))
  BY <1>3, <1>4, <1>5, ReplacedFact
<1> QED BY <1>1, <1>3, <1>6 DEF ReqSet

\* req with a new request
Appended(new) ==
    /\ new \in ReqSet
    /\ req' \in Seq(ReqSet)
    /\ Len(req') = Len(req) + 1
    /\ \A s \in 1 .. Len(req) : req'[s] = req[s]
    /\ req'[Len(req) + 1] = new

\* A new request is open and nobody has run it.
LEMMA AppendedFact ==
    ASSUME req \in Seq(ReqSet), NEW cpus \in SUBSET Cpus, NEW single \in BOOLEAN,
           NEW limit \in Nat, req' = Append(req, NewRequest(cpus, single, limit))
    PROVE  /\ Appended(NewRequest(cpus, single, limit))
           /\ LET new == NewRequest(cpus, single, limit)
              IN  /\ new.cpus = cpus /\ new.single = single /\ new.status = "open"
                  /\ new.done = {} /\ new.failed = {}
<1>1. NewRequest(cpus, single, limit) \in ReqSet
  BY DEF NewRequest, ReqSet, Statuses
<1>2. Appended(NewRequest(cpus, single, limit))
  BY <1>1, AppendProperties DEF Appended
<1> QED BY <1>2 DEF NewRequest

-----------------------------------------------------------------------------
\* The part of MpInv that holds for every caller.
Typed == MpTypes /\ ThreadsFit

\* The facts about types the proofs keep needing.
LEMMA TypedFacts ==
    ASSUME Typed
    PROVE  /\ req \in Seq(ReqSet) /\ Len(req) \in Nat /\ Len(req) <= MaxRequests /\ MaxRequests \in Nat
           /\ arg \in ArgSet /\ arg.req \in 0 .. Len(req) /\ arg.cpu \in Cpus
           /\ arg.single \in BOOLEAN /\ arg.limit \in Nat
           /\ all \in AllSet /\ all.Clock \in ClockSet /\ all.CpuList \in SUBSET Cpus
           /\ all.Clock.WaitEvent \in 0 .. Len(req)
           /\ Clock \in [Cpus -> ClockSet]
           /\ \A p \in Cpus : Clock[p] \in ClockSet /\ Clock[p].WaitEvent \in 0 .. Len(req)
           /\ Frames = {"main", "cb"}
<1>1. req \in Seq(ReqSet) /\ Len(req) \in Nat /\ Len(req) <= MaxRequests /\ MaxRequests \in Nat
  BY BoundsAssumption DEF Typed, MpTypes
<1>2. arg \in ArgSet /\ all \in AllSet /\ Clock \in [Cpus -> ClockSet]
  BY DEF Typed, MpTypes
<1>3. arg.req \in 0 .. Len(req) /\ arg.cpu \in Cpus /\ arg.single \in BOOLEAN /\ arg.limit \in Nat
  BY <1>1, <1>2 DEF ArgSet, Typed, ThreadsFit
<1>4. all.Clock \in ClockSet /\ all.CpuList \in SUBSET Cpus
  BY <1>2 DEF AllSet
<1>5. all.Clock.WaitEvent \in 0 .. Len(req)
  BY <1>1, <1>4 DEF ClockSet, Typed, ThreadsFit
<1>6. \A p \in Cpus : Clock[p] \in ClockSet /\ Clock[p].WaitEvent \in 0 .. Len(req)
  BY <1>1, <1>2 DEF ClockSet, Typed, ThreadsFit
<1> QED BY <1>1, <1>2, <1>3, <1>4, <1>5, <1>6 DEF Frames

\* What SendInitSipiSipi(), WakeUpAp() and AbortAp() do to the types.
ApTypes ==
    /\ State \in [Cpus -> CpuStates]
    /\ Procedure \in [Cpus -> 0 .. MaxRequests + 1]
    /\ mApFunction \in {"NULL", "ApProcWrapper"}
    /\ apPc \in [Cpus -> ApPlaces]
    /\ apProc \in [Cpus -> 0 .. MaxRequests + 1]
    /\ apCtx \in [Cpus -> Cpus]

\* The switch states.
SwTypes ==
    /\ BspNumber \in Cpus /\ bspCpu \in Cpus
    /\ BSPInfo \in Infos /\ APInfo \in Infos

\* The threads' places.
PcTypes ==
    /\ pc \in [Frames -> MainPlaces \cup CbPlaces]
    /\ pc["main"] \in MainPlaces /\ pc["cb"] \in CbPlaces
    /\ cur \in [Frames -> Nat]

\* The requests.
ReqTypes == req \in Seq(ReqSet) /\ Len(req) <= MaxRequests

\* The data of the calls.
DataTypes ==
    /\ Clock \in [Cpus -> ClockSet]
    /\ all \in AllSet
    /\ mStopCheckAPsStatus \in BOOLEAN
    /\ arg \in ArgSet

\* MpTypes and its parts.
LEMMA TypesSplit == MpTypes <=> ApTypes /\ SwTypes /\ PcTypes /\ ReqTypes /\ DataTypes
BY DEF MpTypes, ApTypes, SwTypes, PcTypes, ReqTypes, DataTypes

\* The same in the next state.
LEMMA TypesSplitNext == MpTypes' <=> ApTypes' /\ SwTypes' /\ PcTypes' /\ ReqTypes' /\ DataTypes'
BY DEF MpTypes, ApTypes, SwTypes, PcTypes, ReqTypes, DataTypes

\* WakeUpAp() keeps the types of the processors' data.
LEMMA WakeTypes ==
    ASSUME ApTypes, NEW p \in Cpus, NEW r \in 0 .. MaxRequests + 1, NEW s \in [Cpus -> CpuStates],
           WakeUpAp(p, r, s)
    PROVE  ApTypes'
<1>1. 0 \in 0 .. MaxRequests + 1
  BY BoundsAssumption
<1> QED BY <1>1 DEF ApTypes, WakeUpAp, SendInitSipiSipi, ApPlaces, NULL

\* So does the INIT of ResetProcessorToIdleState().
LEMMA AbortTypes ==
    ASSUME ApTypes, NEW p \in Cpus, AbortAp(p), UNCHANGED <<State, Procedure>>
    PROVE  ApTypes'
<1>1. 0 \in 0 .. MaxRequests + 1
  BY BoundsAssumption
<1> QED BY <1>1 DEF ApTypes, AbortAp, SendInitSipiSipi, ApPlaces, NULL

\* A thread that moves keeps the types of the places.
LEMMA MoveTypes ==
    ASSUME PcTypes, NEW f \in Frames, NEW place, NEW p \in Nat,
           IF f = "main" THEN place \in MainPlaces ELSE place \in CbPlaces,
           pc' = [pc EXCEPT ![f] = place],
           cur' = [cur EXCEPT ![f] = p] \/ cur' = cur
    PROVE  /\ PcTypes'
           /\ pc'[f] = place
           /\ \A g \in Frames \ {f} : pc'[g] = pc[g] /\ cur'[g] = cur[g]
           /\ cur' = [cur EXCEPT ![f] = p] => cur'[f] = p
BY DEF PcTypes, Frames

\* The main thread returns to its caller.
LEMMA MainReturnsTypes ==
    ASSUME PcTypes, MainReturns
    PROVE  /\ PcTypes' /\ arg' \in ArgSet /\ arg'.req = NULL
           /\ pc'["main"] \in {"exited", "ready"}
           /\ pc'["cb"] = pc["cb"] /\ cur'["cb"] = cur["cb"]
<1>1. arg' \in ArgSet /\ arg'.req = NULL
  BY NoArgType DEF MainReturns
<1> DEFINE place == IF arg.exit THEN "exited" ELSE "ready"
<1>2. place \in {"exited", "ready"} /\ pc' = [pc EXCEPT !["main"] = place]
  BY DEF MainReturns
<1> HIDE DEF place
<1> QED BY <1>1, <1>2 DEF MainReturns, PcTypes, Frames, MainPlaces

\* The initial state.
LEMMA InitTyped == Init => Typed
<1> SUFFICES ASSUME Init PROVE Typed
  OBVIOUS
<1>1. ApTypes
  BY CpusFinite, BoundsAssumption DEF Init, ApTypes, CpuStates, ApPlaces, NULL
<1>2. SwTypes /\ PcTypes
  BY CpusFinite DEF Init, SwTypes, PcTypes, Infos, Frames, MainPlaces, CbPlaces
<1>3. ReqTypes /\ Len(req) = 0
  BY BoundsAssumption DEF Init, ReqTypes
<1>4. DataTypes /\ all.Clock = NoClock
  <2>1. all \in AllSet /\ all.Clock = NoClock
    BY NoClockType, BoundsAssumption DEF Init, AllSet, NULL
  <2>2. Clock \in [Cpus -> ClockSet] /\ arg \in ArgSet
    BY NoClockType, NoArgType DEF Init
  <2>3. mStopCheckAPsStatus \in BOOLEAN
    BY DEF Init
  <2> QED BY <2>1, <2>2, <2>3 DEF DataTypes
<1>5. pc["main"] = "ready" /\ pc["cb"] = "off" /\ arg.req = NULL /\ ~mStopCheckAPsStatus
  BY NoArgType DEF Init, Frames
<1>6. \A p \in Cpus : Clock[p].WaitEvent = NULL
  BY NoClockType DEF Init
<1>7. ThreadsFit
  BY <1>3, <1>4, <1>5, <1>6, NoClockType DEF ThreadsFit, MainAll, MainThis, CbAll, CbThis, NULL
<1> QED BY <1>1, <1>2, <1>3, <1>4, <1>7, TypesSplit DEF Typed

\* The calls of the main thread.
LEMMA StartupAllTyped ==
    ASSUME Typed, pc["cb"] = "off", pc["main"] \in {"ready", "exitWait"},
           NEW single \in BOOLEAN, NEW wait \in BOOLEAN, NEW limit \in Nat, NEW exit \in BOOLEAN,
           StartupAllAPs(single, wait, limit, exit)
    PROVE  Typed'
<1>0. ApTypes /\ SwTypes /\ PcTypes /\ ReqTypes /\ DataTypes
  BY TypesSplit DEF Typed
<1>1. ApTypes' /\ SwTypes'
  BY <1>0 DEF StartupAllAPs, cpuData, apVars, swVars, ApTypes, SwTypes
<1>2. EnabledAPs \in SUBSET Cpus /\ IsFiniteSet(EnabledAPs)
  BY CpusFinite, FS_Subset DEF EnabledAPs
<1>3. Cardinality(EnabledAPs) \in Nat
  BY <1>2, FS_CardinalityType
<1>4. all' \in AllSet /\ all'.Clock = all.Clock
  BY <1>0, <1>2, <1>3 DEF StartupAllAPs, NewCount, DataTypes, AllSet
<1>5. Clock' = Clock
  BY DEF StartupAllAPs, cpuData
<1>6. CASE EnabledAPs = {}
  <2>1. UNCHANGED <<cur, arg, req, mStopCheckAPsStatus>>
    BY <1>6 DEF StartupAllAPs
  <2> DEFINE place == IF exit THEN "exited" ELSE "ready"
  <2>2. place \in {"exited", "ready"} /\ pc' = [pc EXCEPT !["main"] = place]
    BY <1>6 DEF StartupAllAPs, Goto
  <2> HIDE DEF place
  <2>3. PcTypes' /\ pc'["main"] \in {"exited", "ready"} /\ pc'["cb"] = "off"
    BY <1>0, <2>1, <2>2 DEF PcTypes, Frames, MainPlaces
  <2>4. ReqTypes' /\ DataTypes'
    BY <1>0, <1>4, <1>5, <2>1 DEF ReqTypes, DataTypes
  <2>5. ThreadsFit'
    BY <1>4, <1>5, <2>1, <2>3 DEF Typed, ThreadsFit, MainAll, MainThis, CbAll, CbThis
  <2> QED BY <1>1, <2>3, <2>4, <2>5, TypesSplitNext DEF Typed
<1>7. CASE EnabledAPs # {}
  <2>1. /\ Len(req) < MaxRequests
        /\ mStopCheckAPsStatus' = TRUE
        /\ req' = Append(req, NewRequest(EnabledAPs, single, limit))
        /\ arg' = [arg EXCEPT !.req = Len(req) + 1, !.single = single,
                                !.wait = wait, !.limit = limit, !.exit = exit]
        /\ GotoAt("main", "wake", 0)
    BY <1>7 DEF StartupAllAPs
  <2>2. Appended(NewRequest(EnabledAPs, single, limit))
    BY <1>0, <1>2, <2>1, AppendedFact DEF ReqTypes
  <2>3. ReqTypes' /\ Len(req') = Len(req) + 1 /\ Len(req) \in Nat
    BY <1>0, <2>1, <2>2, BoundsAssumption DEF ReqTypes, Appended
  <2>4. arg' \in ArgSet /\ arg'.req = Len(req) + 1
    <3>1. Len(req) + 1 \in 0 .. MaxRequests
      BY <2>1, <2>3, BoundsAssumption
    <3> QED BY <1>0, <2>1, <3>1 DEF DataTypes, ArgSet
  <2>5. PcTypes' /\ pc'["main"] = "wake" /\ pc'["cb"] = "off"
    BY <1>0, <2>1 DEF PcTypes, GotoAt, Goto, Frames, MainPlaces
  <2>6. DataTypes'
    BY <1>0, <1>4, <1>5, <2>1, <2>4 DEF DataTypes
  <2>7. ThreadsFit'
    <3>1. all'.Clock.WaitEvent <= Len(req') /\ \A p \in Cpus : Clock'[p].WaitEvent <= Len(req')
      BY <1>4, <1>5, <2>3, TypedFacts
    <3>2. mStopCheckAPsStatus'
      BY <2>1
    <3> QED BY <2>3, <2>4, <2>5, <3>1, <3>2 DEF ThreadsFit, MainAll, MainThis, CbAll, CbThis, NULL
  <2> QED BY <1>1, <2>3, <2>5, <2>6, <2>7, TypesSplitNext DEF Typed
<1> QED BY <1>6, <1>7

\* StartupThisAP() keeps Typed.
LEMMA StartupThisTyped ==
    ASSUME Typed, NEW p \in Cpus, NEW c \in ThisCalls, StartupThisAP(p, c.wait, c.limit)
    PROVE  Typed'
<1>0. ApTypes /\ SwTypes /\ PcTypes /\ ReqTypes /\ DataTypes
  BY TypesSplit DEF Typed
<1>a. c.wait \in BOOLEAN /\ c.limit \in Nat /\ pc["main"] = "ready" /\ pc["cb"] = "off"
  BY BoundsAssumption DEF StartupThisAP, At, Runs
<1>b. Len(req) \in Nat /\ Len(req) + 1 \in 0 .. MaxRequests
  BY TypedFacts DEF StartupThisAP
<1>c. req' = Append(req, NewRequest({p}, FALSE, c.limit)) /\ {p} \in SUBSET Cpus
  BY DEF StartupThisAP
<1>1. ApTypes'
  <2>1. ReadyState(p) \in [Cpus -> CpuStates]
    BY <1>0 DEF ReadyState, ApTypes, CpuStates
  <2>2. Len(req) + 1 \in 0 .. MaxRequests + 1
    BY <1>b, BoundsAssumption
  <2> QED BY <1>0, <2>1, <2>2, WakeTypes DEF StartupThisAP
<1>2. SwTypes' /\ UNCHANGED <<all, mStopCheckAPsStatus>>
  BY <1>0 DEF SwTypes, StartupThisAP, swVars
<1>3. Appended(NewRequest({p}, FALSE, c.limit))
  BY <1>0, <1>a, <1>c, AppendedFact DEF ReqTypes
<1>4. ReqTypes' /\ Len(req') = Len(req) + 1
  BY <1>0, <1>b, <1>3, BoundsAssumption DEF ReqTypes, Appended
<1> DEFINE e == IF c.wait THEN Len(req) + 1 ELSE NULL
<1>5. e \in 0 .. Len(req) + 1 /\ Clock' = [Clock EXCEPT ![p] = StartClock(Clock[p], e, c.limit)]
  BY <1>b DEF StartupThisAP, NULL
<1> HIDE DEF e
<1>6. StartClock(Clock[p], e, c.limit) \in ClockSet /\ StartClock(Clock[p], e, c.limit).WaitEvent = e
  <2>1. Clock[p] \in ClockSet /\ e \in Nat /\ 0 \in Nat
    BY <1>b, <1>5, TypedFacts
  <2> QED BY <1>a, <2>1, ClockFacts
<1>7. Clock' \in [Cpus -> ClockSet] /\ \A q \in Cpus : Clock'[q].WaitEvent <= Len(req')
  BY <1>b, <1>4, <1>5, <1>6, TypedFacts
<1>8. CASE c.wait
  <2>1. UNCHANGED <<pc, cur, arg>>
    BY <1>8 DEF StartupThisAP
  <2>2. PcTypes' /\ DataTypes'
    BY <1>0, <1>2, <1>7, <2>1 DEF PcTypes, DataTypes
  <2>3. ThreadsFit'
    BY <1>a, <1>2, <1>4, <1>7, <2>1, TypedFacts DEF Typed, ThreadsFit, MainAll, MainThis, CbAll, CbThis
  <2> QED BY <1>1, <1>2, <1>4, <2>2, <2>3, TypesSplitNext DEF Typed
<1>9. CASE ~c.wait
  <2>1. GotoAt("main", "this", p) /\ arg' = [NoArg EXCEPT !.req = Len(req) + 1]
    BY <1>9 DEF StartupThisAP
  <2>2. arg' \in ArgSet /\ arg'.req = Len(req) + 1
    BY <1>b, <2>1, NoArgType DEF ArgSet
  <2>3. PcTypes' /\ pc'["main"] = "this" /\ pc'["cb"] = "off" /\ cur'["main"] = p
    BY <1>0, <1>a, <2>1, CpusFinite DEF PcTypes, GotoAt, Goto, Frames, MainPlaces
  <2>4. DataTypes'
    BY <1>0, <1>2, <1>7, <2>2 DEF DataTypes
  <2>5. ThreadsFit'
    BY <1>b, <1>2, <1>4, <1>7, <2>2, <2>3, TypedFacts DEF ThreadsFit, MainAll, MainThis, CbAll, CbThis, NULL
  <2> QED BY <1>1, <1>2, <1>4, <2>3, <2>4, <2>5, TypesSplitNext DEF Typed
<1> QED BY <1>a, <1>8, <1>9

\* The loop that wakes the APs keeps Typed.
LEMMA WakeNextTyped ==
    ASSUME Typed, WakeNext
    PROVE  Typed'
<1>0. ApTypes /\ SwTypes /\ PcTypes /\ ReqTypes /\ DataTypes
  BY TypesSplit DEF Typed
<1> DEFINE rest == {p \in all.CpuList : p >= cur["main"]}
           m == Min(rest)
<1>1. /\ rest # {}
      /\ IF WaitsItsTurn(m)
         THEN State' = ReadyState(m) /\ UNCHANGED <<Procedure, mApFunction, apVars>>
         ELSE WakeUpAp(m, arg.req, ReadyState(m))
      /\ IF m = Max(all.CpuList) THEN GotoAt("main", "save", 0)
         ELSE GotoAt("main", "wake", m + 1)
  BY DEF WakeNext
<1>2. rest \in SUBSET Cpus
  BY TypedFacts
<1> HIDE DEF rest
<1>3. m \in Cpus
  BY <1>1, <1>2, MinCpu
<1> HIDE DEF m
<1>4. pc["main"] = "wake" /\ pc["cb"] = "off"
  BY DEF WakeNext, At, Runs
<1>5. UNCHANGED <<Clock, all, mStopCheckAPsStatus, arg, req>> /\ SwTypes'
  BY <1>0 DEF WakeNext, swVars, SwTypes
<1>6. ApTypes'
  <2>1. ReadyState(m) \in [Cpus -> CpuStates]
    BY <1>0, <1>3 DEF ReadyState, ApTypes, CpuStates
  <2>2. arg.req \in 0 .. MaxRequests + 1
    BY TypedFacts, BoundsAssumption
  <2>3. CASE WaitsItsTurn(m)
    BY <1>0, <1>1, <2>1, <2>3 DEF ApTypes, apVars
  <2>4. CASE ~WaitsItsTurn(m)
    BY <1>0, <1>1, <1>3, <2>1, <2>2, <2>4, WakeTypes
  <2> QED BY <2>3, <2>4
<1>7. PcTypes' /\ pc'["main"] \in {"save", "wake"} /\ pc'["cb"] = "off"
  <2>1. m + 1 \in Nat /\ 0 \in Nat
    BY <1>3, CpusFinite
  <2> QED BY <1>0, <1>1, <1>4, <2>1 DEF PcTypes, GotoAt, Goto, Frames, MainPlaces
<1>8. ReqTypes' /\ DataTypes'
  BY <1>0, <1>5 DEF ReqTypes, DataTypes
<1>9. ThreadsFit'
  BY <1>4, <1>5, <1>7 DEF Typed, ThreadsFit, MainAll, MainThis, CbAll, CbThis
<1> QED BY <1>5, <1>6, <1>7, <1>8, <1>9, TypesSplitNext DEF Typed

\* SaveRequest keeps Typed.
LEMMA SaveTyped ==
    ASSUME Typed, SaveRequest
    PROVE  Typed'
<1>0. ApTypes /\ SwTypes /\ PcTypes /\ ReqTypes /\ DataTypes
  BY TypesSplit DEF Typed
<1>1. ApTypes' /\ SwTypes' /\ UNCHANGED <<Clock, cur, req>>
  BY <1>0 DEF SaveRequest, cpuData, apVars, swVars, ApTypes, SwTypes
<1>2. pc["main"] = "save" /\ pc["cb"] = "off" /\ arg.req # NULL
  BY DEF SaveRequest, At, Runs, Typed, ThreadsFit, MainAll
<1> DEFINE e == IF arg.wait THEN arg.req ELSE NULL
<1>3. e \in 0 .. Len(req)
  BY TypedFacts DEF NULL
<1>4. all' = [all EXCEPT !.SingleThread = arg.single, !.Procedure = arg.req,
                 !.Clock = StartClock(all.Clock, e, arg.limit)]
  BY DEF SaveRequest
<1> HIDE DEF e
<1>5. StartClock(all.Clock, e, arg.limit) \in ClockSet /\ StartClock(all.Clock, e, arg.limit).WaitEvent = e
  <2>1. all.Clock \in ClockSet /\ e \in Nat /\ 0 \in Nat /\ arg.limit \in Nat
    BY <1>3, TypedFacts
  <2> QED BY <2>1, ClockFacts
<1>6. all' \in AllSet /\ all'.Clock.WaitEvent = e
  <2>1. arg.req \in 0 .. MaxRequests /\ arg.single \in BOOLEAN /\ all \in AllSet
    BY TypedFacts, <1>0 DEF ArgSet, DataTypes
  <2> DEFINE k == StartClock(all.Clock, e, arg.limit)
  <2>2. k \in ClockSet /\ k.WaitEvent = e
    BY <1>5
  <2> HIDE DEF k
  <2>3. all' = [all EXCEPT !.SingleThread = arg.single, !.Procedure = arg.req, !.Clock = k]
    BY <1>4 DEF k
  <2>4. all' \in AllSet /\ all'.Clock = k
    BY <2>1, <2>2, <2>3 DEF AllSet
  <2> QED BY <2>2, <2>4
<1>7. CASE arg.wait
  <2>1. pc' = [pc EXCEPT !["main"] = "ready"] /\ arg' = NoArg /\ mStopCheckAPsStatus' = FALSE
    BY <1>7 DEF SaveRequest, Goto
  <2>2. PcTypes' /\ pc'["main"] = "ready" /\ pc'["cb"] = "off"
    BY <1>0, <1>1, <1>2, <2>1 DEF PcTypes, Frames, MainPlaces
  <2>3. ReqTypes' /\ DataTypes'
    BY <1>0, <1>1, <1>6, <2>1, NoArgType DEF ReqTypes, DataTypes
  <2>4. ThreadsFit'
    BY <1>1, <1>3, <1>6, <2>1, <2>2, NoArgType, TypedFacts DEF ThreadsFit, MainAll, MainThis, CbAll, CbThis, NULL
  <2> QED BY <1>1, <2>2, <2>3, <2>4, TypesSplitNext DEF Typed
<1>8. CASE ~arg.wait
  <2>1. pc' = [pc EXCEPT !["main"] = "all"] /\ arg' = arg /\ mStopCheckAPsStatus' = FALSE
    BY <1>8 DEF SaveRequest, Goto
  <2>2. PcTypes' /\ pc'["main"] = "all" /\ pc'["cb"] = "off"
    BY <1>0, <1>1, <1>2, <2>1 DEF PcTypes, Frames, MainPlaces
  <2>3. ReqTypes' /\ DataTypes'
    BY <1>0, <1>1, <1>6, <2>1 DEF ReqTypes, DataTypes
  <2>4. ThreadsFit'
    BY <1>1, <1>2, <1>3, <1>6, <2>1, <2>2, TypedFacts DEF ThreadsFit, MainAll, MainThis, CbAll, CbThis, NULL
  <2> QED BY <1>1, <2>2, <2>3, <2>4, TypesSplitNext DEF Typed
<1> QED BY <1>7, <1>8

\* The calls that start nothing, and the switch.
LEMMA CallTyped ==
    ASSUME Typed, Call
    PROVE  Typed'
<1>0. ApTypes /\ SwTypes /\ PcTypes /\ ReqTypes /\ DataTypes
  BY TypesSplit DEF Typed
<1>1. CASE StartupAllAPsNotReady
  <2>1. /\ BusyAPs \in SUBSET Cpus
        /\ \A p \in EnabledAPs : p \in Cpus
    BY DEF BusyAPs, EnabledAPs
  <2>2. all' \in AllSet /\ all'.Clock = all.Clock
    BY <1>0, <1>1, <2>1 DEF StartupAllAPsNotReady, DataTypes, AllSet
  <2>3. /\ UNCHANGED <<mStopCheckAPsStatus, pc, cur, arg, req, Clock>>
        /\ ApTypes' /\ SwTypes' /\ PcTypes' /\ ReqTypes'
    BY <1>0, <1>1 DEF StartupAllAPsNotReady, cpuData, apVars, swVars, bspVars, ApTypes, SwTypes, PcTypes, ReqTypes
  <2>4. DataTypes'
    BY <1>0, <2>2, <2>3 DEF DataTypes
  <2>5. ThreadsFit'
    BY <2>2, <2>3 DEF Typed, ThreadsFit, MainAll, MainThis, CbAll, CbThis
  <2> QED BY <2>3, <2>4, <2>5, TypesSplitNext DEF Typed
<1>2. CASE CallStartupAllAPs
  <2>1. PICK c \in AllCalls : StartupAllAPs(c.single, c.wait, c.limit, FALSE)
    BY <1>2 DEF CallStartupAllAPs
  <2>2. c.single \in BOOLEAN /\ c.wait \in BOOLEAN /\ c.limit \in Nat /\ FALSE \in BOOLEAN
    BY BoundsAssumption
  <2>3. pc["cb"] = "off" /\ pc["main"] = "ready"
    BY <1>2 DEF CallStartupAllAPs, At, Runs
  <2> QED BY <2>1, <2>2, <2>3, StartupAllTyped
<1>3. CASE \E p \in Cpus, c \in ThisCalls : StartupThisAP(p, c.wait, c.limit)
  BY <1>3, StartupThisTyped
<1>4. ASSUME NEW p \in Cpus, NEW enabled \in BOOLEAN, SwitchBSP(p, enabled) PROVE Typed'
  <2>1. pc["main"] = "ready" /\ pc["cb"] = "off"
    BY <1>4 DEF SwitchBSP, At, Runs
  <2>2. ApTypes'
    <3>1. FutureBSPProc \in 0 .. MaxRequests + 1
      BY BoundsAssumption DEF FutureBSPProc
    <3> QED BY <1>0, <1>4, <3>1 DEF SwitchBSP, ApTypes, ApPlaces
  <2>3. SwTypes' /\ UNCHANGED <<cur, Clock, all, mStopCheckAPsStatus, req>>
    BY <1>0, <1>4 DEF SwitchBSP, SwTypes, Infos
  <2>4. PcTypes' /\ pc'["main"] = "exchange" /\ pc'["cb"] = "off"
    BY <1>0, <1>4, <2>1, <2>3 DEF SwitchBSP, Goto, PcTypes, Frames, MainPlaces
  <2>5. arg' \in ArgSet /\ arg'.req = NULL
    BY <1>4, NoArgType DEF SwitchBSP, ArgSet
  <2>6. ReqTypes' /\ DataTypes'
    BY <1>0, <2>3, <2>5 DEF ReqTypes, DataTypes
  <2>7. ThreadsFit'
    BY <2>3, <2>4, <2>5, TypedFacts DEF ThreadsFit, MainAll, MainThis, CbAll, CbThis, NULL
  <2> QED BY <2>2, <2>3, <2>4, <2>6, <2>7, TypesSplitNext DEF Typed
<1>5. ASSUME NEW p \in Cpus, NEW enabled \in BOOLEAN, EnableDisableAP(p, enabled) PROVE Typed'
  <2>1. State' \in [Cpus -> CpuStates]
    BY <1>0, <1>5 DEF EnableDisableAP, ChangeCpuState, ApTypes, CpuStates
  <2>2. UNCHANGED <<Procedure, Clock, all, mStopCheckAPsStatus, mApFunction, BspNumber, bspCpu, BSPInfo,
                    APInfo, apPc, apProc, apCtx, pc, cur, arg, req>>
    BY <1>5 DEF EnableDisableAP, swVars, apVars, bspVars
  <2> QED BY <2>1, <2>2 DEF Typed, MpTypes, ThreadsFit, MainAll, MainThis, CbAll, CbThis
<1>6. CASE ExitBootServices
  <2>1. pc["main"] = "ready" /\ pc["cb"] = "off"
    BY <1>6 DEF ExitBootServices, At, Runs
  <2>2. PcTypes' /\ pc'["main"] = "exitWait" /\ pc'["cb"] = "off"
    BY <1>0, <1>6, <2>1 DEF ExitBootServices, Goto, PcTypes, Frames, MainPlaces
  <2>3. ApTypes' /\ SwTypes' /\ ReqTypes' /\ DataTypes' /\ UNCHANGED <<cur, arg, req, Clock, all, mStopCheckAPsStatus>>
    BY <1>0, <1>6 DEF ExitBootServices, cpuData, apVars, swVars, ApTypes, SwTypes, ReqTypes, DataTypes
  <2>4. ThreadsFit'
    BY <2>2, <2>3 DEF Typed, ThreadsFit, MainAll, MainThis, CbAll, CbThis
  <2> QED BY <2>2, <2>3, <2>4, TypesSplitNext DEF Typed
<1> QED BY <1>1, <1>2, <1>3, <1>4, <1>5, <1>6 DEF Call

\* CheckAllAPs()
LEMMA AllRequestType ==
    ASSUME Typed, NEW f \in Frames, pc[f] \in {"all", "allEnd", "allInit", "allIdle"}
    PROVE  AllRequest(f) \in 1 .. Len(req)
<1>1. CASE f = "main"
  <2>1. arg.req # NULL
    BY <1>1 DEF Typed, ThreadsFit, MainAll
  <2> QED BY <1>1, <2>1, TypedFacts DEF AllRequest, NULL
<1>2. CASE f = "cb"
  <2>1. all.Clock.WaitEvent # NULL
    BY <1>2 DEF Typed, ThreadsFit, CbAll
  <2> QED BY <1>2, <2>1, TypedFacts DEF AllRequest, NULL
<1> QED BY <1>1, <1>2 DEF Frames

\* The end of CheckAllAPs() keeps Typed.
LEMMA AllReturnsTyped ==
    ASSUME Typed, NEW f \in Frames, pc[f] \in {"all", "allEnd", "allInit"}, Runs(f),
           NEW status \in Statuses, AllReturns(f, status),
           ApTypes', UNCHANGED <<Clock, mStopCheckAPsStatus, swVars>>
    PROVE  Typed'
<1>0. ApTypes /\ SwTypes /\ PcTypes /\ ReqTypes /\ DataTypes
  BY TypesSplit DEF Typed
<1>1. AllRequest(f) \in 1 .. Len(req)
  BY AllRequestType
<1>2. req[AllRequest(f)].failed \in SUBSET Cpus /\ req \in Seq(ReqSet)
  BY <1>1, ReqIs, TypedFacts DEF ReqSet
<1>3. req' = Ended(AllRequest(f), status, req[AllRequest(f)].failed, all.Clock)
  BY DEF AllReturns
<1>4. ReqTypes' /\ Len(req') = Len(req)
  <2> DEFINE r == AllRequest(f)
             x == req[AllRequest(f)].failed
  <2>1. r \in 1 .. Len(req) /\ x \in SUBSET Cpus /\ req' = Ended(r, status, x, all.Clock)
    BY <1>1, <1>2, <1>3
  <2> HIDE DEF r, x
  <2>2. Replaced(r, EndedRec(req[r], status, x, all.Clock))
    BY <1>2, <2>1, EndedFact
  <2> QED BY <1>0, <2>2 DEF ReqTypes, Replaced
<1>5. all' \in AllSet /\ all'.Clock.WaitEvent = NULL
  <2>1. StopClock(all.Clock) \in ClockSet /\ StopClock(all.Clock).WaitEvent = NULL
    <3>1. all.Clock \in ClockSet /\ 0 \in Nat
      BY TypedFacts
    <3> QED BY <3>1, ClockFacts
  <2> DEFINE k == StopClock(all.Clock)
  <2>2. all' = [all EXCEPT !.Clock = k] /\ k \in ClockSet /\ k.WaitEvent = NULL
    BY <2>1 DEF AllReturns
  <2> HIDE DEF k
  <2>3. all' \in AllSet /\ all'.Clock = k
    BY <1>0, <2>2 DEF DataTypes, AllSet
  <2> QED BY <2>2, <2>3
<1>6. SwTypes' /\ UNCHANGED <<Clock, mStopCheckAPsStatus>>
  BY <1>0 DEF swVars, SwTypes
<1>7. CASE f = "main"
  <2>1. MainReturns
    BY <1>7 DEF AllReturns
  <2>2. /\ PcTypes' /\ arg' \in ArgSet /\ arg'.req = NULL
        /\ pc'["main"] \in {"exited", "ready"}
        /\ pc'["cb"] = pc["cb"] /\ cur'["cb"] = cur["cb"]
    BY <1>0, <2>1, MainReturnsTypes
  <2>3. pc'["cb"] = "off"
    BY <1>7, <2>2 DEF Runs
  <2>4. DataTypes'
    BY <1>0, <1>5, <1>6, <2>2 DEF DataTypes
  <2>5. ThreadsFit'
    BY <1>4, <1>5, <1>6, <2>2, <2>3, TypedFacts DEF ThreadsFit, MainAll, MainThis, CbAll, CbThis, NULL
  <2> QED BY <1>4, <1>6, <2>2, <2>4, <2>5, TypesSplitNext DEF Typed
<1>8. CASE f = "cb"
  <2>1. GotoAt(f, "scan", 0) /\ arg' = arg
    BY <1>8 DEF AllReturns
  <2>2. PcTypes' /\ pc'["cb"] = "scan" /\ pc'["main"] = pc["main"] /\ cur'["main"] = cur["main"]
    BY <1>0, <1>8, <2>1 DEF GotoAt, Goto, PcTypes, Frames, CbPlaces
  <2>3. DataTypes'
    BY <1>0, <1>5, <1>6, <2>1 DEF DataTypes
  <2>4. pc["main"] \notin {"wake", "save", "exchange"}
    BY <1>8 DEF Typed, ThreadsFit
  <2>5. ThreadsFit'
    BY <1>4, <1>5, <1>6, <2>1, <2>2, <2>4, TypedFacts DEF Typed, ThreadsFit, MainAll, MainThis, CbAll, CbThis, NULL
  <2> QED BY <1>4, <1>6, <2>2, <2>3, <2>5, TypesSplitNext DEF Typed
<1> QED BY <1>7, <1>8 DEF Frames

\* A step of a thread inside CheckAllAPs() or CheckThisAP()
LEMMA StaysTyped ==
    ASSUME Typed, NEW f \in Frames, NEW place, NEW p \in Nat,
           pc[f] \in {"all", "allEnd", "allInit", "allIdle", "this", "thisTime", "thisIdle", "scan"},
           pc' = [pc EXCEPT ![f] = place], cur' = [cur EXCEPT ![f] = p] \/ cur' = cur,
           \/ place \in {"all", "allEnd", "allInit", "allIdle"} /\ pc[f] \in {"all", "allEnd", "allInit", "allIdle"}
           \/ place \in {"this", "thisTime", "thisIdle"} /\ pc[f] \in {"this", "thisTime", "thisIdle"} /\ cur' = cur
           \/ f = "cb" /\ place \in {"scan", "off"},
           place = "allIdle" => p \in Cpus /\ cur' = [cur EXCEPT ![f] = p],
           ApTypes', UNCHANGED <<mStopCheckAPsStatus, swVars, arg>>,
           Clock' \in [Cpus -> ClockSet], all' \in AllSet,
           \A q \in Cpus : Clock'[q].WaitEvent = Clock[q].WaitEvent,
           all'.Clock.WaitEvent = all.Clock.WaitEvent,
           ReqTypes', Len(req') = Len(req)
    PROVE  Typed'
<1>0. ApTypes /\ SwTypes /\ PcTypes /\ ReqTypes /\ DataTypes
  BY TypesSplit DEF Typed
<1>1. SwTypes' /\ DataTypes'
  BY <1>0 DEF SwTypes, swVars, DataTypes
<1>2. IF f = "main" THEN place \in MainPlaces ELSE place \in CbPlaces
  BY DEF MainPlaces, CbPlaces
<1>3. /\ PcTypes'
      /\ pc'[f] = place
      /\ \A g \in Frames \ {f} : pc'[g] = pc[g] /\ cur'[g] = cur[g]
      /\ cur' = [cur EXCEPT ![f] = p] => cur'[f] = p
  BY <1>0, <1>2, MoveTypes
<1>4. CASE f = "main"
  <2>1. pc'["cb"] = pc["cb"] /\ cur'["cb"] = cur["cb"]
    BY <1>3, <1>4 DEF Frames
  <2>2. pc'["main"] \in {"all", "allEnd", "allInit", "allIdle"} => MainAll
    BY <1>3, <1>4 DEF MainAll
  <2>3. pc'["main"] \in {"this", "thisTime", "thisIdle"} => MainThis /\ cur'["main"] \in Cpus
    BY <1>3, <1>4 DEF MainThis, Typed, ThreadsFit
  <2>4. pc'["main"] = "allIdle" => cur'["main"] \in Cpus
    BY <1>3, <1>4
  <2>5. pc'["main"] \in {"all", "allEnd", "allInit", "allIdle", "this", "thisTime", "thisIdle"}
    BY <1>3, <1>4
  <2>6. ThreadsFit'
    BY <2>1, <2>2, <2>3, <2>4, <2>5 DEF Typed, ThreadsFit, MainAll, MainThis, CbAll, CbThis
  <2> QED BY <1>1, <1>3, <2>6, TypesSplitNext DEF Typed
<1>5. CASE f = "cb"
  <2>1. pc'["main"] = pc["main"] /\ cur'["main"] = cur["main"]
    BY <1>3, <1>5 DEF Frames
  <2>2. pc'["cb"] \in {"all", "allEnd", "allInit", "allIdle"} => CbAll
    BY <1>3, <1>5 DEF CbAll
  <2>3. pc'["cb"] \in {"this", "thisTime", "thisIdle"} => CbThis /\ cur' = cur
    BY <1>3, <1>5 DEF CbThis
  <2>4. pc'["cb"] = "allIdle" => cur'["cb"] \in Cpus
    BY <1>3, <1>5
  <2>5. pc["main"] \notin {"wake", "save", "exchange"}
    BY <1>5 DEF Typed, ThreadsFit
  <2>6. ThreadsFit'
    BY <2>1, <2>2, <2>3, <2>4, <2>5 DEF Typed, ThreadsFit, MainAll, MainThis, CbAll, CbThis
  <2> QED BY <1>1, <1>3, <2>6, TypesSplitNext DEF Typed
<1> QED BY <1>4, <1>5 DEF Frames

\* The processors still to look at.
LEMMA ListFacts ==
    ASSUME Typed
    PROVE  /\ \A n \in Nat : {p \in all.CpuList : p >= n} \in SUBSET Cpus
           /\ \A p : all.CpuList \ {p} \in SUBSET Cpus
           /\ \A f \in Frames : cur[f] \in Nat
BY TypedFacts DEF Typed, MpTypes

\* One turn of CheckAllAPs() keeps Typed.
LEMMA CheckAllOneTyped ==
    ASSUME Typed, NEW f \in Frames, CheckAllOne(f)
    PROVE  Typed'
<1>0. ApTypes /\ SwTypes /\ PcTypes /\ ReqTypes /\ DataTypes
  BY TypesSplit DEF Typed
<1> DEFINE rest == {p \in all.CpuList : p >= cur[f]}
           m == Min(rest)
           waiting == all.CpuList \ {m}
           idle == [State EXCEPT ![m] = "Idle"]
           place == IF m = Max(rest) THEN "allEnd" ELSE "all"
<1>1. /\ pc[f] = "all" /\ rest # {}
      /\ GotoAt(f, place, m + 1)
      /\ \/ /\ State[m] = "Finished"
            /\ all' = [all EXCEPT !.FinishCount = @ + 1, !.CpuList = waiting]
            /\ IF all.SingleThread /\ waiting # {}
               THEN WakeUpAp(Min(waiting), all.Procedure, idle)
               ELSE State' = idle /\ UNCHANGED <<Procedure, mApFunction, apVars>>
         \/ /\ State[m] # "Finished"
            /\ UNCHANGED <<all, State, Procedure, mApFunction, apVars>>
      /\ UNCHANGED <<Clock, mStopCheckAPsStatus, swVars, arg, req>>
  BY DEF CheckAllOne, At
<1>2. rest \in SUBSET Cpus
  BY ListFacts
<1> HIDE DEF rest
<1>3. m \in Cpus /\ m + 1 \in Nat
  BY <1>1, <1>2, MinCpu, CpusFinite
<1>4. place \in {"all", "allEnd"}
  OBVIOUS
<1> HIDE DEF m, place
<1>5. waiting \in SUBSET Cpus
  BY ListFacts
<1>6. idle \in [Cpus -> CpuStates]
  BY <1>0, <1>3 DEF ApTypes, CpuStates
<1> HIDE DEF waiting, idle
<1>7. all' \in AllSet /\ all'.Clock = all.Clock
  <2>1. all \in AllSet
    BY <1>0 DEF DataTypes
  <2>2. CASE all' = [all EXCEPT !.FinishCount = @ + 1, !.CpuList = waiting]
    <3> DEFINE n == all.FinishCount + 1
    <3>1. n \in Nat /\ all' = [all EXCEPT !.FinishCount = n, !.CpuList = waiting]
      BY <2>1, <2>2 DEF AllSet
    <3> HIDE DEF n
    <3>2. all' \in AllSet /\ all'.Clock = all.Clock
      BY <1>5, <2>1, <3>1 DEF AllSet
    <3> QED BY <3>2
  <2>3. CASE all' = all
    BY <2>1, <2>3
  <2> QED BY <1>1, <2>2, <2>3
<1>8. ApTypes'
  <2>1. CASE WakeUpAp(Min(waiting), all.Procedure, idle) /\ waiting # {}
    <3>1. Min(waiting) \in Cpus
      BY <1>5, <2>1, MinCpu
    <3>2. all.Procedure \in 0 .. MaxRequests + 1
      BY <1>0, BoundsAssumption DEF DataTypes, AllSet
    <3> QED BY <1>0, <1>6, <2>1, <3>1, <3>2, WakeTypes
  <2>2. CASE State' \in {idle, State} /\ UNCHANGED <<Procedure, mApFunction, apVars>>
    BY <1>0, <1>6, <2>2 DEF ApTypes, apVars
  <2> QED BY <1>1, <2>1, <2>2
<1>9. ReqTypes' /\ Len(req') = Len(req) /\ Clock' \in [Cpus -> ClockSet]
  BY <1>0, <1>1 DEF ReqTypes, DataTypes
<1>10. pc' = [pc EXCEPT ![f] = place] /\ cur' = [cur EXCEPT ![f] = m + 1]
  BY <1>1 DEF GotoAt, Goto
<1>11. UNCHANGED <<mStopCheckAPsStatus, swVars, arg, Clock>> /\ pc[f] = "all"
  BY <1>1
<1> QED BY <1>3, <1>4, <1>7, <1>8, <1>9, <1>10, <1>11, StaysTyped

\* The end of its loop keeps Typed.
LEMMA CheckAllEndTyped ==
    ASSUME Typed, NEW f \in Frames, NEW delta \in Nat, CheckAllEnd(f, delta)
    PROVE  Typed'
<1>0. ApTypes /\ SwTypes /\ PcTypes /\ ReqTypes /\ DataTypes
  BY TypesSplit DEF Typed
<1>1. pc[f] \in {"all", "allEnd"} /\ Runs(f)
  BY DEF CheckAllEnd, At
<1>2. ApTypes' /\ UNCHANGED <<Clock, mStopCheckAPsStatus, swVars>>
  BY <1>0 DEF CheckAllEnd, cpuData, apVars, ApTypes
<1>3. CASE AllReturns(f, "SUCCESS")
  <2>1. "SUCCESS" \in Statuses
    BY DEF Statuses
  <2> QED BY <1>1, <1>2, <1>3, <2>1, AllReturnsTyped
<1>4. CASE ~AllReturns(f, "SUCCESS")
  <2> DEFINE clock == ReadClock(all.Clock, delta)
             place == IF Expired(clock) THEN "allInit" ELSE IF f = "main" THEN "all" ELSE "scan"
  <2>1. /\ all' = [all EXCEPT !.Clock = clock]
        /\ GotoAt(f, place, 0)
        /\ UNCHANGED <<req, arg>>
    BY <1>4 DEF CheckAllEnd
  <2>2. clock \in ClockSet /\ clock.WaitEvent = all.Clock.WaitEvent
    <3>1. all.Clock \in ClockSet /\ 0 \in Nat
      BY TypedFacts
    <3> QED BY <3>1, ClockFacts
  <2>3. place = "allInit" \/ (f = "main" /\ place = "all") \/ (f = "cb" /\ place = "scan")
    BY DEF Frames
  <2> HIDE DEF clock, place
  <2>4. all' \in AllSet /\ all'.Clock = clock
    BY <1>0, <2>1, <2>2 DEF DataTypes, AllSet
  <2>5. all'.Clock.WaitEvent = all.Clock.WaitEvent
    BY <2>2, <2>4
  <2>6. pc' = [pc EXCEPT ![f] = place] /\ cur' = [cur EXCEPT ![f] = 0] /\ 0 \in Nat
    BY <2>1 DEF GotoAt, Goto
  <2>7. ReqTypes' /\ Len(req') = Len(req) /\ Clock' \in [Cpus -> ClockSet] /\ arg' = arg
    BY <1>0, <1>2, <2>1 DEF ReqTypes, DataTypes
  <2> QED BY <1>1, <1>2, <2>3, <2>4, <2>5, <2>6, <2>7, StaysTyped
<1> QED BY <1>3, <1>4

\* Aborting a processor keeps Typed.
LEMMA ResetNextTyped ==
    ASSUME Typed, NEW f \in Frames, ResetNext(f)
    PROVE  Typed'
<1>0. ApTypes /\ SwTypes /\ PcTypes /\ ReqTypes /\ DataTypes
  BY TypesSplit DEF Typed
<1>1. pc[f] = "allInit" /\ Runs(f) /\ UNCHANGED <<State, Procedure, Clock, mStopCheckAPsStatus, swVars>>
  BY DEF ResetNext, At, cpuData
<1>2. CASE all.CpuList = {}
  <2>1. AllReturns(f, "TIMEOUT") /\ ApTypes'
    BY <1>0, <1>1, <1>2 DEF ResetNext, apVars, ApTypes
  <2>2. "TIMEOUT" \in Statuses
    BY DEF Statuses
  <2> QED BY <1>1, <2>1, <2>2, AllReturnsTyped
<1>3. CASE all.CpuList # {}
  <2> DEFINE m == Min(all.CpuList)
  <2>1. AbortAp(m) /\ GotoAt(f, "allIdle", m) /\ UNCHANGED <<all, req, arg>>
    BY <1>3 DEF ResetNext
  <2>2. m \in Cpus /\ m \in Nat
    BY <1>3, MinCpu, TypedFacts, CpusFinite
  <2> HIDE DEF m
  <2>3. ApTypes'
    BY <1>0, <1>1, <2>1, <2>2, AbortTypes
  <2>4. ReqTypes' /\ Len(req') = Len(req) /\ Clock' \in [Cpus -> ClockSet] /\ arg' = arg /\ all' \in AllSet
        /\ all' = all
    BY <1>0, <1>1, <2>1 DEF ReqTypes, DataTypes
  <2>5. pc' = [pc EXCEPT ![f] = "allIdle"] /\ cur' = [cur EXCEPT ![f] = m]
    BY <2>1 DEF GotoAt, Goto
  <2> QED BY <1>1, <2>2, <2>3, <2>4, <2>5, StaysTyped
<1> QED BY <1>2, <1>3

\* An aborted processor is added to FailedCpuList.
LEMMA ResetIdleReq ==
    ASSUME Typed, NEW f \in Frames, ResetIdle(f)
    PROVE  LET r == AllRequest(f)
               new == [req[r] EXCEPT !.failed = @ \cup {cur[f]}]
           IN  /\ r \in 1 .. Len(req)
               /\ Replaced(r, new)
               /\ new.failed = req[r].failed \cup {cur[f]} /\ new.status = req[r].status
               /\ new.cpus = req[r].cpus /\ new.done = req[r].done /\ new.single = req[r].single
<1> DEFINE r == AllRequest(f)
           new == [req[r] EXCEPT !.failed = @ \cup {cur[f]}]
<1>1. pc[f] = "allIdle"
  BY DEF ResetIdle, At
<1>2. r \in 1 .. Len(req)
  BY <1>1, AllRequestType
<1>3. cur[f] \in Cpus
  BY <1>1 DEF Typed, ThreadsFit, Frames
<1>4. req' = [req EXCEPT ![r] = new]
  BY DEF ResetIdle
<1> HIDE DEF r
<1>5. req \in Seq(ReqSet) /\ req[r] \in ReqSet
  BY <1>2, TypedFacts, ReqIs
<1>6. new \in ReqSet /\ new.failed = req[r].failed \cup {cur[f]} /\ new.status = req[r].status
      /\ new.cpus = req[r].cpus /\ new.done = req[r].done /\ new.single = req[r].single
  BY <1>3, <1>5 DEF ReqSet
<1> HIDE DEF new
<1>7. Replaced(r, new)
  BY <1>2, <1>4, <1>5, <1>6, ReplacedFact
<1> QED BY <1>2, <1>6, <1>7 DEF r, new

\* Marking it idle keeps Typed.
LEMMA ResetIdleTyped ==
    ASSUME Typed, NEW f \in Frames, ResetIdle(f)
    PROVE  Typed'
<1>0. ApTypes /\ SwTypes /\ PcTypes /\ ReqTypes /\ DataTypes
  BY TypesSplit DEF Typed
<1>1. pc[f] = "allIdle" /\ UNCHANGED <<Procedure, Clock, mStopCheckAPsStatus, mApFunction, swVars, apVars, arg>>
  BY DEF ResetIdle, At
<1>2. cur[f] \in Cpus
  BY <1>1 DEF Typed, ThreadsFit, Frames
<1>3. ApTypes'
  BY <1>0, <1>1, <1>2 DEF ResetIdle, ApTypes, apVars, CpuStates
<1>4. all' = [all EXCEPT !.CpuList = @ \ {cur[f]}]
  BY DEF ResetIdle
<1>5. all' \in AllSet /\ all'.Clock = all.Clock
  BY <1>0, <1>4 DEF DataTypes, AllSet
<1>6. ReqTypes' /\ Len(req') = Len(req)
  BY <1>0, ResetIdleReq DEF ReqTypes, Replaced
<1>7. pc' = [pc EXCEPT ![f] = "allInit"] /\ cur' = [cur EXCEPT ![f] = 0] /\ 0 \in Nat
  BY DEF ResetIdle, GotoAt, Goto
<1>8. Clock' \in [Cpus -> ClockSet]
  BY <1>0, <1>1 DEF DataTypes
<1> QED BY <1>1, <1>3, <1>5, <1>6, <1>7, <1>8, StaysTyped

-----------------------------------------------------------------------------
\* CheckThisAP()
ThisRequest(f) == IF f = "main" THEN arg.req ELSE Clock[cur[f]].WaitEvent

\* A thread in CheckThisAP() has a request.
LEMMA ThisRequestType ==
    ASSUME Typed, NEW f \in Frames, pc[f] \in {"this", "thisTime", "thisIdle"}
    PROVE  cur[f] \in Cpus /\ ThisRequest(f) \in 1 .. Len(req)
<1>1. CASE f = "main"
  <2>1. arg.req # NULL /\ cur[f] \in Cpus
    BY <1>1 DEF Typed, ThreadsFit, MainThis
  <2> QED BY <1>1, <2>1, TypedFacts DEF ThisRequest, NULL
<1>2. CASE f = "cb"
  <2>1. cur[f] \in Cpus /\ Clock[cur[f]].WaitEvent # NULL
    BY <1>2 DEF Typed, ThreadsFit, CbThis
  <2> QED BY <1>2, <2>1, TypedFacts DEF ThisRequest, NULL
<1> QED BY <1>1, <1>2 DEF Frames

\* The end of CheckThisAP() keeps Typed.
LEMMA ThisReturnsTyped ==
    ASSUME Typed, NEW f \in Frames, pc[f] \in {"this", "thisIdle"}, Runs(f),
           NEW status \in Statuses, NEW failed \in SUBSET Cpus, ThisReturns(f, status, failed),
           ApTypes', UNCHANGED <<all, mStopCheckAPsStatus, swVars>>
    PROVE  /\ Typed'
           /\ Replaced(ThisRequest(f), EndedRec(req[ThisRequest(f)], status, failed, Clock[cur[f]]))
           /\ \A q \in Cpus : Clock'[q].WaitEvent = IF q = cur[f] THEN NULL ELSE Clock[q].WaitEvent
<1>0. ApTypes /\ SwTypes /\ PcTypes /\ ReqTypes /\ DataTypes
  BY TypesSplit DEF Typed
<1> DEFINE r == ThisRequest(f)
           p == cur[f]
<1>1. p \in Cpus /\ r \in 1 .. Len(req)
  BY ThisRequestType
<1>2. Clock' = [Clock EXCEPT ![p] = StopClock(Clock[p])] /\ req' = Ended(r, status, failed, Clock[p])
  BY DEF ThisReturns, ThisRequest
<1>3. IF f = "main" THEN MainReturns ELSE GotoAt(f, "scan", p + 1) /\ arg' = arg
  BY DEF ThisReturns
<1> HIDE DEF r, p
<1>4. Replaced(r, EndedRec(req[r], status, failed, Clock[p]))
  <2>1. req \in Seq(ReqSet)
    BY TypedFacts
  <2> QED BY <1>1, <1>2, <2>1, EndedFact
<1>5. ReqTypes' /\ Len(req') = Len(req)
  BY <1>0, <1>4 DEF ReqTypes, Replaced
<1>6. StopClock(Clock[p]) \in ClockSet /\ StopClock(Clock[p]).WaitEvent = NULL
  <2>1. Clock[p] \in ClockSet /\ 0 \in Nat
    BY <1>1, TypedFacts
  <2> QED BY <2>1, ClockFacts
<1>7. Clock' \in [Cpus -> ClockSet] /\ \A q \in Cpus : Clock'[q].WaitEvent = IF q = p THEN NULL ELSE Clock[q].WaitEvent
  <2> DEFINE k == StopClock(Clock[p])
  <2>1. Clock' = [Clock EXCEPT ![p] = k] /\ k \in ClockSet /\ k.WaitEvent = NULL
    BY <1>2, <1>6
  <2> HIDE DEF k
  <2> QED BY <1>0, <2>1 DEF DataTypes
<1>8. SwTypes' /\ UNCHANGED <<all, mStopCheckAPsStatus>>
  BY <1>0 DEF swVars, SwTypes
<1>9. \A q \in Cpus : Clock'[q].WaitEvent \in 0 .. Len(req)
  BY <1>7, TypedFacts DEF NULL
<1>10. Typed'
  <2>1. CASE f = "main"
    <3>2. /\ PcTypes' /\ arg' \in ArgSet /\ arg'.req = NULL
          /\ pc'["main"] \in {"exited", "ready"}
          /\ pc'["cb"] = pc["cb"]
      BY <1>0, <1>3, <2>1, MainReturnsTypes
    <3>3. pc'["cb"] = "off"
      BY <2>1, <3>2 DEF Runs
    <3>4. DataTypes'
      BY <1>0, <1>7, <1>8, <3>2 DEF DataTypes
    <3>5. ThreadsFit'
      BY <1>5, <1>8, <1>9, <3>2, <3>3, TypedFacts DEF ThreadsFit, MainAll, MainThis, CbAll, CbThis, NULL
    <3> QED BY <1>5, <1>8, <3>2, <3>4, <3>5, TypesSplitNext DEF Typed
  <2>2. CASE f = "cb"
    <3>1. p + 1 \in Nat /\ GotoAt("cb", "scan", p + 1) /\ arg' = arg
      BY <1>1, <1>3, <2>2, CpusFinite
    <3>2. PcTypes' /\ pc'["cb"] = "scan" /\ pc'["main"] = pc["main"] /\ cur'["main"] = cur["main"]
      BY <1>0, <3>1 DEF GotoAt, Goto, PcTypes, Frames, CbPlaces
    <3>3. DataTypes'
      BY <1>0, <1>7, <1>8, <3>1 DEF DataTypes
    <3>4. pc["main"] \notin {"wake", "save", "exchange"}
      BY <2>2 DEF Typed, ThreadsFit
    <3>5. ThreadsFit'
      BY <1>5, <1>8, <1>9, <3>1, <3>2, <3>4, TypedFacts DEF Typed, ThreadsFit, MainAll, MainThis, CbAll, CbThis, NULL
    <3> QED BY <1>5, <1>8, <3>2, <3>3, <3>5, TypesSplitNext DEF Typed
  <2> QED BY <2>1, <2>2 DEF Frames
<1> QED BY <1>4, <1>7, <1>10 DEF r, p

\* Looking at the processor's State keeps Typed.
LEMMA CheckThisStateTyped ==
    ASSUME Typed, NEW f \in Frames, CheckThisState(f)
    PROVE  Typed'
<1>0. ApTypes /\ SwTypes /\ PcTypes /\ ReqTypes /\ DataTypes
  BY TypesSplit DEF Typed
<1>1. /\ pc[f] = "this" /\ Runs(f)
      /\ UNCHANGED <<Procedure, all, mStopCheckAPsStatus, mApFunction, swVars, apVars>>
  BY DEF CheckThisState, At
<1>2. CASE State[cur[f]] = "Finished"
  <2>1. State' = [State EXCEPT ![cur[f]] = "Idle"] /\ ThisReturns(f, "SUCCESS", {})
    BY <1>2 DEF CheckThisState
  <2>2. ApTypes'
    BY <1>0, <1>1, <2>1 DEF ApTypes, apVars, CpuStates
  <2>3. "SUCCESS" \in Statuses /\ {} \in SUBSET Cpus
    BY DEF Statuses
  <2> QED BY <1>1, <2>1, <2>2, <2>3, ThisReturnsTyped
<1>3. CASE State[cur[f]] # "Finished"
  <2>1. pc' = [pc EXCEPT ![f] = "thisTime"] /\ UNCHANGED <<State, Clock, req, cur, arg>>
    BY <1>3 DEF CheckThisState, Goto
  <2>2. ApTypes' /\ ReqTypes' /\ Len(req') = Len(req) /\ Clock' \in [Cpus -> ClockSet] /\ all' \in AllSet
    BY <1>0, <1>1, <2>1 DEF ApTypes, apVars, ReqTypes, DataTypes
  <2>3. 0 \in Nat
    OBVIOUS
  <2> QED BY <1>1, <2>1, <2>2, <2>3, StaysTyped
<1> QED BY <1>2, <1>3

\* Reading the clock keeps Typed and every WaitEvent.
LEMMA CheckThisTimeTyped ==
    ASSUME Typed, NEW f \in Frames, NEW delta \in Nat, CheckThisTime(f, delta)
    PROVE  /\ Typed'
           /\ \A q \in Cpus : Clock'[q].WaitEvent = Clock[q].WaitEvent
<1>0. ApTypes /\ SwTypes /\ PcTypes /\ ReqTypes /\ DataTypes
  BY TypesSplit DEF Typed
<1> DEFINE p == cur[f]
           clock == ReadClock(Clock[p], delta)
<1>1. /\ pc[f] = "thisTime" /\ Runs(f)
      /\ UNCHANGED <<State, Procedure, all, mStopCheckAPsStatus, swVars, arg, req>>
      /\ Clock' = [Clock EXCEPT ![p] = clock]
      /\ \/ AbortAp(p) /\ Goto(f, "thisIdle") /\ cur' = cur
         \/ /\ IF f = "main" THEN Goto(f, "this") /\ cur' = cur ELSE GotoAt(f, "scan", p + 1)
            /\ UNCHANGED <<mApFunction, apVars>>
  BY DEF CheckThisTime, At
<1>2. p \in Cpus
  BY <1>1, ThisRequestType
<1>3. clock \in ClockSet /\ clock.WaitEvent = Clock[p].WaitEvent
  <2>1. Clock[p] \in ClockSet /\ 0 \in Nat
    BY <1>2, TypedFacts
  <2> QED BY <2>1, ClockFacts
<1> HIDE DEF clock, p
<1>4. Clock' \in [Cpus -> ClockSet] /\ \A q \in Cpus : Clock'[q].WaitEvent = Clock[q].WaitEvent
  BY <1>0, <1>1, <1>2, <1>3 DEF DataTypes
<1>5. ApTypes'
  <2>1. CASE AbortAp(p)
    BY <1>0, <1>1, <1>2, <2>1, AbortTypes
  <2>2. CASE UNCHANGED <<mApFunction, apVars>>
    BY <1>0, <1>1, <2>2 DEF ApTypes, apVars
  <2> QED BY <1>1, <2>1, <2>2
<1>6. ReqTypes' /\ Len(req') = Len(req) /\ all' \in AllSet /\ UNCHANGED <<all, mStopCheckAPsStatus, swVars, arg>>
  BY <1>0, <1>1 DEF ReqTypes, DataTypes
<1>7. p + 1 \in Nat
  BY <1>2, CpusFinite
<1>8. Typed'
  <2>1. CASE Goto(f, "thisIdle") /\ cur' = cur
    BY <1>1, <1>4, <1>5, <1>6, <1>7, <2>1, StaysTyped DEF Goto
  <2>2. CASE Goto(f, "this") /\ cur' = cur
    BY <1>1, <1>4, <1>5, <1>6, <1>7, <2>2, StaysTyped DEF Goto
  <2>3. CASE f = "cb" /\ GotoAt(f, "scan", p + 1)
    BY <1>1, <1>4, <1>5, <1>6, <1>7, <2>3, StaysTyped DEF Goto, GotoAt
  <2> QED BY <1>1, <2>1, <2>2, <2>3 DEF Frames
<1> QED BY <1>4, <1>8

\* Marking the aborted processor idle keeps Typed.
LEMMA CheckThisIdleTyped ==
    ASSUME Typed, NEW f \in Frames, CheckThisIdle(f)
    PROVE  Typed'
<1>0. ApTypes /\ SwTypes /\ PcTypes /\ ReqTypes /\ DataTypes
  BY TypesSplit DEF Typed
<1>1. /\ pc[f] = "thisIdle" /\ Runs(f)
      /\ State' = [State EXCEPT ![cur[f]] = "Idle"]
      /\ ThisReturns(f, "TIMEOUT", {cur[f]})
      /\ UNCHANGED <<Procedure, all, mStopCheckAPsStatus, mApFunction, swVars, apVars>>
  BY DEF CheckThisIdle, At
<1>2. ApTypes'
  BY <1>0, <1>1 DEF ApTypes, apVars, CpuStates
<1>3. cur[f] \in Cpus
  BY <1>1, ThisRequestType
<1>4. "TIMEOUT" \in Statuses /\ {cur[f]} \in SUBSET Cpus
  BY <1>3 DEF Statuses
<1> QED BY <1>1, <1>2, <1>4, ThisReturnsTyped

\* Every step of CheckAllAPs() and CheckThisAP() keeps Typed.
LEMMA CheckTyped ==
    ASSUME Typed, NEW f \in Frames, Check(f)
    PROVE  Typed'
<1>1. \A delta \in 0 .. MaxDelta : delta \in Nat
  BY BoundsAssumption
<1> QED BY <1>1, CheckAllOneTyped, ResetNextTyped, ResetIdleTyped, CheckThisStateTyped, CheckThisIdleTyped,
           CheckAllEndTyped, CheckThisTimeTyped DEF Check

\* The notification's own steps keep Typed.
LEMMA CbTyped ==
    ASSUME Typed, CheckAPsStatus \/ ScanThisAPs
    PROVE  Typed'
<1>0. ApTypes /\ SwTypes /\ PcTypes /\ ReqTypes /\ DataTypes
  BY TypesSplit DEF Typed
<1>1. /\ ApTypes' /\ SwTypes' /\ ReqTypes' /\ DataTypes'
      /\ UNCHANGED <<Clock, all, mStopCheckAPsStatus, arg, req>>
  BY <1>0 DEF CheckAPsStatus, ScanThisAPs, cpuData, apVars, swVars, ApTypes, SwTypes, ReqTypes, DataTypes
<1>2. CASE CheckAPsStatus
  <2> DEFINE place == IF all.Clock.WaitEvent # NULL THEN "all" ELSE "scan"
  <2>1. /\ pc' = [pc EXCEPT !["cb"] = place] /\ cur' = [cur EXCEPT !["cb"] = 0] /\ ~mStopCheckAPsStatus
        /\ pc["main"] # "exchange"
    BY <1>2 DEF CheckAPsStatus, GotoAt, Goto
  <2>2. place \in {"all", "scan"} /\ (place = "all" => all.Clock.WaitEvent # NULL)
    OBVIOUS
  <2> HIDE DEF place
  <2>3. PcTypes' /\ pc'["cb"] = place /\ pc'["main"] = pc["main"] /\ cur'["main"] = cur["main"]
    BY <1>0, <2>1, <2>2 DEF PcTypes, Frames, CbPlaces
  <2>4. ThreadsFit'
    BY <1>1, <2>1, <2>2, <2>3 DEF Typed, ThreadsFit, MainAll, MainThis, CbAll, CbThis
  <2> QED BY <1>1, <2>3, <2>4, TypesSplitNext DEF Typed
<1>3. CASE ScanThisAPs
  <2> DEFINE rest == {p \in Cpus : p >= cur["cb"] /\ Clock[p].WaitEvent # NULL}
  <2>1. pc["cb"] = "scan" /\ (IF rest = {} THEN GotoAt("cb", "off", 0) ELSE GotoAt("cb", "this", Min(rest)))
    BY <1>3 DEF ScanThisAPs, At
  <2>2. rest # {} => Min(rest) \in Cpus /\ Clock[Min(rest)].WaitEvent # NULL
    <3>1. rest \in SUBSET Cpus
      OBVIOUS
    <3> HIDE DEF rest
    <3>2. rest # {} => Min(rest) \in rest /\ Min(rest) \in Cpus
      BY <3>1, MinCpu
    <3> QED BY <3>2 DEF rest
  <2> DEFINE m == Min(rest)
  <2> HIDE DEF rest
  <2>3. CASE rest = {}
    <3>1. PcTypes' /\ pc'["cb"] = "off" /\ pc'["main"] = pc["main"] /\ cur'["main"] = cur["main"]
      BY <1>0, <2>1, <2>3 DEF PcTypes, Frames, CbPlaces, GotoAt, Goto
    <3>2. ThreadsFit'
      BY <1>1, <3>1 DEF Typed, ThreadsFit, MainAll, MainThis, CbAll, CbThis
    <3> QED BY <1>1, <3>1, <3>2, TypesSplitNext DEF Typed
  <2>4. CASE rest # {}
    <3>0. m \in Cpus /\ m \in Nat /\ Clock[m].WaitEvent # NULL /\ GotoAt("cb", "this", m)
      BY <2>1, <2>2, <2>4, CpusFinite
    <3> HIDE DEF m
    <3>1. PcTypes' /\ pc'["cb"] = "this" /\ cur'["cb"] = m /\ pc'["main"] = pc["main"] /\ cur'["main"] = cur["main"]
      BY <1>0, <3>0 DEF PcTypes, Frames, CbPlaces, GotoAt, Goto
    <3>2. pc["main"] \notin {"wake", "save", "exchange"}
      BY <2>1 DEF Typed, ThreadsFit
    <3>3. ThreadsFit'
      BY <1>1, <3>0, <3>1, <3>2 DEF Typed, ThreadsFit, MainAll, MainThis, CbAll, CbThis
    <3> QED BY <1>1, <3>1, <3>3, TypesSplitNext DEF Typed
  <2> QED BY <2>3, <2>4
<1> QED BY <1>2, <1>3

\* The processors' own steps leave the threads alone, but for the end of an exchange.
LEMMA KeepsThreads ==
    ASSUME Typed, ApTypes', SwTypes',
           UNCHANGED <<Clock, all, mStopCheckAPsStatus, cur, arg>>,
           pc' = pc \/ pc' = [pc EXCEPT !["main"] = "switched"],
           ReqTypes', Len(req') = Len(req)
    PROVE  Typed'
<1>0. PcTypes /\ DataTypes
  BY TypesSplit DEF Typed
<1>1. DataTypes'
  BY <1>0 DEF DataTypes
<1>2. /\ PcTypes' /\ pc'["cb"] = pc["cb"]
      /\ pc'["main"] = pc["main"] \/ pc'["main"] = "switched"
  BY <1>0 DEF PcTypes, Frames, MainPlaces
<1>3. ThreadsFit'
  BY <1>2 DEF Typed, ThreadsFit, MainAll, MainThis, CbAll, CbThis
<1> QED BY <1>1, <1>2, <1>3, TypesSplitNext DEF Typed

\* A procedure that returned is recorded.
LEMMA RunsProcedureReq ==
    ASSUME Typed, NEW c \in Cpus, apProc[c] \in DOMAIN req, req' = [req EXCEPT ![apProc[c]].done = @ \cup {c}]
    PROVE  LET r == apProc[c]
               new == [req[r] EXCEPT !.done = @ \cup {c}]
           IN  /\ r \in 1 .. Len(req)
               /\ Replaced(r, new)
               /\ new.failed = req[r].failed /\ new.status = req[r].status
               /\ new.cpus = req[r].cpus /\ new.done = req[r].done \cup {c} /\ new.single = req[r].single
<1> DEFINE r == apProc[c]
           new == [req[r] EXCEPT !.done = @ \cup {c}]
<1>1. req \in Seq(ReqSet) /\ r \in 1 .. Len(req)
  BY TypedFacts
<1>2. req' = [req EXCEPT ![r] = new]
  OBVIOUS
<1>3. req[r] \in ReqSet
  BY <1>1, ReqIs
<1> HIDE DEF r
<1>4. /\ new \in ReqSet
      /\ new.failed = req[r].failed /\ new.status = req[r].status
      /\ new.cpus = req[r].cpus /\ new.done = req[r].done \cup {c} /\ new.single = req[r].single
  BY <1>3 DEF ReqSet
<1> HIDE DEF new
<1>5. Replaced(r, new)
  BY <1>1, <1>2, <1>4, ReplacedFact
<1> QED BY <1>1, <1>4, <1>5 DEF r, new

\* Every step of a processor keeps Typed.
LEMMA ApTyped ==
    ASSUME Typed, NEW c \in Cpus, ApStep(c)
    PROVE  Typed'
<1>0. ApTypes /\ SwTypes /\ ReqTypes
  BY TypesSplit DEF Typed
<1>a. FutureBSPProc \in 0 .. MaxRequests + 1 /\ 0 \in 0 .. MaxRequests + 1
  BY BoundsAssumption DEF FutureBSPProc
<1>1. CASE ApEntry(c) \/ ApFetches(c) \/ ApClearsProcedure(c)
  <2>1. ApTypes'
    <3>1. CASE ApEntry(c)
      BY <1>0, <3>1 DEF ApTypes, ApEntry, cpuData, ApPlaces
    <3>2. CASE ApFetches(c)
      BY <1>0, <3>2 DEF ApTypes, ApFetches, ApSection, ApPlaces, CpuStates
    <3>3. CASE ApClearsProcedure(c)
      BY <1>0, <1>a, <3>3 DEF ApTypes, ApClearsProcedure, ApSection, ApPlaces, NULL
    <3> QED BY <1>1, <3>1, <3>2, <3>3
  <2>2. SwTypes' /\ ReqTypes' /\ UNCHANGED <<Clock, all, mStopCheckAPsStatus, cur, arg, pc, req>>
    BY <1>0, <1>1 DEF SwTypes, ReqTypes, ApEntry, ApFetches, ApClearsProcedure, ApSection, swVars, cpuData, bspVars
  <2> QED BY <2>1, <2>2, KeepsThreads
<1>2. CASE ApRunsProcedure(c)
  <2>1. ApTypes' /\ SwTypes' /\ UNCHANGED <<Clock, all, mStopCheckAPsStatus, cur, arg, pc>>
    BY <1>0, <1>2 DEF ApRunsProcedure, cpuData, bspVars, ApTypes, SwTypes, ApPlaces, Infos
  <2>2. CASE apProc[c] = FutureBSPProc /\ req' = req
    BY <1>0, <2>1, <2>2, KeepsThreads DEF ReqTypes
  <2>3. CASE apProc[c] \in DOMAIN req /\ req' = [req EXCEPT ![apProc[c]].done = @ \cup {c}]
    <3>1. ReqTypes' /\ Len(req') = Len(req)
      BY <1>0, <2>3, RunsProcedureReq DEF ReqTypes, Replaced
    <3> QED BY <2>1, <3>1, KeepsThreads
  <2> QED BY <1>2, <2>2, <2>3 DEF ApRunsProcedure
<1>3. CASE ApFinishes(c)
  <2>1. ReloadedCtx(c) \in Cpus
    BY <1>0 DEF ReloadedCtx, ApTypes
  <2>2. ApTypes'
    BY <1>0, <1>a, <1>3, <2>1 DEF ApFinishes, ApSection, ApTypes, ApPlaces, CpuStates, NULL
  <2>3. SwTypes' /\ ReqTypes' /\ UNCHANGED <<Clock, all, mStopCheckAPsStatus, cur, arg, pc, req>>
    BY <1>0, <1>3 DEF SwTypes, ReqTypes, ApFinishes, ApSection, swVars, bspVars
  <2> QED BY <2>2, <2>3, KeepsThreads
<1>4. CASE BspLeaves(c) \/ ApLoads(c)
  <2>1. ApTypes' /\ SwTypes' /\ ReqTypes' /\ UNCHANGED <<Clock, all, mStopCheckAPsStatus, cur, arg, pc, req>>
    <3>1. CASE BspLeaves(c)
      BY <1>0, <1>a, <3>1 DEF BspLeaves, cpuData, swVars, bspVars, ApTypes, SwTypes, ReqTypes, ApPlaces
    <3>2. CASE ApLoads(c)
      BY <1>0, <3>2 DEF ApLoads, cpuData, bspVars, ApTypes, SwTypes, ReqTypes, ApPlaces, Infos
    <3> QED BY <1>4, <3>1, <3>2
  <2> QED BY <2>1, KeepsThreads
<1>5. CASE ApLeaves(c)
  <2>1. /\ ApTypes' /\ SwTypes' /\ ReqTypes' /\ UNCHANGED <<Clock, all, mStopCheckAPsStatus, cur, arg, req>>
        /\ pc' = [pc EXCEPT !["main"] = "switched"]
    BY <1>0, <1>a, <1>5 DEF ApLeaves, Goto, cpuData, ApTypes, SwTypes, ReqTypes, ApPlaces, NULL
  <2> QED BY <2>1, KeepsThreads
<1> QED BY <1>1, <1>2, <1>3, <1>4, <1>5 DEF ApStep

\* The BSP's steps of the role exchange keep Typed.
LEMMA SwitchTyped ==
    ASSUME Typed, BspLoads \/ SwitchDone
    PROVE  Typed'
<1>0. ApTypes /\ SwTypes /\ PcTypes /\ ReqTypes /\ DataTypes
  BY TypesSplit DEF Typed
<1>1. CASE BspLoads
  <2>1. ApTypes' /\ SwTypes' /\ ReqTypes' /\ UNCHANGED <<Clock, all, mStopCheckAPsStatus, cur, arg, pc, req>>
    BY <1>0, <1>1, TypedFacts DEF BspLoads, cpuData, bspVars, ApTypes, SwTypes, ReqTypes, ApPlaces, Infos
  <2> QED BY <2>1, KeepsThreads
<1>2. CASE SwitchDone
  <2>1. ApTypes' /\ SwTypes' /\ ReqTypes' /\ UNCHANGED <<Clock, all, mStopCheckAPsStatus, req>> /\ pc["cb"] = "off"
    BY <1>0, <1>2, TypedFacts DEF SwitchDone, ChangeCpuState, At, Runs, apVars, ApTypes, SwTypes, ReqTypes,
                                  CpuStates, Infos
  <2>2. /\ PcTypes' /\ arg' \in ArgSet /\ arg'.req = NULL
        /\ pc'["main"] \in {"exited", "ready"} /\ pc'["cb"] = "off"
    BY <1>0, <1>2, <2>1, MainReturnsTypes DEF SwitchDone
  <2>3. DataTypes'
    BY <1>0, <2>1, <2>2 DEF DataTypes
  <2>4. ThreadsFit'
    BY <2>1, <2>2, TypedFacts DEF ThreadsFit, MainAll, MainThis, CbAll, CbThis, NULL
  <2> QED BY <2>1, <2>2, <2>3, <2>4, TypesSplitNext DEF Typed
<1> QED BY <1>1, <1>2

\* Every step keeps Typed.
LEMMA NextTyped == Typed /\ [Next]_vars => Typed'
<1> SUFFICES ASSUME Typed, [Next]_vars PROVE Typed'
  OBVIOUS
<1>1. CASE UNCHANGED vars
  BY <1>1 DEF vars, cpuData, apVars, swVars, bspVars, Typed, MpTypes, ThreadsFit, MainAll, MainThis, CbAll, CbThis
<1>2. CASE MainStep
  <2>1. CASE ChangeApLoopModeCallBack
    BY <2>1, StartupAllTyped DEF ChangeApLoopModeCallBack, At, Runs
  <2>2. "main" \in Frames
    BY DEF Frames
  <2> QED BY <1>2, <2>1, <2>2, WakeNextTyped, SaveTyped, SwitchTyped, CheckTyped DEF MainStep
<1>3. CASE CbStep
  <2>1. "cb" \in Frames
    BY DEF Frames
  <2> QED BY <1>3, <2>1, CbTyped, CheckTyped DEF CbStep
<1> QED BY <1>1, <1>2, <1>3, CallTyped, CbTyped, SwitchTyped, ApTyped DEF Next

\* For every caller and however slow the APs are, the data of the MP services keep
\* their types; no thread uses a request or processor number it does not have.
THEOREM ServiceTypes == Spec => []TypeOK
<1>1. Spec => []Typed
  BY InitTyped, NextTyped, PTL DEF Spec
<1>2. Typed => TypeOK
  BY BoundsAssumption DEF Typed, MpTypes, TypeOK, Infos
<1> QED BY <1>1, <1>2, PTL

-----------------------------------------------------------------------------
\* A step that changes nobody's owner.
SameOwners ==
    /\ AllReq' = AllReq
    /\ \A p \in Cpus :
         /\ InAll(p)' <=> InAll(p)
         /\ ThisReq(p)' = ThisReq(p)
         /\ Owner(p)' = Owner(p)
\* A step that leaves p alone.
SameAp(p) ==
    /\ State'[p] = State[p] /\ Procedure'[p] = Procedure[p]
    /\ apPc'[p] = apPc[p] /\ apProc'[p] = apProc[p] /\ apCtx'[p] = apCtx[p]
    /\ apPc[p] = "boot" => mApFunction' = mApFunction
\* A step that leaves alone what p's request says of p.
SameReq(p) ==
    Owner(p) # NULL =>
        /\ req'[Owner(p)].single <=> req[Owner(p)].single
        /\ p \in req'[Owner(p)].done <=> p \in req[Owner(p)].done

\* What MpInv says of the sets of processors.
LEMMA InvFacts ==
    ASSUME MpInv
    PROVE  Typed /\ (\A c \in Aps : c \in Cpus /\ c # BspNumber /\ c # bspCpu) /\ Aside \subseteq Cpus
BY TypedFacts DEF MpInv, Typed, MpTypes, Aps, Aside, ArgSet

\* Owners are requests, and FutureBSPProc is none.
LEMMA OwnerRange ==
    ASSUME Typed, NEW p \in Cpus
    PROVE  /\ AllReq \in 0 .. Len(req) /\ ThisReq(p) \in 0 .. Len(req) /\ Owner(p) \in 0 .. Len(req)
           /\ FutureBSPProc \notin 0 .. Len(req) /\ FutureBSPProc # NULL
<1>1. AllReq \in 0 .. Len(req) /\ ThisReq(p) \in 0 .. Len(req)
  BY TypedFacts DEF AllReq, ThisReq
<1>2. FutureBSPProc \notin 0 .. Len(req) /\ FutureBSPProc # NULL
  BY TypedFacts DEF FutureBSPProc, NULL
<1> QED BY <1>1, <1>2 DEF Owner

\* A step that leaves p, its owner and its request alone keeps ApFits(p).
LEMMA ApFrame ==
    ASSUME NEW p \in Cpus, ApFits(p), SameAp(p), SameReq(p),
           Owner(p)' = Owner(p), InAll(p)' <=> InAll(p), ThisReq(p)' = ThisReq(p),
           Aborted(p)' <=> Aborted(p)
    PROVE  ApFits(p)'
<1>1. Parked(p) => Parked(p)'
  BY DEF Parked, SameAp
<1>2. Owner(p) # NULL /\ Works(p, Owner(p)) => Works(p, Owner(p))'
  BY <1>1 DEF Works, SameAp, SameReq
<1> QED BY <1>1, <1>2 DEF ApFits, SameAp

\* Where an AP that has no part in an exchange can be.
LEMMA ApPlace ==
    ASSUME MpInv, NEW c \in Aps
    PROVE  /\ apPc[c] \in {"hlt", "boot", "wrap", "proc", "clear", "fin"}
           /\ apCtx[c] = c
           /\ apPc[c] \in {"wrap", "proc", "clear", "fin"} => ~Aborted(c) /\ Owner(c) # NULL /\ Works(c, Owner(c))
<1>1. ApFits(c)
  BY DEF MpInv, ApsFit
<1>2. State[c] \notin {"Idle", "Disabled"} /\ ~Aborted(c) => Owner(c) # NULL /\ Works(c, Owner(c))
  BY <1>1 DEF ApFits
<1>3. State[c] \in {"Idle", "Disabled"} \/ Aborted(c) => apPc[c] \in {"hlt", "boot"}
  BY <1>1 DEF ApFits, Parked
<1>4. Works(c, Owner(c)) => apPc[c] \in {"hlt", "boot", "wrap", "proc", "clear", "fin"}
  BY DEF Works, Parked
<1> QED BY <1>1, <1>2, <1>3, <1>4 DEF ApFits

\* A step that leaves the processors of the exchange alone keeps RoleFits.
LEMMA RoleFrame ==
    ASSUME Typed, RoleFits,
           pc'["main"] = pc["main"] \/ (~Switching /\ ~Switching'),
           UNCHANGED swVars, Switching => arg' = arg, \A c \in Aside : SameAp(c)
    PROVE  RoleFits' /\ Aside' = Aside
<1>1. UNCHANGED <<BspNumber, bspCpu, BSPInfo, APInfo>>
  BY DEF swVars
<1>2. CASE ~Switching
  <2>1. ~Switching'
    BY <1>2 DEF Switching
  <2>2. SameAp(BspNumber)
    BY DEF Aside
  <2> QED BY <1>1, <1>2, <2>1, <2>2 DEF RoleFits, SameAp, Switching, Aside
<1>3. CASE pc["main"] = "exchange"
  <2>1. pc'["main"] = "exchange" /\ arg' = arg
    BY <1>3 DEF Switching
  <2>2. SameAp(BspNumber) /\ SameAp(arg.cpu)
    BY <1>3 DEF Aside
  <2> QED BY <1>1, <1>3, <2>1, <2>2 DEF RoleFits, SameAp, Switching, Aside, OldStored, OldLoaded, Leaving, Entering
<1>4. CASE pc["main"] = "switched"
  <2>1. pc'["main"] = "switched" /\ arg' = arg
    BY <1>4 DEF Switching
  <2>2. SameAp(BspNumber) /\ SameAp(bspCpu)
    BY <1>4 DEF Aside
  <2> QED BY <1>1, <1>4, <2>1, <2>2 DEF RoleFits, SameAp, Switching, Aside, OldLoaded, Leaving
<1> QED BY <1>2, <1>3, <1>4 DEF Switching

-----------------------------------------------------------------------------
\* The main thread goes on on the new BSP.
LeavesExchange == pc["main"] = "exchange" /\ pc' = [pc EXCEPT !["main"] = "switched"]

\* Steps of the processors keep what belongs to the threads.
LEMMA ApKeeps ==
    ASSUME Typed, UNCHANGED <<cur, arg, Clock, all>>, pc' = pc \/ LeavesExchange
    PROVE  /\ SameOwners /\ (Resetting' <=> Resetting) /\ \A p \in Cpus : Aborted(p)' <=> Aborted(p)
           /\ (MainAll' <=> MainAll) /\ (MainThis' <=> MainThis)
           /\ \A f \in Frames : pc[f] # "exchange" \/ pc'[f] # "switched" => pc'[f] = pc[f]
<1>1. CASE pc' = pc
  BY <1>1 DEF SameOwners, AllReq, InAll, ThisReq, Owner, MainAll, MainThis, Resetting, Aborted
<1>2. CASE LeavesExchange
  <2>1. pc["main"] = "exchange" /\ pc'["main"] = "switched" /\ pc'["cb"] = pc["cb"] /\ Frames = {"main", "cb"}
    BY <1>2 DEF Typed, MpTypes, Frames, LeavesExchange
  <2>2. ~MainAll /\ ~MainAll' /\ ~MainThis /\ ~MainThis'
    BY <2>1 DEF MainAll, MainThis
  <2>3. SameOwners
    BY <2>1, <2>2 DEF SameOwners, AllReq, InAll, ThisReq, Owner
  <2>4. (Resetting' <=> Resetting) /\ \A p \in Cpus : Aborted(p)' <=> Aborted(p)
    BY <2>1 DEF Resetting, Aborted
  <2> QED BY <2>1, <2>2, <2>3, <2>4
<1> QED BY <1>1, <1>2

\* Only the procedures that returned on c may be new in the requests.
ReqGrows(c) ==
    /\ Len(req') = Len(req)
    /\ DOMAIN req' = DOMAIN req
    /\ \A s \in DOMAIN req :
         /\ req'[s].status = req[s].status /\ req'[s].cpus = req[s].cpus
         /\ (req'[s].single <=> req[s].single) /\ req'[s].failed = req[s].failed
         /\ req[s].done \subseteq req'[s].done
         /\ req'[s].done \subseteq req[s].done \cup {c}

\* A step of processor c keeps MpInv if it keeps what concerns c.
LEMMA ApInv ==
    ASSUME MpInv, Typed', NEW c \in Cpus,
           UNCHANGED <<cur, arg, Clock, all>>, pc' = pc \/ LeavesExchange, ReqGrows(c),
           \A p \in Aps \ {c} : SameAp(p),
           OneBoots', RoleFits', Aside' = Aside,
           c \in Aps => ApFits(c)',
           c \in Aps /\ Parked(c) => State'[c] = State[c] /\ Parked(c)' /\ req' = req
    PROVE  MpInv'
<1>0. Typed /\ Aside \subseteq Cpus /\ Aps \subseteq Cpus
  BY InvFacts DEF Aps
<1>1. SameOwners /\ (Resetting' <=> Resetting) /\ \A p \in Cpus : Aborted(p)' <=> Aborted(p)
  BY <1>0, ApKeeps
<1>p. /\ (MainAll' <=> MainAll) /\ (MainThis' <=> MainThis)
      /\ pc'["main"] = pc["main"] \/ (pc["main"] = "exchange" /\ pc'["main"] = "switched")
      /\ pc'["cb"] = pc["cb"]
  BY <1>0, ApKeeps DEF LeavesExchange, Typed, MpTypes, Frames
<1>2. DOMAIN req = 1 .. Len(req) /\ \A p \in Cpus : AllReq \in 0 .. Len(req) /\ ThisReq(p) \in 0 .. Len(req)
                                   /\ Owner(p) \in 0 .. Len(req)
  BY <1>0, OwnerRange, TypedFacts
<1>3. CallsFit'
  <2>1. AllReq' # NULL => AllReq \in DOMAIN req
    BY <1>1, <1>2 DEF SameOwners, NULL
  <2>2. pc["main"] \in {"wake", "save"} => arg.req \in DOMAIN req
    BY <1>0, <1>2, TypedFacts DEF Typed, ThreadsFit, MainAll, NULL
  <2>3. \A f \in Frames : pc'[f] = "allIdle" => pc[f] = "allIdle"
    BY <1>p DEF Frames
  <2> QED BY <1>1, <1>p, <2>1, <2>2, <2>3 DEF MpInv, CallsFit, SameOwners, ReqGrows
<1>4. Unowned'
  BY <1>0, <1>1 DEF MpInv, Unowned, SameOwners
<1>5. Aps' = Aps
  BY DEF Aps
<1>6. ASSUME NEW p \in Aps \ {c} PROVE ApFits(p)'
  <2>1. p \in Cpus /\ ApFits(p) /\ SameAp(p)
    BY <1>0, <1>6 DEF MpInv, ApsFit
  <2>2. Owner(p) # NULL => Owner(p) \in DOMAIN req
    BY <1>2, <2>1 DEF NULL
  <2>3. SameReq(p)
    BY <1>6, <2>2 DEF SameReq, ReqGrows
  <2> QED BY <1>1, <2>1, <2>3, ApFrame DEF SameOwners
<1>7. ApsFit'
  BY <1>5, <1>6 DEF ApsFit
<1>8. ThisFits'
  <2>1. \A p \in Cpus : ThisReq(p) # NULL => ThisReq(p) \in DOMAIN req
    BY <1>2 DEF NULL
  <2> QED BY <1>1, <2>1 DEF MpInv, ThisFits, SameOwners, ReqGrows
<1>9. AllCounts'
  <2>1. AllReq # NULL => AllReq \in DOMAIN req
    BY <1>2, CpusFinite DEF NULL
  <2>2. CASE AllReq = NULL
    BY <1>1, <2>2 DEF AllCounts, SameOwners
  <2>3. CASE AllReq # NULL
    <3> DEFINE a == AllReq
    <3>0. a \in DOMAIN req /\ AllReq' = a
      BY <1>1, <2>1, <2>3 DEF SameOwners
    <3>1. /\ req[a].status = "open"
          /\ all.CpuList \subseteq req[a].cpus \ req[a].failed
          /\ req[a].cpus \subseteq all.CpuList \cup req[a].failed \cup req[a].done
          /\ ~Resetting => /\ req[a].failed = {}
                           /\ all.FinishCount + Cardinality(all.CpuList) = all.StartCount
      BY <2>3 DEF MpInv, AllCounts
    <3> HIDE DEF a
    <3>2. /\ req'[a].status = "open" /\ req'[a].cpus = req[a].cpus /\ req'[a].failed = req[a].failed
          /\ req[a].done \subseteq req'[a].done
      BY <3>0, <3>1 DEF ReqGrows
    <3> QED BY <1>1, <3>0, <3>1, <3>2 DEF AllCounts
  <2> QED BY <2>2, <2>3
<1>a. ASSUME NEW p \in Aps, Parked(p) PROVE State'[p] = State[p] /\ Parked(p)'
  <2>1. CASE p = c
    BY <1>a, <2>1
  <2>2. CASE p # c
    BY <1>a, <2>2 DEF SameAp, Parked
  <2> QED BY <2>1, <2>2
<1>10. TurnsFit'
  <2>1. AllReq # NULL => AllReq \in DOMAIN req
    BY <1>2, CpusFinite DEF NULL
  <2> SUFFICES ASSUME AllReq # NULL, req[AllReq].single, NEW p \in all.CpuList, NEW q \in all.CpuList,
                      InAll(p), q < p
               PROVE  State'[p] = "Ready" /\ Parked(p)'
    <3>1. \A p \in all.CpuList : p \in Cpus
      BY <1>0, TypedFacts
    <3> QED BY <1>1, <2>1, <3>1 DEF TurnsFit, SameOwners, ReqGrows
  <2>2. p \in Aps
    BY <1>0, TypedFacts DEF MpInv, Unowned, Aps
  <2>3. State[p] = "Ready" /\ Parked(p)
    BY DEF MpInv, TurnsFit
  <2> QED BY <1>a, <2>2, <2>3
<1>11. WakeFits'
  <2> SUFFICES ASSUME pc["main"] = "wake" PROVE WakeFits'
    BY <1>p DEF WakeFits
  <2>1. arg.req \in DOMAIN req
    BY <1>0, <1>2, TypedFacts DEF Typed, ThreadsFit, MainAll, NULL
  <2>2. ASSUME NEW p \in all.CpuList, p >= cur["main"]
        PROVE  State'[p] = "Idle" /\ p \notin req'[arg.req].done
    <3>1. State[p] = "Idle" /\ p \notin req[arg.req].done /\ p \in Aps
      BY <1>0, <2>2, TypedFacts DEF MpInv, WakeFits, Aps
    <3>2. Parked(p)
      BY <3>1 DEF MpInv, ApsFit, ApFits
    <3>3. State'[p] = "Idle"
      BY <1>a, <3>1, <3>2
    <3>4. p = c => req' = req
      BY <3>1, <3>2
    <3>5. p # c => p \notin req'[arg.req].done
      BY <2>1, <3>1 DEF ReqGrows
    <3> QED BY <3>1, <3>3, <3>4, <3>5
  <2> QED BY <2>2 DEF MpInv, WakeFits
<1>12. EndedAccounted'
  BY DEF MpInv, EndedAccounted, ReqGrows
<1> QED BY <1>3, <1>4, <1>7, <1>8, <1>9, <1>10, <1>11, <1>12 DEF MpInv, Typed

\* An AP is not a processor of the exchange.
LEMMA SideApart ==
    ASSUME Typed, NEW c \in Aps, NEW d \in Aside
    PROVE  c # d
BY DEF Aps

\* Where the processors of an exchange can be.
LEMMA SidePlace ==
    ASSUME MpInv, NEW c \in Cpus, c \notin Aps
    PROVE  /\ c = BspNumber \/ c = arg.cpu
           /\ apPc[c] \in {"boot", "wrap", "proc", "stored", "loaded"} =>
                pc["main"] = "exchange" /\ c = arg.cpu /\ c # BspNumber
           /\ apPc[c] \in {"boot", "wrap", "proc"} => Entering(c)
           /\ apPc[c] \in {"clear", "fin", "bspStored", "bspLoaded"} => Switching /\ c = BspNumber /\ c # arg.cpu
           /\ apPc[c] \in {"clear", "fin"} => Leaving(c, arg.cpu)
<1>1. c \in Aside /\ RoleFits
  BY DEF Aps, MpInv
<1>2. CASE ~Switching
  BY <1>1, <1>2 DEF Aside, RoleFits, Switching
<1>3. CASE pc["main"] = "exchange"
  BY <1>1, <1>3 DEF Aside, RoleFits, Switching, OldStored, OldLoaded, Leaving, Entering
<1>4. CASE pc["main"] = "switched"
  BY <1>1, <1>4 DEF Aside, RoleFits, Switching, OldLoaded, Leaving
<1> QED BY <1>2, <1>3, <1>4 DEF Switching

\* A step that leaves the requests alone.
LEMMA SameReqGrows ==
    ASSUME req' = req, NEW c
    PROVE  ReqGrows(c)
BY DEF ReqGrows

\* A step of a processor that has no part in an exchange.
LEMMA OutsideInv ==
    ASSUME MpInv, Typed', NEW c \in Aps,
           UNCHANGED <<pc, cur, arg, Clock, all, swVars>>, ReqGrows(c),
           \A p \in Cpus \ {c} : SameAp(p),
           apPc'[c] # "boot",
           ApFits(c)',
           Parked(c) => State'[c] = State[c] /\ Parked(c)' /\ req' = req
    PROVE  MpInv'
<1>0. Typed /\ c \in Cpus /\ Aside \subseteq Cpus
  BY InvFacts
<1>1. OneBoots'
  <2>1. \A p \in Cpus : apPc'[p] = "boot" => apPc[p] = "boot"
    BY DEF SameAp
  <2> QED BY <2>1 DEF MpInv, OneBoots
<1>2. \A d \in Aside : SameAp(d)
  BY <1>0, SideApart
<1>3. RoleFits' /\ Aside' = Aside
  BY <1>0, <1>2, RoleFrame DEF MpInv
<1> QED BY <1>0, <1>1, <1>3, ApInv DEF Aps

\* An AP reads mApFunction.
LEMMA ApEntryInv ==
    ASSUME MpInv, Typed', NEW c \in Cpus, ApEntry(c)
    PROVE  MpInv'
<1>0. Typed /\ apPc \in [Cpus -> ApPlaces] /\ mApFunction \in {"NULL", "ApProcWrapper"}
  BY InvFacts DEF Typed, MpTypes
<1>1. /\ UNCHANGED <<State, Procedure, mApFunction, apProc, apCtx, pc, cur, arg, Clock, all, swVars, req>>
      /\ apPc[c] = "boot"
      /\ apPc' = [apPc EXCEPT ![c] = IF mApFunction = "ApProcWrapper" THEN "wrap" ELSE "hlt"]
  BY DEF ApEntry, cpuData, bspVars
<1>2. \A p \in Cpus \ {c} : SameAp(p)
  BY <1>0, <1>1 DEF SameAp
<1>3. apPc'[c] = IF mApFunction = "ApProcWrapper" THEN "wrap" ELSE "hlt"
  BY <1>0, <1>1
<1>4. ReqGrows(c) /\ UNCHANGED <<pc, cur, arg, Clock, all>>
  BY <1>1, SameReqGrows
<1>5. CASE c \in Aps
  <2>1. ApFits(c)
    BY <1>5 DEF MpInv, ApsFit
  <2>2. SameOwners /\ (Aborted(c)' <=> Aborted(c))
    BY <1>0, <1>1, ApKeeps
  <2>3. Parked(c) => Parked(c)'
    BY <1>1, <1>3 DEF Parked
  <2>4. Works(c, Owner(c)) => Works(c, Owner(c))'
    <3>1. Owner(c)' = Owner(c)
      BY <2>2 DEF SameOwners
    <3> QED BY <1>1, <1>3, <2>3, <3>1 DEF Works
  <2>5. ApFits(c)'
    BY <1>1, <2>1, <2>2, <2>3, <2>4 DEF ApFits, SameOwners
  <2> QED BY <1>1, <1>2, <1>3, <1>4, <1>5, <2>3, <2>5, OutsideInv
<1>6. CASE c \notin Aps
  <2>1. pc["main"] = "exchange" /\ c = arg.cpu /\ c # BspNumber /\ Entering(c)
    BY <1>1, <1>6, SidePlace
  <2>2. Aside' = Aside
    BY <1>1 DEF Aside, swVars
  <2>3. SameAp(BspNumber)
    BY <1>0, <1>2, <2>1 DEF Typed, MpTypes
  <2>4. RoleFits'
    BY <1>1, <1>3, <2>1, <2>3 DEF MpInv, RoleFits, Switching, OldStored, Entering, SameAp, swVars
  <2>5. OneBoots'
    BY <1>2, <1>3 DEF MpInv, OneBoots, SameAp
  <2>6. \A p \in Aps \ {c} : SameAp(p)
    BY <1>2 DEF Aps
  <2> QED BY <1>4, <1>6, <2>2, <2>4, <2>5, <2>6, ApInv
<1> QED BY <1>5, <1>6

\* An AP fetches its procedure.
LEMMA ApFetchesInv ==
    ASSUME MpInv, Typed', NEW c \in Cpus, ApFetches(c)
    PROVE  MpInv'
<1>0. Typed /\ apPc \in [Cpus -> ApPlaces] /\ apProc \in [Cpus -> 0 .. MaxRequests + 1] /\ State \in [Cpus -> CpuStates]
  BY InvFacts DEF Typed, MpTypes
<1>1. /\ UNCHANGED <<Procedure, mApFunction, apCtx, pc, cur, arg, Clock, all, swVars, req>>
      /\ apPc[c] = "wrap"
      /\ apPc' = [apPc EXCEPT ![c] = IF Procedure[c] = NULL THEN "fin" ELSE "proc"]
      /\ State' = [State EXCEPT ![c] = "Busy"]
      /\ apProc' = [apProc EXCEPT ![c] = Procedure[c]]
  BY DEF ApFetches, ApSection, bspVars
<1>2. \A p \in Cpus \ {c} : SameAp(p)
  BY <1>0, <1>1 DEF SameAp
<1>3. /\ apPc'[c] = IF Procedure[c] = NULL THEN "fin" ELSE "proc"
      /\ State'[c] = "Busy" /\ apProc'[c] = Procedure[c]
  BY <1>0, <1>1
<1>4. ReqGrows(c) /\ UNCHANGED <<pc, cur, arg, Clock, all>>
  BY <1>1, SameReqGrows
<1>5. CASE c \in Aps
  <2>1. ApFits(c) /\ ~Aborted(c) /\ Owner(c) # NULL /\ Works(c, Owner(c))
    BY <1>1, <1>5, ApPlace DEF MpInv, ApsFit
  <2>2. SameOwners /\ (Aborted(c)' <=> Aborted(c))
    BY <1>0, <1>1, ApKeeps
  <2>3. ~Parked(c)
    BY <1>1 DEF Parked
  <2>4. Procedure[c] = Owner(c) /\ c \notin req[Owner(c)].done
    BY <1>1, <2>1 DEF Works, Parked
  <2>5. Works(c, Owner(c))'
    <3>1. Owner(c)' = Owner(c)
      BY <2>2 DEF SameOwners
    <3> QED BY <1>1, <1>3, <2>1, <2>4, <3>1 DEF Works
  <2>6. ApFits(c)'
    BY <1>1, <1>3, <2>1, <2>2, <2>5 DEF ApFits, SameOwners
  <2> QED BY <1>1, <1>2, <1>3, <1>4, <1>5, <2>3, <2>6, OutsideInv
<1>6. CASE c \notin Aps
  <2>1. pc["main"] = "exchange" /\ c = arg.cpu /\ c # BspNumber /\ Entering(c)
    BY <1>1, <1>6, SidePlace
  <2>2. Aside' = Aside
    BY <1>1 DEF Aside, swVars
  <2>3. SameAp(BspNumber)
    BY <1>0, <1>2, <2>1 DEF Typed, MpTypes
  <2>a. Procedure[c] = FutureBSPProc /\ FutureBSPProc # NULL
    BY <1>0, <1>1, <2>1, OwnerRange DEF Entering
  <2>4. RoleFits'
    BY <1>1, <1>3, <2>1, <2>3, <2>a DEF MpInv, RoleFits, Switching, OldStored, Entering, SameAp, swVars
  <2>5. OneBoots'
    BY <1>2, <1>3 DEF MpInv, OneBoots, SameAp
  <2>6. \A p \in Aps \ {c} : SameAp(p)
    BY <1>2 DEF Aps
  <2> QED BY <1>4, <1>6, <2>2, <2>4, <2>5, <2>6, ApInv
<1> QED BY <1>5, <1>6

\* The procedure returns, or enters AsmExchangeRole.
LEMMA ApRunsInv ==
    ASSUME MpInv, Typed', NEW c \in Cpus, ApRunsProcedure(c)
    PROVE  MpInv'
<1>0. Typed /\ apPc \in [Cpus -> ApPlaces]
  BY InvFacts DEF Typed, MpTypes
<1>1. /\ UNCHANGED <<State, Procedure, mApFunction, apProc, apCtx, pc, cur, arg, Clock, all, BspNumber, bspCpu, BSPInfo>>
      /\ apPc[c] = "proc"
  BY DEF ApRunsProcedure, cpuData, bspVars
<1>2. apPc' = [apPc EXCEPT ![c] = "stored"] \/ apPc' = [apPc EXCEPT ![c] = "clear"]
  BY DEF ApRunsProcedure
<1>3. \A p \in Cpus \ {c} : SameAp(p)
  BY <1>0, <1>1, <1>2 DEF SameAp
<1>5. CASE c \in Aps
  <2>1. ApFits(c) /\ ~Aborted(c) /\ Owner(c) # NULL /\ Works(c, Owner(c))
    BY <1>1, <1>5, ApPlace DEF MpInv, ApsFit
  <2>2. SameOwners /\ (Aborted(c)' <=> Aborted(c))
    BY <1>0, <1>1, ApKeeps
  <2>3. ~Parked(c)
    BY <1>1 DEF Parked
  <2>4. apProc[c] = Owner(c) /\ State[c] = "Busy"
    BY <1>1, <2>1 DEF Works, Parked
  <2>5. apProc[c] # FutureBSPProc
    BY <1>0, <2>4, OwnerRange
  <2>6. /\ apProc[c] \in DOMAIN req
        /\ req' = [req EXCEPT ![apProc[c]].done = @ \cup {c}]
        /\ apPc' = [apPc EXCEPT ![c] = "clear"]
        /\ APInfo' = APInfo
    BY <2>5 DEF ApRunsProcedure
  <2> DEFINE r == apProc[c]
             new == [req[r] EXCEPT !.done = @ \cup {c}]
  <2>7. /\ r \in 1 .. Len(req)
        /\ Replaced(r, new)
        /\ new.failed = req[r].failed /\ new.status = req[r].status
        /\ new.cpus = req[r].cpus /\ new.done = req[r].done \cup {c} /\ new.single = req[r].single
    BY <1>0, <2>6, RunsProcedureReq
  <2> HIDE DEF new, r
  <2>8. ReqGrows(c) /\ c \in req'[r].done
    BY <1>0, <2>7, TypedFacts DEF ReqGrows, Replaced
  <2>9. Works(c, Owner(c))'
    <3>1. Owner(c)' = Owner(c)
      BY <2>2 DEF SameOwners
    <3>2. apPc'[c] = "clear"
      BY <1>0, <2>6
    <3> QED BY <1>1, <2>4, <2>5, <2>8, <3>1, <3>2 DEF Works, r
  <2>10. ApFits(c)'
    BY <1>1, <2>1, <2>2, <2>4, <2>9 DEF ApFits, SameOwners
  <2>11. apPc'[c] # "boot" /\ UNCHANGED swVars
    BY <1>0, <1>1, <2>6 DEF swVars
  <2> QED BY <1>1, <1>3, <1>5, <2>3, <2>8, <2>10, <2>11, OutsideInv
<1>6. CASE c \notin Aps
  <2>1. pc["main"] = "exchange" /\ c = arg.cpu /\ c # BspNumber /\ Entering(c)
    BY <1>1, <1>6, SidePlace
  <2>2. Aside' = Aside
    BY <1>1 DEF Aside
  <2>3. SameAp(BspNumber)
    BY <1>0, <1>3, <2>1 DEF Typed, MpTypes
  <2>4. apProc[c] = FutureBSPProc /\ State[c] = "Busy"
    BY <1>1, <2>1 DEF Entering
  <2>5. apProc[c] \notin DOMAIN req
    BY <1>0, <2>4, OwnerRange, TypedFacts
  <2>6. APInfo' = "STORED" /\ apPc' = [apPc EXCEPT ![c] = "stored"] /\ req' = req
    BY <2>5 DEF ApRunsProcedure
  <2>7. apPc'[c] = "stored"
    BY <1>0, <2>6
  <2>8. RoleFits'
    BY <1>1, <2>1, <2>3, <2>4, <2>6, <2>7 DEF MpInv, RoleFits, Switching, OldStored, Entering, SameAp
  <2>9. OneBoots'
    BY <1>3, <2>7 DEF MpInv, OneBoots, SameAp
  <2>10. (\A p \in Aps \ {c} : SameAp(p)) /\ ReqGrows(c)
    BY <1>3, <2>6, SameReqGrows DEF Aps
  <2> QED BY <1>1, <1>6, <2>2, <2>8, <2>9, <2>10, ApInv
<1> QED BY <1>5, <1>6

\* ApProcWrapper() clears the procedure.
LEMMA ApClearsInv ==
    ASSUME MpInv, Typed', NEW c \in Cpus, ApClearsProcedure(c)
    PROVE  MpInv'
<1>0. Typed /\ apPc \in [Cpus -> ApPlaces] /\ Procedure \in [Cpus -> 0 .. MaxRequests + 1]
  BY InvFacts DEF Typed, MpTypes
<1>1. /\ UNCHANGED <<State, mApFunction, apProc, apCtx, pc, cur, arg, Clock, all, swVars, req>>
      /\ apPc[c] = "clear"
      /\ apPc' = [apPc EXCEPT ![c] = "fin"]
      /\ Procedure' = [Procedure EXCEPT ![apCtx[c]] = NULL]
  BY DEF ApClearsProcedure, ApSection, bspVars
<1>2. apPc'[c] = "fin"
  BY <1>0, <1>1
<1>3. \A p \in Cpus \ {c, apCtx[c]} : SameAp(p)
  BY <1>0, <1>1 DEF SameAp
<1>4. ReqGrows(c)
  BY <1>1, SameReqGrows
<1>5. CASE c \in Aps
  <2>1. ApFits(c) /\ ~Aborted(c) /\ Owner(c) # NULL /\ Works(c, Owner(c)) /\ apCtx[c] = c
    BY <1>1, <1>5, ApPlace DEF MpInv, ApsFit
  <2>2. SameOwners /\ (Aborted(c)' <=> Aborted(c))
    BY <1>0, <1>1, ApKeeps
  <2>3. ~Parked(c)
    BY <1>1 DEF Parked
  <2>4. Works(c, Owner(c))' /\ State[c] = "Busy"
    <3>1. Owner(c)' = Owner(c)
      BY <2>2 DEF SameOwners
    <3> QED BY <1>1, <1>2, <2>1, <3>1 DEF Works, Parked
  <2>5. ApFits(c)'
    BY <1>1, <2>1, <2>2, <2>4 DEF ApFits, SameOwners
  <2> QED BY <1>1, <1>2, <1>3, <1>4, <1>5, <2>1, <2>3, <2>5, OutsideInv
<1>6. CASE c \notin Aps
  <2>1. Switching /\ c = BspNumber /\ c # arg.cpu /\ Leaving(c, arg.cpu) /\ apCtx[c] = arg.cpu
    BY <1>1, <1>6, SidePlace DEF Leaving
  <2>2. Aside' = Aside
    BY <1>1 DEF Aside, swVars
  <2>3. /\ State'[arg.cpu] = State[arg.cpu] /\ apPc'[arg.cpu] = apPc[arg.cpu]
        /\ apProc'[arg.cpu] = apProc[arg.cpu] /\ apCtx'[arg.cpu] = apCtx[arg.cpu]
    BY <1>0, <1>1, <2>1 DEF Typed, MpTypes, ArgSet
  <2>4. RoleFits'
    <3>1. CASE pc["main"] = "exchange"
      BY <1>1, <1>2, <2>1, <2>3, <3>1 DEF MpInv, RoleFits, Switching, OldStored, OldLoaded, Leaving, swVars
    <3>2. CASE pc["main"] = "switched"
      BY <1>1, <1>2, <2>1, <2>3, <3>2 DEF MpInv, RoleFits, Switching, OldLoaded, Leaving, swVars
    <3> QED BY <2>1, <3>1, <3>2 DEF Switching
  <2>5. OneBoots'
    BY <1>0, <1>1 DEF MpInv, OneBoots
  <2>6. arg.cpu \in Aside
    BY <2>1 DEF Aside, MpInv, RoleFits, Switching
  <2>7. \A p \in Aps \ {c} : SameAp(p)
    BY <1>3, <2>1, <2>6 DEF Aps
  <2> QED BY <1>1, <1>4, <1>6, <2>2, <2>4, <2>5, <2>7, ApInv
<1> QED BY <1>5, <1>6

\* ApProcWrapper() sets the State to Finished.
LEMMA ApFinishesInv ==
    ASSUME MpInv, Typed', NEW c \in Cpus, ApFinishes(c)
    PROVE  MpInv'
<1>0. Typed /\ apPc \in [Cpus -> ApPlaces] /\ State \in [Cpus -> CpuStates] /\ apProc \in [Cpus -> 0 .. MaxRequests + 1]
      /\ apCtx \in [Cpus -> Cpus]
  BY InvFacts DEF Typed, MpTypes
<1>1. /\ UNCHANGED <<Procedure, mApFunction, pc, cur, arg, Clock, all, swVars, req>>
      /\ apPc[c] = "fin"
      /\ apPc' = [apPc EXCEPT ![c] = "hlt"]
      /\ State' = [State EXCEPT ![ReloadedCtx(c)] = "Finished"]
      /\ apCtx' = [apCtx EXCEPT ![c] = ReloadedCtx(c)]
      /\ apProc' = [apProc EXCEPT ![c] = NULL]
  BY DEF ApFinishes, ApSection, bspVars
<1>2. ReloadedCtx(c) = c
  <2>1. CASE c \in Aps
    BY <1>1, <2>1, ApPlace DEF ReloadedCtx
  <2>2. CASE c \notin Aps
    BY <1>1, <2>2, SidePlace DEF ReloadedCtx, Leaving
  <2> QED BY <2>1, <2>2
<1>3. apPc'[c] = "hlt" /\ State'[c] = "Finished" /\ apCtx'[c] = c /\ apProc'[c] = NULL
  BY <1>0, <1>1, <1>2
<1>4. (\A p \in Cpus \ {c} : SameAp(p)) /\ ReqGrows(c)
  BY <1>0, <1>1, <1>2, SameReqGrows DEF SameAp
<1>5. CASE c \in Aps
  <2>1. ApFits(c) /\ ~Aborted(c) /\ Owner(c) # NULL /\ Works(c, Owner(c))
    BY <1>1, <1>5, ApPlace DEF MpInv, ApsFit
  <2>2. SameOwners /\ (Aborted(c)' <=> Aborted(c))
    BY <1>0, <1>1, ApKeeps
  <2>3. ~Parked(c)
    BY <1>1 DEF Parked
  <2>4. Works(c, Owner(c))'
    <3>1. Owner(c)' = Owner(c)
      BY <2>2 DEF SameOwners
    <3>2. c \in req[Owner(c)].done
      BY <1>1, <2>1 DEF Works, Parked
    <3> QED BY <1>1, <1>3, <3>1, <3>2 DEF Works
  <2>5. ApFits(c)'
    BY <1>1, <1>3, <2>1, <2>2, <2>4 DEF ApFits, SameOwners
  <2> QED BY <1>1, <1>3, <1>4, <1>5, <2>3, <2>5, OutsideInv
<1>6. CASE c \notin Aps
  <2>1. Switching /\ c = BspNumber /\ c # arg.cpu /\ Leaving(c, arg.cpu)
    BY <1>1, <1>6, SidePlace
  <2>2. Aside' = Aside
    BY <1>1 DEF Aside, swVars
  <2>3. SameAp(arg.cpu)
    BY <1>0, <1>4, <2>1 DEF Typed, MpTypes, ArgSet
  <2>a. NULL # FutureBSPProc
    BY <1>0, OwnerRange
  <2>4. RoleFits'
    <3>1. CASE pc["main"] = "exchange"
      BY <1>1, <1>3, <2>1, <2>3, <2>a, <3>1 DEF MpInv, RoleFits, Switching, OldStored, OldLoaded, Leaving, swVars, SameAp
    <3>2. CASE pc["main"] = "switched"
      BY <1>1, <1>3, <2>1, <2>3, <2>a, <3>2 DEF MpInv, RoleFits, Switching, OldLoaded, Leaving, swVars, SameAp
    <3> QED BY <2>1, <3>1, <3>2 DEF Switching
  <2>5. OneBoots'
    BY <1>0, <1>1 DEF MpInv, OneBoots
  <2>7. \A p \in Aps \ {c} : SameAp(p)
    BY <1>4 DEF Aps
  <2> QED BY <1>1, <1>4, <1>6, <2>2, <2>4, <2>5, <2>7, ApInv
<1> QED BY <1>5, <1>6

\* The role exchange
LEMMA ExchangeInv ==
    ASSUME MpInv, Typed', NEW c \in Cpus,
           BspLeaves(c) \/ ApLoads(c) \/ ApLeaves(c) \/ (BspLoads /\ c = bspCpu)
    PROVE  MpInv'
<1>0. Typed /\ apPc \in [Cpus -> ApPlaces] /\ apProc \in [Cpus -> 0 .. MaxRequests + 1] /\ apCtx \in [Cpus -> Cpus]
      /\ arg.cpu \in Cpus /\ BspNumber \in Cpus
  BY InvFacts DEF Typed, MpTypes, ArgSet
<1>1. /\ UNCHANGED <<State, Procedure, mApFunction, cur, arg, Clock, all, req, BspNumber>>
      /\ apPc[c] \in {"bspLoaded", "stored", "loaded", "bspStored"}
  BY DEF BspLeaves, ApLoads, ApLeaves, BspLoads, cpuData, swVars, bspVars
<1>2. c \notin Aps
  BY <1>1, ApPlace
<1>3. /\ \A p \in Cpus \ {c} : SameAp(p)
      /\ apPc'[c] \in {"clear", "loaded", "bsp", "bspLoaded"}
  BY <1>0, <1>1 DEF BspLeaves, ApLoads, ApLeaves, BspLoads, SameAp
<1>4. (\A p \in Aps \ {c} : SameAp(p)) /\ ReqGrows(c)
  BY <1>1, <1>3, SameReqGrows DEF Aps
<1>5. OneBoots'
  BY <1>3 DEF MpInv, OneBoots, SameAp
<1>6. CASE BspLeaves(c)
  <2>1. Switching /\ c = BspNumber /\ c # arg.cpu
    BY <1>2, <1>6, SidePlace DEF BspLeaves
  <2>2. /\ UNCHANGED <<bspCpu, BSPInfo, APInfo, pc, apCtx>> /\ BSPInfo = "LOADED"
        /\ apPc'[c] = "clear" /\ apProc'[c] = FutureBSPProc /\ apPc[c] = "bspLoaded"
    BY <1>0, <1>6 DEF BspLeaves, OtherLoaded, swVars, bspVars
  <2>3. SameAp(arg.cpu)
    BY <1>0, <1>3, <2>1
  <2>4. Aside' = Aside
    BY <1>1, <2>2 DEF Aside
  <2>5. RoleFits'
    <3>1. CASE pc["main"] = "exchange"
      BY <1>1, <2>1, <2>2, <2>3, <3>1 DEF MpInv, RoleFits, Switching, OldStored, OldLoaded, Leaving, SameAp
    <3>2. CASE pc["main"] = "switched"
      BY <1>1, <2>1, <2>2, <2>3, <3>2 DEF MpInv, RoleFits, Switching, OldLoaded, Leaving, SameAp
    <3> QED BY <2>1, <3>1, <3>2 DEF Switching
  <2> QED BY <1>1, <1>2, <1>4, <1>5, <2>2, <2>4, <2>5, ApInv
<1>7. CASE ApLoads(c)
  <2>1. pc["main"] = "exchange" /\ c = arg.cpu /\ c # BspNumber
    BY <1>2, <1>7, SidePlace DEF ApLoads
  <2>2. /\ UNCHANGED <<bspCpu, APInfo, pc, apCtx, apProc>> /\ BSPInfo = "STORED" /\ BSPInfo' = "LOADED"
        /\ apPc'[c] = "loaded" /\ apPc[c] = "stored"
    BY <1>0, <1>7 DEF ApLoads, bspVars
  <2>3. SameAp(BspNumber)
    BY <1>0, <1>3, <2>1
  <2>4. Aside' = Aside
    BY <1>1, <2>2 DEF Aside
  <2>5. RoleFits'
    BY <1>1, <2>1, <2>2, <2>3 DEF MpInv, RoleFits, Switching, OldStored, OldLoaded, Leaving, Entering, SameAp
  <2> QED BY <1>1, <1>2, <1>4, <1>5, <2>2, <2>4, <2>5, ApInv
<1>8. CASE ApLeaves(c)
  <2>1. pc["main"] = "exchange" /\ c = arg.cpu /\ c # BspNumber
    BY <1>2, <1>8, SidePlace DEF ApLeaves
  <2>2. /\ UNCHANGED <<BSPInfo, APInfo, apCtx>> /\ APInfo = "LOADED" /\ bspCpu' = c /\ LeavesExchange
        /\ apPc'[c] = "bsp" /\ apPc[c] = "loaded" /\ apProc'[c] = NULL
    BY <1>0, <1>8, <2>1 DEF ApLeaves, Goto, LeavesExchange
  <2>3. SameAp(BspNumber) /\ NULL # FutureBSPProc
    BY <1>0, <1>3, <2>1, OwnerRange
  <2>4. pc'["main"] = "switched"
    BY <1>0, <2>2 DEF LeavesExchange, Typed, MpTypes, Frames
  <2>5. Aside' = Aside
    BY <1>1, <2>1, <2>2, <2>4 DEF Aside, MpInv, RoleFits
  <2>6. RoleFits'
    BY <1>1, <2>1, <2>2, <2>3, <2>4 DEF MpInv, RoleFits, Switching, OldStored, OldLoaded, Leaving, Entering, SameAp
  <2> QED BY <1>1, <1>2, <1>4, <1>5, <2>2, <2>5, <2>6, ApInv
<1>9. CASE BspLoads /\ c = bspCpu
  <2>1. Switching /\ c = BspNumber /\ c # arg.cpu
    BY <1>2, <1>9, SidePlace DEF BspLoads
  <2>2. /\ UNCHANGED <<bspCpu, BSPInfo, pc, apProc>> /\ APInfo = "STORED" /\ APInfo' = "LOADED"
        /\ apPc'[c] = "bspLoaded" /\ apPc[c] = "bspStored" /\ apCtx'[c] = arg.cpu
    BY <1>0, <1>9 DEF BspLoads, bspVars
  <2>3. SameAp(arg.cpu)
    BY <1>0, <1>3, <2>1
  <2>4. Aside' = Aside
    BY <1>1, <2>2 DEF Aside
  <2>5. pc["main"] = "exchange"
    BY <2>1, <2>2 DEF MpInv, RoleFits, Switching, OldLoaded, Leaving
  <2>6. RoleFits'
    BY <1>1, <2>1, <2>2, <2>3, <2>5 DEF MpInv, RoleFits, Switching, OldStored, OldLoaded, Leaving, Entering, SameAp
  <2> QED BY <1>1, <1>2, <1>4, <1>5, <2>2, <2>4, <2>6, ApInv
<1> QED BY <1>6, <1>7, <1>8, <1>9

\* Every step of a processor keeps MpInv.
LEMMA ApStepInv ==
    ASSUME MpInv, Typed', NEW c \in Cpus, ApStep(c)
    PROVE  MpInv'
BY ApEntryInv, ApFetchesInv, ApRunsInv, ApClearsInv, ApFinishesInv, ExchangeInv DEF ApStep

-----------------------------------------------------------------------------
\* MpInv holds initially.
LEMMA MpInit == Init => MpInv
<1> SUFFICES ASSUME Init PROVE MpInv
  OBVIOUS
<1>0. Typed
  BY InitTyped
<1>1. /\ pc["main"] = "ready" /\ pc["cb"] = "off" /\ Frames = {"main", "cb"}
      /\ all.Clock.WaitEvent = NULL /\ \A p \in Cpus : Clock[p].WaitEvent = NULL
  BY NoClockType DEF Init, Frames
<1>2. AllReq = NULL /\ \A p \in Cpus : ~InAll(p) /\ ThisReq(p) = NULL /\ Owner(p) = NULL /\ ~Aborted(p)
  BY <1>1 DEF AllReq, InAll, ThisReq, Owner, MainAll, MainThis, Aborted
<1>3. CallsFit /\ OneBoots
  BY <1>1, <1>2 DEF Init, CallsFit, OneBoots, MainAll, MainThis
<1>4. RoleFits
  <2>1. 0 \in Cpus /\ FutureBSPProc # NULL
    BY <1>0, CpusFinite, OwnerRange
  <2> QED BY <1>1, <2>1 DEF Init, RoleFits, Switching
<1>5. Aside = {0} /\ 0 \in Cpus
  BY <1>1, CpusFinite DEF Init, Aside
<1>6. Unowned
  BY <1>2, <1>5 DEF Unowned
<1>7. ApsFit
  <2> SUFFICES ASSUME NEW p \in Aps PROVE ApFits(p)
    BY DEF ApsFit
  <2>1. p \in Cpus /\ p # 0
    BY <1>5 DEF Aps
  <2>2. State[p] = "Idle" /\ apPc[p] = "hlt" /\ apCtx[p] = p
    BY <2>1 DEF Init
  <2> QED BY <1>2, <2>1, <2>2 DEF ApFits, Parked
<1>8. ThisFits /\ AllCounts /\ TurnsFit /\ WakeFits
  BY <1>1, <1>2 DEF ThisFits, AllCounts, TurnsFit, WakeFits
<1>9. EndedAccounted
  BY DEF Init, EndedAccounted
<1> QED BY <1>0, <1>3, <1>4, <1>6, <1>7, <1>8, <1>9 DEF MpInv, Typed

\* The loops of CheckAllAPs() and CheckThisAP().
AllLoop == {"all", "allEnd", "allInit"}
ThisLoop == {"this", "thisTime"}

\* A thread goes on and touches nothing but clocks.
LEMMA MoveInv ==
    ASSUME MpInv, Typed', NEW f \in Frames, NEW place,
           UNCHANGED <<State, Procedure, mApFunction, apVars, swVars, req, arg>>,
           pc' = [pc EXCEPT ![f] = place],
           pc[f] \notin {"wake", "save", "allIdle", "thisIdle", "exchange", "switched"},
           place \notin {"wake", "save", "allIdle", "thisIdle", "exchange", "switched"},
           f = "main" => /\ pc[f] \in AllLoop <=> place \in AllLoop
                         /\ pc[f] \in ThisLoop <=> place \in ThisLoop,
           \A g \in Frames \ {f} : cur'[g] = cur[g],
           f = "main" /\ pc[f] \in ThisLoop => cur' = cur,
           pc[f] = "allInit" => place = "allInit",
           place = "exitWait" => all.Clock.WaitEvent = NULL,
           all'.CpuList = all.CpuList, all'.StartCount = all.StartCount,
           all'.FinishCount = all.FinishCount, all'.Procedure = all.Procedure,
           all'.SingleThread <=> all.SingleThread,
           all'.Clock.WaitEvent = all.Clock.WaitEvent,
           \A q \in Cpus : Clock'[q].WaitEvent = Clock[q].WaitEvent
    PROVE  MpInv'
<1>0. Typed /\ Aside \subseteq Cpus /\ Aps \subseteq Cpus /\ pc \in [Frames -> MainPlaces \cup CbPlaces]
      /\ Frames = {"main", "cb"}
  BY InvFacts, TypedFacts DEF Aps, Typed, MpTypes
<1>1. pc'[f] = place /\ \A g \in Frames \ {f} : pc'[g] = pc[g]
  BY <1>0
<1>2. /\ MainAll' <=> MainAll
      /\ MainThis' <=> MainThis
      /\ pc'["main"] \in {"wake", "save"} \/ pc["main"] \in {"wake", "save"} =>
            pc'["main"] = pc["main"] /\ cur'["main"] = cur["main"]
      /\ MainThis => cur'["main"] = cur["main"]
  <2>1. CASE f = "main"
    BY <1>1, <2>1 DEF MainAll, MainThis, AllLoop, ThisLoop
  <2>2. CASE f # "main"
    BY <1>0, <1>1, <2>2 DEF MainAll, MainThis
  <2> QED BY <2>1, <2>2
<1>3. SameOwners
  BY <1>2 DEF SameOwners, AllReq, InAll, ThisReq, Owner
<1>4. \A p \in Cpus : Aborted(p)' <=> Aborted(p)
  BY <1>0, <1>1 DEF Aborted
<1>5. Resetting => Resetting'
  BY <1>0, <1>1 DEF Resetting
<1>6. CallsFit'
  <2>1. pc'["main"] = "exitWait" => all.Clock.WaitEvent = NULL
    BY <1>0, <1>1 DEF MpInv, CallsFit
  <2>2. \A g \in Frames : pc'[g] = "allIdle" => pc[g] = "allIdle" /\ cur'[g] = cur[g]
    BY <1>1
  <2>3. MainThis' => Clock'[cur'["main"]].WaitEvent = NULL
    <3>1. MainThis => cur["main"] \in Cpus
      BY <1>0 DEF Typed, ThreadsFit
    <3> QED BY <1>2, <3>1 DEF MpInv, CallsFit
  <2> QED BY <1>2, <1>3, <2>1, <2>2, <2>3 DEF MpInv, CallsFit, SameOwners
<1>7. RoleFits' /\ Aside' = Aside
  <2>1. \A c \in Aside : SameAp(c)
    BY DEF SameAp, apVars
  <2>2. pc'["main"] = pc["main"] \/ (~Switching /\ ~Switching')
    BY <1>0, <1>1 DEF Switching
  <2> QED BY <1>0, <2>1, <2>2, RoleFrame DEF MpInv
<1>8. OneBoots' /\ Aps' = Aps
  BY <1>7 DEF MpInv, OneBoots, Aps, apVars
<1>9. Unowned'
  BY <1>0, <1>3, <1>7 DEF MpInv, Unowned, SameOwners
<1>10. ApsFit'
  <2> SUFFICES ASSUME NEW p \in Aps PROVE ApFits(p)'
    BY <1>8 DEF ApsFit
  <2>1. p \in Cpus /\ ApFits(p) /\ SameAp(p) /\ SameReq(p)
    BY <1>0 DEF MpInv, ApsFit, SameAp, SameReq, apVars
  <2> QED BY <1>3, <1>4, <2>1, ApFrame DEF SameOwners
<1>11. ThisFits'
  BY <1>3 DEF MpInv, ThisFits, SameOwners
<1>12. AllCounts'
  BY <1>3, <1>5 DEF MpInv, AllCounts, SameOwners
<1>13. TurnsFit'
  <2>1. \A p \in all.CpuList : p \in Cpus
    BY <1>0, TypedFacts
  <2> QED BY <1>3, <2>1 DEF MpInv, TurnsFit, SameOwners, Parked, apVars
<1>14. WakeFits'
  BY <1>2, <1>7 DEF MpInv, WakeFits
<1>15. EndedAccounted'
  BY DEF MpInv, EndedAccounted
<1> QED BY <1>6, <1>7, <1>8, <1>9, <1>10, <1>11, <1>12, <1>13, <1>14, <1>15 DEF MpInv, Typed

-----------------------------------------------------------------------------
\* What a thread in CheckAllAPs() is about.
LEMMA AllReqIs ==
    ASSUME MpInv, NEW f \in Frames, pc[f] \in {"all", "allEnd", "allInit", "allIdle"}
    PROVE  /\ AllReq = AllRequest(f) /\ AllReq \in 1 .. Len(req) /\ AllReq # NULL
           /\ pc["main"] \notin {"wake", "save"}
           /\ f = "cb" => ~MainAll /\ pc["main"] # "exitWait"
           /\ f = "main" => MainAll /\ ~MainThis /\ all.Clock.WaitEvent = NULL
           /\ \A p \in Cpus : InAll(p) <=> p \in all.CpuList
           /\ all.Procedure = AllReq /\ (all.SingleThread <=> req[AllReq].single)
<1>0. Typed
  BY InvFacts
<1>1. AllRequest(f) \in 1 .. Len(req)
  BY <1>0, AllRequestType
<1>2. AllRequest(f) # NULL
  BY <1>0, <1>1, TypedFacts DEF NULL
<1>3. CASE f = "main"
  BY <1>1, <1>2, <1>3 DEF AllReq, AllRequest, MainAll, MainThis, InAll, MpInv, CallsFit
<1>4. CASE f = "cb"
  <2>1. all.Clock.WaitEvent # NULL
    BY <1>2, <1>4 DEF AllRequest
  <2>2. ~MainAll /\ pc["main"] # "exitWait"
    BY <2>1 DEF MpInv, CallsFit
  <2> QED BY <1>1, <1>2, <1>4, <2>2 DEF AllReq, AllRequest, MainAll, InAll, MpInv, CallsFit
<1> QED BY <1>3, <1>4 DEF Frames

\* What a thread in CheckThisAP() is about.
LEMMA ThisReqIs ==
    ASSUME MpInv, NEW f \in Frames, pc[f] \in {"this", "thisTime", "thisIdle"}
    PROVE  /\ cur[f] \in Cpus /\ cur[f] \in Aps
           /\ ThisReq(cur[f]) = ThisRequest(f) /\ ThisRequest(f) \in 1 .. Len(req) /\ ThisRequest(f) # NULL
           /\ ~InAll(cur[f]) /\ Owner(cur[f]) = ThisRequest(f)
           /\ f = "cb" => ~(MainThis /\ cur["main"] = cur["cb"])
           /\ f = "main" => MainThis /\ ~MainAll
<1>0. Typed
  BY InvFacts
<1>1. cur[f] \in Cpus /\ ThisRequest(f) \in 1 .. Len(req)
  BY <1>0, ThisRequestType
<1>2. ThisRequest(f) # NULL
  BY <1>0, <1>1, TypedFacts DEF NULL
<1>3. f = "main" => MainThis /\ ~MainAll
  BY DEF MainThis, MainAll
<1>4. f = "cb" => ~(MainThis /\ cur["main"] = cur["cb"])
  BY <1>2 DEF ThisRequest, MpInv, CallsFit
<1>5. ThisReq(cur[f]) = ThisRequest(f)
  BY <1>3, <1>4 DEF Frames, ThisReq, ThisRequest
<1>6. cur[f] \in Aps
  BY <1>1, <1>2, <1>5 DEF MpInv, Unowned, Aps
<1>7. ~InAll(cur[f])
  BY <1>2, <1>5, <1>6 DEF MpInv, ApsFit, ApFits
<1> QED BY <1>1, <1>2, <1>3, <1>4, <1>5, <1>6, <1>7 DEF Owner

\* The timer notification starts.
LEMMA CheckAPsStatusInv ==
    ASSUME MpInv, Typed', CheckAPsStatus
    PROVE  MpInv'
<1>0. Typed /\ cur \in [Frames -> Nat] /\ Frames = {"main", "cb"}
  BY InvFacts, TypedFacts DEF Typed, MpTypes
<1> DEFINE place == IF all.Clock.WaitEvent # NULL THEN "all" ELSE "scan"
<1>1. /\ UNCHANGED <<State, Procedure, Clock, all, mApFunction, apVars, swVars, req, arg>>
      /\ pc["cb"] = "off" /\ pc' = [pc EXCEPT !["cb"] = place] /\ cur' = [cur EXCEPT !["cb"] = 0]
  BY DEF CheckAPsStatus, GotoAt, Goto, cpuData
<1>2. place \in {"all", "scan"}
  OBVIOUS
<1> HIDE DEF place
<1>3. cur'["main"] = cur["main"]
  BY <1>0, <1>1
<1> QED BY <1>0, <1>1, <1>2, <1>3, MoveInv

\* The notification goes on to the next pending StartupThisAP().
LEMMA ScanThisAPsInv ==
    ASSUME MpInv, Typed', ScanThisAPs
    PROVE  MpInv'
<1>0. Typed /\ cur \in [Frames -> Nat] /\ Frames = {"main", "cb"}
  BY InvFacts, TypedFacts DEF Typed, MpTypes
<1>1. /\ UNCHANGED <<State, Procedure, Clock, all, mApFunction, apVars, swVars, req, arg>>
      /\ pc["cb"] = "scan"
  BY DEF ScanThisAPs, cpuData, At
<1>2. PICK place, q : /\ place \in {"off", "this"}
                      /\ pc' = [pc EXCEPT !["cb"] = place]
                      /\ cur' = [cur EXCEPT !["cb"] = q]
  BY DEF ScanThisAPs, GotoAt, Goto
<1>3. cur'["main"] = cur["main"]
  BY <1>0, <1>2
<1> QED BY <1>0, <1>1, <1>2, <1>3, MoveInv

\* ExitBootServices() begins.
LEMMA ExitBootServicesInv ==
    ASSUME CarefulCallers, MpInv, Typed', ExitBootServices
    PROVE  MpInv'
<1>0. Typed /\ Frames = {"main", "cb"}
  BY InvFacts, TypedFacts
<1>1. /\ UNCHANGED <<State, Procedure, Clock, all, mApFunction, apVars, swVars, req, arg, cur>>
      /\ pc["main"] = "ready" /\ pc' = [pc EXCEPT !["main"] = "exitWait"]
      /\ all.Clock.WaitEvent = NULL
  BY DEF ExitBootServices, cpuData, At, Goto, Pending
<1> QED BY <1>0, <1>1, MoveInv DEF AllLoop, ThisLoop

-----------------------------------------------------------------------------
\* StartupThisAP() ends: its processor is parked and marked idle.
LEMMA ThisReturnsInv ==
    ASSUME MpInv, Typed', NEW f \in Frames, pc[f] \in {"this", "thisIdle"}, Runs(f),
           NEW status \in {"SUCCESS", "TIMEOUT"}, NEW failed \in SUBSET Cpus,
           State' = [State EXCEPT ![cur[f]] = "Idle"],
           ThisReturns(f, status, failed),
           UNCHANGED <<Procedure, all, mStopCheckAPsStatus, mApFunction, swVars, apVars>>,
           Parked(cur[f]),
           {cur[f]} \ failed \subseteq req[ThisRequest(f)].done,
           status = "SUCCESS" => failed = {}
    PROVE  MpInv'
<1>p. PICK p \in Cpus : p = cur[f]
  BY ThisReqIs
<1> DEFINE r == ThisRequest(f)
           new == EndedRec(req[r], status, failed, Clock[p])
<1>0. /\ Typed /\ Aside \subseteq Cpus /\ Aps \subseteq Cpus /\ Frames = {"main", "cb"}
      /\ pc \in [Frames -> MainPlaces \cup CbPlaces] /\ cur \in [Frames -> Nat]
      /\ State \in [Cpus -> CpuStates]
  BY InvFacts, TypedFacts DEF Aps, Typed, MpTypes
<1>1. /\ p \in Cpus /\ p \in Aps /\ ThisReq(p) = r /\ r \in 1 .. Len(req) /\ r # NULL
      /\ ~InAll(p)
  BY <1>p, ThisReqIs
<1>1a. f = "cb" => ~(MainThis /\ cur["main"] = p)
  BY <1>p, ThisReqIs
<1>1b. f = "main" => MainThis /\ ~MainAll
  BY ThisReqIs
<1>2. /\ Clock' = [Clock EXCEPT ![p] = StopClock(@)]
      /\ req' = Ended(r, status, failed, Clock[p])
      /\ IF f = "main" THEN MainReturns ELSE GotoAt(f, "scan", p + 1) /\ UNCHANGED arg
  BY <1>p DEF ThisReturns, ThisRequest
<1>3. /\ req \in Seq(ReqSet) /\ status \in Statuses /\ Clock \in [Cpus -> ClockSet]
  BY <1>0, TypedFacts DEF Statuses
<1>4. /\ Replaced(r, new)
      /\ new.status = status /\ new.failed = failed /\ new.cpus = req[r].cpus
      /\ new.done = req[r].done
  BY <1>1, <1>2, <1>3, EndedFact
<1>5. \A q \in Cpus : Clock'[q].WaitEvent = IF q = p THEN NULL ELSE Clock[q].WaitEvent
  <2>1. StopClock(Clock[p]).WaitEvent = NULL
    BY DEF StopClock, NoClock
  <2> QED BY <1>1, <1>2, <1>3, <2>1
<1> HIDE DEF new
<1>6. /\ pc'["cb"] = IF f = "cb" THEN "scan" ELSE "off"
      /\ IF f = "main" THEN pc'["main"] \in {"exited", "ready"} ELSE pc'["main"] = pc["main"] /\ arg' = arg
      /\ f = "cb" => cur'["main"] = cur["main"]
      /\ f = "main" => pc["cb"] = "off"
  <2>1. CASE f = "main"
    <3>1. MainReturns /\ PcTypes /\ pc["cb"] = "off"
      BY <1>0, <1>2, <2>1, TypesSplit DEF Typed, Runs
    <3> QED BY <2>1, <3>1, MainReturnsTypes
  <2>2. CASE f = "cb"
    BY <1>0, <1>2, <2>2 DEF GotoAt, Goto
  <2> QED BY <1>0, <2>1, <2>2
<1> HIDE DEF r
<1>7. /\ ~MainThis' \/ (f = "cb" /\ MainThis /\ cur'["main"] = cur["main"] /\ arg' = arg /\ cur["main"] # p)
      /\ IF f = "main" THEN ~MainAll /\ ~MainAll' ELSE MainAll' <=> MainAll
      /\ f = "cb" => (MainThis' <=> MainThis)
  <2>1. f = "main" => ~MainThis' /\ ~MainAll'
    BY <1>6 DEF MainThis, MainAll
  <2>2. f = "cb" => (MainThis' <=> MainThis) /\ (MainAll' <=> MainAll)
    BY <1>6 DEF MainThis, MainAll
  <2> QED BY <1>0, <1>1a, <1>1b, <1>6, <2>1, <2>2
<1>7a. f = "main" => cur["main"] = p
  BY <1>p
<1>8. AllReq' = AllReq /\ \A q \in Cpus : InAll(q)' <=> InAll(q)
  <2>1. CASE f = "main"
    BY <1>1b, <1>6, <1>7, <2>1 DEF AllReq, InAll, MainAll
  <2>2. CASE f = "cb"
    BY <1>6, <1>7, <2>2 DEF AllReq, InAll
  <2> QED BY <1>0, <2>1, <2>2
<1>9. ThisReq(p)' = NULL
  BY <1>1, <1>5, <1>7 DEF ThisReq
<1>10. \A q \in Cpus \ {p} : ThisReq(q)' = ThisReq(q) /\ Owner(q)' = Owner(q)
  <2>1. \A q \in Cpus \ {p} : ThisReq(q)' = ThisReq(q)
    <3>1. CASE f = "main"
      BY <1>5, <1>7, <1>7a, <3>1 DEF ThisReq
    <3>2. CASE f = "cb"
      BY <1>5, <1>6, <1>7, <3>2 DEF ThisReq
    <3> QED BY <1>0, <3>1, <3>2
  <2> QED BY <1>8, <2>1 DEF Owner
<1>11. AllReq # r /\ \A q \in Cpus \ {p} : ThisReq(q) # r /\ Owner(q) # r
  <2>1. AllReq # r
    BY <1>1 DEF MpInv, CallsFit
  <2>2. \A q \in Cpus \ {p} : ThisReq(q) # r
    <3>1. req[r].cpus = {p}
      BY <1>1 DEF MpInv, ThisFits
    <3>2. \A q \in Cpus : ThisReq(q) = r => req[r].cpus = {q}
      BY <1>1 DEF MpInv, ThisFits
    <3> QED BY <3>1, <3>2
  <2> QED BY <2>1, <2>2 DEF Owner
<1>12. \A s \in 1 .. Len(req) : s # r => req'[s] = req[s]
  BY <1>4 DEF Replaced
<1>13. /\ AllReq # NULL => AllReq \in 1 .. Len(req) /\ req'[AllReq] = req[AllReq]
       /\ \A q \in Cpus \ {p} : ThisReq(q) # NULL => req'[ThisReq(q)] = req[ThisReq(q)]
       /\ \A q \in Cpus \ {p} : Owner(q) # NULL => req'[Owner(q)] = req[Owner(q)]
  <2>1. \A q \in Cpus : /\ AllReq \in 0 .. Len(req) /\ ThisReq(q) \in 0 .. Len(req) /\ Owner(q) \in 0 .. Len(req)
    BY <1>0, OwnerRange
  <2>2. Len(req) \in Nat
    BY <1>0, TypedFacts
  <2> QED BY <1>1, <1>11, <1>12, <2>1, <2>2 DEF NULL
<1>14. (Resetting' <=> Resetting) /\ \A q \in Cpus \ {p} : Aborted(q)' <=> Aborted(q)
  <2>1. CASE f = "main"
    BY <1>0, <1>6, <1>7a, <2>1 DEF Resetting, Aborted
  <2>2. CASE f = "cb"
    <3>1. pc'["cb"] = "scan" /\ pc["cb"] \in {"this", "thisIdle"} /\ pc'["main"] = pc["main"] /\ cur'["main"] = cur["main"]
          /\ cur["cb"] = p
      BY <1>p, <1>6, <2>2
    <3> QED BY <1>0, <3>1 DEF Resetting, Aborted
  <2> QED BY <1>0, <2>1, <2>2
<1>15. CallsFit'
  <2>1. MainAll' \/ pc'["main"] = "exitWait" => all'.Clock.WaitEvent = NULL
    BY <1>0, <1>6, <1>7 DEF MpInv, CallsFit
  <2>2. MainThis' => Clock'[cur'["main"]].WaitEvent = NULL
    <3>1. MainThis => cur["main"] \in Cpus
      BY <1>0 DEF Typed, ThreadsFit
    <3> QED BY <1>5, <1>7, <3>1 DEF MpInv, CallsFit
  <2>3. \A g \in Frames : pc'[g] = "allIdle" => cur'[g] \in all'.CpuList
    BY <1>0, <1>6 DEF MpInv, CallsFit
  <2>4. pc'["main"] \notin {"wake", "save"}
    <3>1. pc["main"] \in {"wake", "save"} => pc["cb"] = "off"
      BY <1>0 DEF Typed, ThreadsFit
    <3> QED BY <1>0, <1>6, <3>1
  <2>5. AllReq' # NULL =>
          /\ all'.Procedure = AllReq' /\ (all'.SingleThread <=> req'[AllReq'].single)
          /\ \A q \in Cpus : ThisReq(q)' # AllReq'
    <3> SUFFICES ASSUME AllReq # NULL
                 PROVE  /\ all.Procedure = AllReq /\ (all.SingleThread <=> req'[AllReq].single)
                        /\ \A q \in Cpus : ThisReq(q)' # AllReq
      BY <1>8
    <3>1. pc["main"] \notin {"wake", "save"}
      <4>1. pc["main"] \in {"wake", "save"} => pc["cb"] = "off"
        BY <1>0 DEF Typed, ThreadsFit
      <4> QED BY <1>0, <4>1
    <3> QED BY <1>9, <1>10, <1>13, <3>1 DEF MpInv, CallsFit
  <2> QED BY <2>1, <2>2, <2>3, <2>4, <2>5 DEF CallsFit
<1>16. \A q \in Cpus \ {p} : SameAp(q)
  BY <1>p, <1>0 DEF SameAp, apVars
<1>17. RoleFits' /\ Aside' = Aside
  <2>1. \A c \in Aside : SameAp(c)
    BY <1>0, <1>1, <1>16 DEF Aps
  <2>2. pc'["main"] = pc["main"] \/ (~Switching /\ ~Switching')
    BY <1>0, <1>6 DEF Switching
  <2>3. Switching => arg' = arg
    BY <1>0, <1>6 DEF Switching
  <2> QED BY <1>0, <2>1, <2>2, <2>3, RoleFrame DEF MpInv
<1>18. OneBoots' /\ Aps' = Aps
  BY <1>17 DEF MpInv, OneBoots, Aps, apVars
<1>19. Unowned'
  <2>1. p \notin Aside
    BY <1>1 DEF Aps
  <2> QED BY <1>0, <1>8, <1>10, <1>17, <2>1 DEF MpInv, Unowned
<1>20. ApsFit'
  <2> SUFFICES ASSUME NEW q \in Aps PROVE ApFits(q)'
    BY <1>18 DEF ApsFit
  <2>0. q \in Cpus /\ ApFits(q)
    BY <1>0 DEF MpInv, ApsFit
  <2>1. CASE q = p
    <3>1. State'[p] = "Idle" /\ Parked(p)' /\ apCtx'[p] = p
      BY <1>p, <1>0, <1>1, <2>0, <2>1 DEF Parked, apVars, ApFits
    <3>2. ~InAll(p)' /\ Owner(p)' = NULL
      BY <1>1, <1>8, <1>9 DEF Owner
    <3> QED BY <1>9, <2>1, <3>1, <3>2 DEF ApFits
  <2>2. CASE q # p
    <3>1. SameAp(q) /\ SameReq(q)
      BY <1>13, <1>16, <2>0, <2>2 DEF SameReq
    <3> QED BY <1>8, <1>10, <1>14, <2>0, <2>2, <3>1, ApFrame
  <2> QED BY <2>1, <2>2
<1>21. ThisFits'
  <2> SUFFICES ASSUME NEW q \in Cpus, ThisReq(q)' # NULL
               PROVE  /\ req'[ThisReq(q)'].status = "open" /\ req'[ThisReq(q)'].cpus = {q}
                      /\ ~req'[ThisReq(q)'].single /\ req'[ThisReq(q)'].failed = {}
    BY DEF ThisFits
  <2>1. q # p /\ ThisReq(q)' = ThisReq(q) /\ req'[ThisReq(q)] = req[ThisReq(q)]
    BY <1>9, <1>10, <1>13
  <2> QED BY <2>1 DEF MpInv, ThisFits
<1>22. AllCounts'
  BY <1>8, <1>13, <1>14 DEF MpInv, AllCounts
<1>23. TurnsFit'
  <2>1. \A q \in all.CpuList : q \in Cpus
    BY <1>0, TypedFacts
  <2>2. \A q \in all.CpuList : InAll(q) => State'[q] = State[q]
    BY <1>p, <1>0, <1>1, <2>1
  <2> QED BY <1>8, <1>13, <2>1, <2>2 DEF MpInv, TurnsFit, Parked, apVars
<1>24. WakeFits'
  <2>1. pc["main"] = "wake" => pc["cb"] = "off"
    BY <1>0 DEF Typed, ThreadsFit
  <2> QED BY <1>0, <1>6, <2>1 DEF WakeFits
<1>25. EndedAccounted'
  <2>0. DOMAIN req' = 1 .. Len(req) /\ DOMAIN req = 1 .. Len(req)
    BY <1>3, <1>4 DEF Replaced
  <2>1. req'[r] = new /\ req[r].cpus = {p}
    BY <1>1, <1>4 DEF Replaced, MpInv, ThisFits
  <2>2. {p} \ failed \subseteq req[r].done
    BY <1>p DEF r
  <2>3. new.cpus \ new.failed \subseteq new.done /\ (new.status = "SUCCESS" => new.failed = {})
    BY <1>4, <2>1, <2>2
  <2> QED BY <1>12, <2>0, <2>1, <2>3 DEF MpInv, EndedAccounted
<1> QED BY <1>15, <1>17, <1>18, <1>19, <1>20, <1>21, <1>22, <1>23, <1>24, <1>25 DEF MpInv, Typed

-----------------------------------------------------------------------------
\* The processor a thread looks at was not aborted by the other thread.
LEMMA NotAborted ==
    ASSUME MpInv, NEW f \in Frames, Runs(f), NEW p \in Cpus,
           \/ pc[f] \in ThisLoop /\ p = cur[f]
           \/ pc[f] \in AllLoop /\ p \in all.CpuList
    PROVE  ~Aborted(p) /\ p \in Aps /\ Owner(p) # NULL /\ ApFits(p)
<1>1. p \in Aps /\ Owner(p) # NULL /\ (pc[f] \in ThisLoop => ~InAll(p) /\ ThisReq(p) # NULL)
      /\ (pc[f] \in AllLoop => InAll(p))
  <2>1. CASE pc[f] \in ThisLoop
    BY <2>1, ThisReqIs DEF ThisLoop, AllLoop
  <2>2. CASE pc[f] \in AllLoop
    <3>1. InAll(p) /\ AllReq # NULL
      BY <2>2, AllReqIs DEF ThisLoop, AllLoop
    <3> QED BY <2>2, <3>1 DEF MpInv, Unowned, Aps, Owner, ThisLoop, AllLoop
  <2> QED BY <2>1, <2>2
<1>2. ApFits(p)
  BY <1>1 DEF MpInv, ApsFit
<1>3. ASSUME f = "cb", pc["main"] = "allIdle", cur["main"] = p PROVE FALSE
  <2>1. "main" \in Frames /\ p \in all.CpuList
    BY <1>3 DEF MpInv, CallsFit, Frames
  <2>2. InAll(p) /\ MainAll
    BY <1>3, <2>1, AllReqIs
  <2>3. pc[f] \notin AllLoop
    BY <1>3, <2>2, AllReqIs DEF AllLoop
  <2> QED BY <1>1, <2>2, <2>3
<1>4. ASSUME f = "cb", pc["main"] = "thisIdle", cur["main"] = p PROVE FALSE
  <2>1. "main" \in Frames
    BY DEF Frames
  <2>2. MainThis /\ ThisReq(p) # NULL
    BY <1>4, <2>1, ThisReqIs
  <2>3. ~InAll(p)
    BY <1>2, <2>2 DEF ApFits
  <2>4. pc[f] \in ThisLoop /\ p = cur["cb"]
    BY <1>1, <1>4, <2>3
  <2> QED BY <1>4, <2>2, <2>4, ThisReqIs DEF ThisLoop
<1>5. ~Aborted(p)
  <2>1. f = "main" => pc["cb"] = "off"
    BY DEF Runs
  <2> QED BY <1>3, <1>4, <2>1 DEF Aborted, Frames, AllLoop, ThisLoop
<1> QED BY <1>1, <1>2, <1>5

\* CheckThisAP() looks at the State.
LEMMA CheckThisStateInv ==
    ASSUME MpInv, Typed', NEW f \in Frames, CheckThisState(f)
    PROVE  MpInv'
<1>0. Typed /\ cur \in [Frames -> Nat] /\ Frames = {"main", "cb"}
  BY InvFacts, TypedFacts DEF Typed, MpTypes
<1>1. /\ pc[f] = "this" /\ Runs(f)
      /\ UNCHANGED <<Procedure, all, mStopCheckAPsStatus, mApFunction, swVars, apVars>>
  BY DEF CheckThisState, At
<1>2. CASE State[cur[f]] = "Finished"
  <2>1. /\ State' = [State EXCEPT ![cur[f]] = "Idle"]
        /\ ThisReturns(f, "SUCCESS", {})
    BY <1>2 DEF CheckThisState
  <2>2. cur[f] \in Cpus /\ Owner(cur[f]) = ThisRequest(f)
    BY <1>1, ThisReqIs
  <2>3. ~Aborted(cur[f]) /\ ApFits(cur[f])
    BY <1>1, <2>2, NotAborted DEF ThisLoop
  <2>4. Works(cur[f], ThisRequest(f))
    BY <1>2, <2>2, <2>3 DEF ApFits
  <2>5. Parked(cur[f]) /\ {cur[f]} \ {} \subseteq req[ThisRequest(f)].done
    BY <1>2, <2>4 DEF Works, Parked
  <2>6. {} \in SUBSET Cpus /\ "SUCCESS" \in {"SUCCESS", "TIMEOUT"}
    OBVIOUS
  <2>7. pc[f] \in {"this", "thisIdle"}
    BY <1>1
  <2> QED BY <1>1, <2>1, <2>5, <2>6, <2>7, ThisReturnsInv
<1>3. CASE State[cur[f]] # "Finished"
  <2>1. /\ UNCHANGED <<State, Clock, req, cur, arg>>
        /\ pc' = [pc EXCEPT ![f] = "thisTime"]
    BY <1>3 DEF CheckThisState, Goto
  <2> QED BY <1>0, <1>1, <2>1, MoveInv DEF AllLoop, ThisLoop
<1> QED BY <1>2, <1>3

\* CheckThisAP() marks the aborted processor idle.
LEMMA CheckThisIdleInv ==
    ASSUME MpInv, Typed', NEW f \in Frames, CheckThisIdle(f)
    PROVE  MpInv'
<1>1. /\ pc[f] = "thisIdle" /\ Runs(f)
      /\ UNCHANGED <<Procedure, all, mStopCheckAPsStatus, mApFunction, swVars, apVars>>
      /\ State' = [State EXCEPT ![cur[f]] = "Idle"]
      /\ ThisReturns(f, "TIMEOUT", {cur[f]})
  BY DEF CheckThisIdle, At
<1>2. cur[f] \in Cpus /\ cur[f] \in Aps
  BY <1>1, ThisReqIs
<1>3. Aborted(cur[f]) /\ ApFits(cur[f])
  BY <1>1, <1>2 DEF Aborted, MpInv, ApsFit
<1>4. Parked(cur[f]) /\ {cur[f]} \in SUBSET Cpus
  BY <1>2, <1>3 DEF ApFits
<1> QED BY <1>1, <1>4, ThisReturnsInv

\* ResetProcessorToIdleState() sends the INIT.
LEMMA AbortInv ==
    ASSUME PromptAPs, MpInv, Typed', NEW f \in Frames, Runs(f), NEW p \in Cpus,
           \/ /\ pc[f] = "thisTime" /\ p = cur[f]
              /\ pc' = [pc EXCEPT ![f] = "thisIdle"] /\ cur' = cur
           \/ /\ pc[f] = "allInit" /\ p \in all.CpuList
              /\ pc' = [pc EXCEPT ![f] = "allIdle"] /\ cur' = [cur EXCEPT ![f] = p],
           AbortAp(p), UNCHANGED <<State, Procedure, all, swVars, arg, req>>,
           \A q \in Cpus : Clock'[q].WaitEvent = Clock[q].WaitEvent
    PROVE  MpInv'
<1>0. /\ Typed /\ Aside \subseteq Cpus /\ Aps \subseteq Cpus /\ pc \in [Frames -> MainPlaces \cup CbPlaces]
      /\ Frames = {"main", "cb"} /\ cur \in [Frames -> Nat]
      /\ apPc \in [Cpus -> ApPlaces] /\ apProc \in [Cpus -> 0 .. MaxRequests + 1] /\ apCtx \in [Cpus -> Cpus]
  BY InvFacts, TypedFacts DEF Aps, Typed, MpTypes
<1>a. p \in Aps /\ Owner(p) # NULL /\ ApFits(p)
  BY NotAborted DEF AllLoop, ThisLoop
<1>b. pc["main"] \in {"wake", "save"} => pc["cb"] = "off"
  BY <1>0 DEF Typed, ThreadsFit
<1>1. /\ IF pc[f] = "thisTime" THEN pc'[f] = "thisIdle" ELSE pc[f] = "allInit" /\ pc'[f] = "allIdle"
      /\ cur'[f] = p
      /\ \A g \in Frames \ {f} : pc'[g] = pc[g] /\ cur'[g] = cur[g]
  BY <1>0
<1>2. /\ MainAll' <=> MainAll
      /\ MainThis' <=> MainThis
      /\ pc'["main"] \notin {"wake", "save"} /\ pc["main"] \notin {"wake", "save"}
      /\ MainThis => cur'["main"] = cur["main"]
  <2>1. CASE f = "main"
    BY <1>1, <2>1 DEF MainAll, MainThis
  <2>2. CASE f # "main"
    BY <1>0, <1>b, <1>1, <2>2 DEF MainAll, MainThis
  <2> QED BY <2>1, <2>2
<1>3. SameOwners
  BY <1>2 DEF SameOwners, AllReq, InAll, ThisReq, Owner
<1>4. Aborted(p)' /\ \A q \in Cpus \ {p} : Aborted(q)' <=> Aborted(q)
  <2>1. Aborted(p)'
    BY <1>1 DEF Aborted
  <2>2. \A q \in Cpus \ {p} : Aborted(q)' <=> Aborted(q)
    BY <1>0, <1>1 DEF Aborted
  <2> QED BY <2>1, <2>2
<1>5. Resetting => Resetting'
  BY <1>0, <1>1 DEF Resetting
<1>6. CallsFit'
  <2>1. pc'["main"] = "exitWait" => all.Clock.WaitEvent = NULL
    BY <1>0, <1>1 DEF MpInv, CallsFit
  <2>2. \A g \in Frames : pc'[g] = "allIdle" => cur'[g] \in all.CpuList
    BY <1>0, <1>1 DEF MpInv, CallsFit
  <2>3. MainThis' => Clock'[cur'["main"]].WaitEvent = NULL
    <3>1. MainThis => cur["main"] \in Cpus
      BY <1>0 DEF Typed, ThreadsFit
    <3> QED BY <1>2, <3>1 DEF MpInv, CallsFit
  <2> QED BY <1>2, <1>3, <2>1, <2>2, <2>3 DEF MpInv, CallsFit, SameOwners
<1>7. /\ \A q \in Cpus : apPc[q] # "boot"
      /\ mApFunction' = "NULL" /\ apPc' = [apPc EXCEPT ![p] = "boot"]
      /\ apProc' = [apProc EXCEPT ![p] = NULL] /\ apCtx' = [apCtx EXCEPT ![p] = p]
  BY DEF AbortAp, SendInitSipiSipi
<1>8. (\A q \in Cpus \ {p} : SameAp(q)) /\ apPc'[p] = "boot" /\ apCtx'[p] = p
  BY <1>0, <1>7 DEF SameAp
<1>9. RoleFits' /\ Aside' = Aside
  <2>1. \A c \in Aside : SameAp(c)
    BY <1>0, <1>a, <1>8 DEF Aps
  <2>2. pc'["main"] = pc["main"] \/ (~Switching /\ ~Switching')
    BY <1>0, <1>1 DEF Switching
  <2> QED BY <1>0, <2>1, <2>2, RoleFrame DEF MpInv
<1>10. Parked(p)' /\ OneBoots' /\ Aps' = Aps
  BY <1>7, <1>8, <1>9 DEF SameAp, OneBoots, Aps, Parked
<1>11. Unowned'
  BY <1>0, <1>3, <1>9 DEF MpInv, Unowned, SameOwners
<1>12. ApsFit'
  <2> SUFFICES ASSUME NEW q \in Aps PROVE ApFits(q)'
    BY <1>10 DEF ApsFit
  <2>1. q \in Cpus /\ ApFits(q) /\ SameReq(q)
    BY <1>0 DEF MpInv, ApsFit, SameReq
  <2>2. CASE q = p
    <3>1. Owner(p)' = Owner(p) /\ (InAll(p)' <=> InAll(p)) /\ ThisReq(p)' = ThisReq(p)
      BY <1>3 DEF SameOwners
    <3> QED BY <1>a, <1>4, <1>8, <1>10, <2>2, <3>1 DEF ApFits
  <2>3. CASE q # p
    BY <1>3, <1>4, <1>8, <2>1, <2>3, ApFrame DEF SameOwners
  <2> QED BY <2>2, <2>3
<1>13. ThisFits'
  BY <1>3 DEF MpInv, ThisFits, SameOwners
<1>14. AllCounts'
  BY <1>3, <1>5 DEF MpInv, AllCounts, SameOwners
<1>15. TurnsFit'
  <2>1. \A q \in all.CpuList : q \in Cpus
    BY <1>0, TypedFacts
  <2>2. \A q \in Cpus : Parked(q) => Parked(q)'
    BY <1>7, <1>8, <1>10 DEF Parked, SameAp
  <2> QED BY <1>3, <2>1, <2>2 DEF MpInv, TurnsFit, SameOwners
<1>16. WakeFits'
  BY <1>2 DEF WakeFits
<1>17. EndedAccounted'
  BY DEF MpInv, EndedAccounted
<1> QED BY <1>6, <1>9, <1>10, <1>11, <1>12, <1>13, <1>14, <1>15, <1>16, <1>17 DEF MpInv, Typed

\* CheckThisAP() reads the clock, and aborts the processor when time is up.
LEMMA CheckThisTimeInv ==
    ASSUME PromptAPs, MpInv, Typed', NEW f \in Frames, NEW delta \in Nat, CheckThisTime(f, delta)
    PROVE  MpInv'
<1>0. Typed /\ cur \in [Frames -> Nat] /\ Frames = {"main", "cb"}
  BY InvFacts, TypedFacts DEF Typed, MpTypes
<1>1. /\ pc[f] = "thisTime" /\ Runs(f)
      /\ UNCHANGED <<State, Procedure, all, swVars, arg, req>>
      /\ \/ AbortAp(cur[f]) /\ pc' = [pc EXCEPT ![f] = "thisIdle"] /\ cur' = cur
         \/ /\ IF f = "main" THEN pc' = [pc EXCEPT ![f] = "this"] /\ cur' = cur
               ELSE pc' = [pc EXCEPT ![f] = "scan"] /\ cur' = [cur EXCEPT ![f] = cur[f] + 1]
            /\ UNCHANGED <<mApFunction, apVars>>
  BY DEF CheckThisTime, At, Goto, GotoAt
<1>2. \A q \in Cpus : Clock'[q].WaitEvent = Clock[q].WaitEvent
  BY <1>0, CheckThisTimeTyped
<1>3. cur[f] \in Cpus
  BY <1>1, ThisReqIs
<1>4. CASE AbortAp(cur[f]) /\ pc' = [pc EXCEPT ![f] = "thisIdle"] /\ cur' = cur
  BY <1>1, <1>2, <1>3, <1>4, AbortInv
<1>5. CASE pc' = [pc EXCEPT ![f] = "this"] /\ cur' = cur /\ UNCHANGED <<mApFunction, apVars>>
  BY <1>0, <1>1, <1>2, <1>5, MoveInv DEF AllLoop, ThisLoop
<1>6. CASE f = "cb" /\ pc' = [pc EXCEPT ![f] = "scan"] /\ cur' = [cur EXCEPT ![f] = cur[f] + 1] /\ UNCHANGED <<mApFunction, apVars>>
  <2>1. cur'["main"] = cur["main"]
    BY <1>0, <1>6
  <2> QED BY <1>0, <1>1, <1>2, <1>6, <2>1, MoveInv DEF AllLoop, ThisLoop
<1> QED BY <1>0, <1>1, <1>4, <1>5, <1>6

-----------------------------------------------------------------------------
\* StartupAllAPs() ends: no processor of the list is left.
LEMMA AllReturnsInv ==
    ASSUME MpInv, Typed', NEW f \in Frames, pc[f] \in AllLoop, Runs(f),
           NEW status \in {"SUCCESS", "TIMEOUT"}, AllReturns(f, status),
           all.CpuList = {},
           status = "SUCCESS" => req[AllRequest(f)].failed = {},
           UNCHANGED <<State, Procedure, Clock, mApFunction, swVars, apVars>>
    PROVE  MpInv'
<1> DEFINE r == AllRequest(f)
           new == EndedRec(req[r], status, req[r].failed, all.Clock)
<1>0. /\ Typed /\ Aside \subseteq Cpus /\ Aps \subseteq Cpus /\ Frames = {"main", "cb"}
      /\ pc \in [Frames -> MainPlaces \cup CbPlaces] /\ cur \in [Frames -> Nat]
  BY InvFacts, TypedFacts DEF Aps, Typed, MpTypes
<1>1. /\ AllReq = r /\ r \in 1 .. Len(req) /\ AllReq # NULL
      /\ pc["main"] \notin {"wake", "save"}
      /\ f = "cb" => ~MainAll /\ pc["main"] # "exitWait"
      /\ f = "main" => MainAll /\ ~MainThis /\ all.Clock.WaitEvent = NULL
      /\ \A p \in Cpus : ~InAll(p)
  BY AllReqIs DEF AllLoop
<1>2. /\ all' = [all EXCEPT !.Clock = StopClock(@)]
      /\ req' = Ended(r, status, req[r].failed, all.Clock)
      /\ IF f = "main" THEN MainReturns ELSE GotoAt(f, "scan", 0) /\ UNCHANGED arg
  BY DEF AllReturns
<1>3. /\ req \in Seq(ReqSet) /\ status \in Statuses /\ all \in AllSet
      /\ req[r].failed \in SUBSET Cpus
  BY <1>0, <1>1, TypedFacts, ReqIs DEF Statuses, ReqSet
<1>4. /\ Replaced(r, new)
      /\ new.status = status /\ new.failed = req[r].failed /\ new.cpus = req[r].cpus
      /\ new.done = req[r].done
  BY <1>1, <1>2, <1>3, EndedFact
<1>5. all'.Clock.WaitEvent = NULL /\ all'.CpuList = {}
  <2>1. StopClock(all.Clock).WaitEvent = NULL
    BY DEF StopClock, NoClock
  <2> QED BY <1>2, <1>3, <2>1 DEF AllSet
<1> HIDE DEF new
<1>6. /\ IF f = "main" THEN pc'["main"] \in {"exited", "ready"} ELSE pc'["main"] = pc["main"] /\ arg' = arg
      /\ pc'["cb"] = (IF f = "cb" THEN "scan" ELSE "off")
      /\ f = "cb" => cur'["main"] = cur["main"]
  <2>1. CASE f = "main"
    <3>1. MainReturns /\ PcTypes /\ pc["cb"] = "off"
      BY <1>0, <1>2, <2>1, TypesSplit DEF Typed, Runs
    <3> QED BY <2>1, <3>1, MainReturnsTypes
  <2>2. CASE f = "cb"
    BY <1>0, <1>2, <2>2 DEF GotoAt, Goto
  <2> QED BY <1>0, <2>1, <2>2
<1>6a. f = "main" => pc["cb"] = "off"
  BY DEF Runs
<1> HIDE DEF r
<1>7. ~MainAll' /\ (MainThis' <=> MainThis)
  <2>1. CASE f = "main"
    BY <1>1, <1>6, <2>1 DEF MainAll, MainThis
  <2>2. CASE f = "cb"
    BY <1>1, <1>6, <2>2 DEF MainAll, MainThis
  <2> QED BY <1>0, <2>1, <2>2
<1>8. AllReq' = NULL /\ \A p \in Cpus : ~InAll(p)' /\ ThisReq(p)' = ThisReq(p) /\ Owner(p)' = Owner(p)
  <2>1. AllReq' = NULL
    BY <1>5, <1>7 DEF AllReq
  <2>2. \A p \in Cpus : ThisReq(p)' = ThisReq(p)
    BY <1>0, <1>1, <1>6, <1>7 DEF ThisReq
  <2> QED BY <1>1, <2>1, <2>2 DEF InAll, Owner
<1>9. \A p \in Cpus : ThisReq(p) # r /\ Owner(p) # r /\ Owner(p) = ThisReq(p)
  BY <1>1 DEF MpInv, CallsFit, Owner
<1>12. \A s \in 1 .. Len(req) : s # r => req'[s] = req[s]
  BY <1>4 DEF Replaced
<1>13. \A p \in Cpus : ThisReq(p) # NULL => req'[ThisReq(p)] = req[ThisReq(p)]
  <2>1. \A p \in Cpus : ThisReq(p) \in 0 .. Len(req)
    BY <1>0, OwnerRange
  <2>2. Len(req) \in Nat
    BY <1>0, TypedFacts
  <2> QED BY <1>9, <1>12, <2>1, <2>2 DEF NULL
<1>14. \A p \in Cpus : Aborted(p)' <=> Aborted(p)
  BY <1>0, <1>6, <1>6a DEF Aborted, AllLoop
<1>15. CallsFit'
  <2>1. pc'["main"] \notin {"exitWait", "wake", "save", "allIdle"}
    BY <1>0, <1>1, <1>6 DEF MainAll
  <2>2. MainThis' => Clock'[cur'["main"]].WaitEvent = NULL
    BY <1>0, <1>1, <1>6, <1>7 DEF MpInv, CallsFit
  <2>3. \A g \in Frames : pc'[g] # "allIdle"
    BY <1>0, <1>6, <2>1
  <2> QED BY <1>7, <1>8, <2>1, <2>2, <2>3 DEF CallsFit
<1>16. \A q \in Cpus : SameAp(q)
  BY DEF SameAp, apVars
<1>17. RoleFits' /\ Aside' = Aside
  <2>2. pc'["main"] = pc["main"] \/ (~Switching /\ ~Switching')
    BY <1>0, <1>6 DEF Switching, AllLoop
  <2>3. Switching => arg' = arg
    BY <1>0, <1>6 DEF Switching, AllLoop
  <2> QED BY <1>0, <1>16, <2>2, <2>3, RoleFrame DEF MpInv
<1>18. OneBoots' /\ Aps' = Aps
  BY <1>17 DEF MpInv, OneBoots, Aps, apVars
<1>19. Unowned'
  BY <1>0, <1>8, <1>17 DEF MpInv, Unowned
<1>20. ApsFit'
  <2> SUFFICES ASSUME NEW q \in Aps PROVE ApFits(q)'
    BY <1>18 DEF ApsFit
  <2>0. q \in Cpus /\ ApFits(q) /\ SameAp(q)
    BY <1>0, <1>16 DEF MpInv, ApsFit
  <2>1. SameReq(q)
    BY <1>9, <1>13, <2>0 DEF SameReq
  <2>2. InAll(q)' <=> InAll(q)
    BY <1>1, <1>8, <2>0
  <2> QED BY <1>8, <1>14, <2>0, <2>1, <2>2, ApFrame
<1>21. ThisFits'
  BY <1>8, <1>13 DEF MpInv, ThisFits
<1>22. AllCounts' /\ TurnsFit'
  BY <1>8 DEF AllCounts, TurnsFit
<1>24. WakeFits'
  BY <1>0, <1>1, <1>6 DEF WakeFits
<1>25. EndedAccounted'
  <2>0. DOMAIN req' = 1 .. Len(req) /\ DOMAIN req = 1 .. Len(req)
    BY <1>3, <1>4 DEF Replaced
  <2>1. req'[r] = new
    BY <1>1, <1>4 DEF Replaced
  <2>2. req[r].cpus \subseteq req[r].failed \cup req[r].done
    BY <1>1 DEF MpInv, AllCounts
  <2>a. status = "SUCCESS" => req[r].failed = {}
    BY DEF r
  <2>3. new.cpus \ new.failed \subseteq new.done /\ (new.status = "SUCCESS" => new.failed = {})
    BY <1>4, <2>2, <2>a
  <2> QED BY <1>12, <2>0, <2>1, <2>3 DEF MpInv, EndedAccounted
<1> QED BY <1>15, <1>17, <1>18, <1>19, <1>20, <1>21, <1>22, <1>24, <1>25 DEF MpInv, Typed

\* CheckAllAPs() counts the finished processors and reads the clock.  Equal counts
\* mean an empty CpuList.
LEMMA CheckAllEndInv ==
    ASSUME MpInv, Typed', NEW f \in Frames, NEW delta \in Nat, CheckAllEnd(f, delta)
    PROVE  MpInv'
<1>0. Typed /\ cur \in [Frames -> Nat] /\ Frames = {"main", "cb"}
  BY InvFacts, TypedFacts DEF Typed, MpTypes
<1>1. /\ pc[f] \in {"all", "allEnd"} /\ Runs(f)
      /\ UNCHANGED <<State, Procedure, Clock, mApFunction, swVars, apVars>>
  BY DEF CheckAllEnd, At, cpuData
<1>2. CASE all.FinishCount = all.StartCount
  <2>1. AllReturns(f, "SUCCESS")
    BY <1>2 DEF CheckAllEnd
  <2>2. AllReq # NULL /\ AllReq = AllRequest(f) /\ (f = "cb" => ~MainAll)
    BY <1>1, AllReqIs
  <2>3. ~Resetting
    BY <1>0, <1>1, <2>2 DEF Resetting, Runs, MainAll
  <2>4. req[AllRequest(f)].failed = {} /\ all.FinishCount + Cardinality(all.CpuList) = all.StartCount
    BY <2>2, <2>3 DEF MpInv, AllCounts
  <2>5. all.CpuList \in SUBSET Cpus /\ all.FinishCount \in Nat
    BY <1>0, TypedFacts DEF AllSet
  <2>6. IsFiniteSet(all.CpuList)
    BY <2>5, CpusFinite, FS_Subset
  <2>7. Cardinality(all.CpuList) \in Nat
    BY <2>6, FS_CardinalityType
  <2>8. Cardinality(all.CpuList) = 0
    BY <1>2, <2>4, <2>5, <2>7
  <2>9. all.CpuList = {}
    BY <2>6, <2>8, FS_EmptySet
  <2> QED BY <1>1, <2>1, <2>4, <2>9, AllReturnsInv DEF AllLoop
<1>3. CASE all.FinishCount # all.StartCount
  <2> DEFINE clock == ReadClock(all.Clock, delta)
             place == IF Expired(clock) THEN "allInit" ELSE IF f = "main" THEN "all" ELSE "scan"
  <2>1. /\ all' = [all EXCEPT !.Clock = clock]
        /\ pc' = [pc EXCEPT ![f] = place] /\ cur' = [cur EXCEPT ![f] = 0]
        /\ UNCHANGED <<req, arg>>
    BY <1>3 DEF CheckAllEnd, GotoAt, Goto
  <2>2. clock.WaitEvent = all.Clock.WaitEvent
    BY <1>0, TypedFacts, ClockFacts, CpusFinite
  <2>3. place \in {"allInit", "all", "scan"} /\ (f = "main" => place # "scan")
    OBVIOUS
  <2> HIDE DEF clock, place
  <2>4. /\ all'.CpuList = all.CpuList /\ all'.StartCount = all.StartCount
        /\ all'.FinishCount = all.FinishCount /\ all'.Procedure = all.Procedure
        /\ all'.SingleThread = all.SingleThread /\ all'.Clock.WaitEvent = all.Clock.WaitEvent
    BY <1>0, <2>1, <2>2, TypedFacts DEF AllSet
  <2>5. \A g \in Frames \ {f} : cur'[g] = cur[g]
    BY <1>0, <2>1
  <2> QED BY <1>0, <1>1, <2>1, <2>3, <2>4, <2>5, MoveInv DEF AllLoop, ThisLoop
<1> QED BY <1>2, <1>3

\* CheckAllAPs() aborts the next processor, or returns EFI_TIMEOUT.
LEMMA ResetNextInv ==
    ASSUME PromptAPs, MpInv, Typed', NEW f \in Frames, ResetNext(f)
    PROVE  MpInv'
<1>0. Typed /\ all.CpuList \in SUBSET Cpus
  BY InvFacts, TypedFacts
<1>1. /\ pc[f] = "allInit" /\ Runs(f)
      /\ UNCHANGED <<State, Procedure, Clock, swVars>>
  BY DEF ResetNext, At, cpuData
<1>2. CASE all.CpuList = {}
  <2>1. AllReturns(f, "TIMEOUT") /\ UNCHANGED <<mApFunction, apVars>>
    BY <1>2 DEF ResetNext
  <2> QED BY <1>1, <1>2, <2>1, AllReturnsInv DEF AllLoop
<1>3. CASE all.CpuList # {}
  <2>1. PICK p \in Cpus : p = Min(all.CpuList) /\ p \in all.CpuList
    BY <1>0, <1>3, MinCpu
  <2>2. /\ AbortAp(p) /\ pc' = [pc EXCEPT ![f] = "allIdle"] /\ cur' = [cur EXCEPT ![f] = p]
        /\ UNCHANGED <<all, req, arg>>
    BY <1>3, <2>1 DEF ResetNext, GotoAt, Goto
  <2> QED BY <1>1, <2>1, <2>2, AbortInv
<1> QED BY <1>2, <1>3

\* The aborted processor is marked idle and moves to FailedCpuList.
LEMMA ResetIdleInv ==
    ASSUME MpInv, Typed', NEW f \in Frames, ResetIdle(f)
    PROVE  MpInv'
<1>0. /\ Typed /\ Aside \subseteq Cpus /\ Aps \subseteq Cpus /\ Frames = {"main", "cb"}
      /\ pc \in [Frames -> MainPlaces \cup CbPlaces] /\ cur \in [Frames -> Nat]
      /\ State \in [Cpus -> CpuStates] /\ all \in AllSet /\ all.CpuList \in SUBSET Cpus
  BY InvFacts, TypedFacts DEF Aps, Typed, MpTypes
<1>1. /\ pc[f] = "allIdle" /\ Runs(f) /\ pc' = [pc EXCEPT ![f] = "allInit"] /\ cur' = [cur EXCEPT ![f] = 0]
      /\ State' = [State EXCEPT ![cur[f]] = "Idle"]
      /\ all' = [all EXCEPT !.CpuList = @ \ {cur[f]}]
      /\ UNCHANGED <<Procedure, Clock, mApFunction, swVars, apVars, arg>>
  BY DEF ResetIdle, At, GotoAt, Goto
<1>2. PICK p \in Cpus : p = cur[f] /\ p \in all.CpuList
  BY <1>0, <1>1 DEF MpInv, CallsFit
<1> DEFINE r == AllRequest(f)
           new == [req[r] EXCEPT !.failed = @ \cup {cur[f]}]
<1>3. /\ r \in 1 .. Len(req)
      /\ Replaced(r, new)
      /\ new.failed = req[r].failed \cup {cur[f]} /\ new.status = req[r].status
      /\ new.cpus = req[r].cpus /\ new.done = req[r].done /\ new.single = req[r].single
  BY <1>0, ResetIdleReq
<1>4. /\ AllReq = r /\ AllReq # NULL
      /\ pc["main"] \notin {"wake", "save"}
      /\ f = "cb" => ~MainAll /\ pc["main"] # "exitWait"
      /\ f = "main" => MainAll /\ ~MainThis /\ all.Clock.WaitEvent = NULL
      /\ \A q \in Cpus : InAll(q) <=> q \in all.CpuList
      /\ all.Procedure = AllReq /\ (all.SingleThread <=> req[AllReq].single)
  BY <1>1, AllReqIs
<1>3a. AllRequest(f)' = AllRequest(f)
  BY <1>0, <1>1 DEF AllRequest, AllSet
<1> HIDE DEF new, r
<1>5. /\ pc'[f] = "allInit" /\ \A g \in Frames \ {f} : pc'[g] = pc[g] /\ cur'[g] = cur[g]
      /\ \A g \in Frames \ {f} : pc'[g] # "allIdle"
      /\ pc'["main"] \notin {"wake", "save"}
  BY <1>0, <1>1, <1>4 DEF Runs, MainAll
<1>6. /\ all'.CpuList = all.CpuList \ {p} /\ all'.Procedure = all.Procedure
      /\ all'.SingleThread = all.SingleThread /\ all'.Clock = all.Clock
  BY <1>0, <1>1, <1>2 DEF AllSet
<1>7. (MainAll' <=> MainAll) /\ (MainThis' <=> MainThis)
  BY <1>0, <1>1, <1>5 DEF MainAll, MainThis
<1>8. AllReq' = r /\ \A q \in Cpus : ThisReq(q)' = ThisReq(q)
  <2>1. AllReq' = AllReq
    BY <1>1, <1>6, <1>7 DEF AllReq
  <2>2. \A q \in Cpus : ThisReq(q)' = ThisReq(q)
    BY <1>0, <1>1, <1>4, <1>5, <1>7 DEF ThisReq
  <2> QED BY <1>4, <2>1, <2>2
<1>9. /\ InAll(p) /\ ~InAll(p)' /\ \A q \in Cpus \ {p} : (InAll(q)' <=> InAll(q)) /\ Owner(q)' = Owner(q)
  <2>1. \A q \in Cpus : InAll(q)' <=> q \in all'.CpuList
    BY <1>4, <1>5, <1>8 DEF InAll
  <2>2. InAll(p) /\ ~InAll(p)' /\ \A q \in Cpus \ {p} : InAll(q)' <=> InAll(q)
    BY <1>2, <1>4, <1>6, <2>1
  <2> QED BY <1>4, <1>8, <2>2 DEF Owner
<1>10. p \in Aps /\ ApFits(p) /\ Aborted(p) /\ Parked(p) /\ ThisReq(p) = NULL
  <2>1. p \in Aps
    BY <1>9 DEF MpInv, Unowned, Aps
  <2>2. ApFits(p) /\ Aborted(p)
    BY <1>1, <1>2, <2>1 DEF MpInv, ApsFit, Aborted
  <2> QED BY <1>9, <2>1, <2>2 DEF ApFits
<1>11. Resetting' /\ \A q \in Cpus \ {p} : Aborted(q)' <=> Aborted(q)
  <2>1. Resetting'
    BY <1>0, <1>5 DEF Resetting
  <2>2. \A q \in Cpus \ {p} : Aborted(q)' <=> Aborted(q)
    BY <1>0, <1>1, <1>2, <1>5 DEF Aborted
  <2> QED BY <2>1, <2>2
<1>12. \A s \in 1 .. Len(req) : req'[s] = IF s = r THEN new ELSE req[s]
  BY <1>3 DEF Replaced
<1>12a. req'[r] = new
  BY <1>3, <1>12
<1>13. /\ \A q \in Cpus : ThisReq(q) # r
       /\ \A q \in Cpus : ThisReq(q) # NULL => req'[ThisReq(q)] = req[ThisReq(q)]
  <2>1. \A q \in Cpus : ThisReq(q) \in 0 .. Len(req)
    BY <1>0, OwnerRange
  <2>2. Len(req) \in Nat
    BY <1>0, TypedFacts
  <2>3. \A q \in Cpus : ThisReq(q) # r
    BY <1>4 DEF MpInv, CallsFit
  <2> QED BY <1>12, <2>1, <2>2, <2>3 DEF NULL
<1>14. CallsFit'
  <2>1. MainAll' \/ pc'["main"] = "exitWait" => all'.Clock.WaitEvent = NULL
    BY <1>0, <1>5, <1>6, <1>7 DEF MpInv, CallsFit
  <2>2. MainThis' => Clock'[cur'["main"]].WaitEvent = NULL
    BY <1>0, <1>1, <1>4, <1>5, <1>7 DEF MpInv, CallsFit
  <2>3. \A g \in Frames : pc'[g] # "allIdle"
    BY <1>5
  <2>4. all'.Procedure = r /\ (all'.SingleThread <=> req'[r].single)
    <3>1. req'[r].single = req[r].single
      BY <1>3, <1>12a
    <3> QED BY <1>4, <1>6, <3>1
  <2> QED BY <1>5, <1>8, <1>13, <2>1, <2>2, <2>3, <2>4 DEF CallsFit
<1>16. \A q \in Cpus \ {p} : SameAp(q)
  BY <1>0, <1>1, <1>2 DEF SameAp, apVars
<1>17. RoleFits' /\ Aside' = Aside
  <2>1. \A c \in Aside : SameAp(c)
    BY <1>0, <1>10, <1>16 DEF Aps
  <2>2. pc'["main"] = pc["main"] \/ (~Switching /\ ~Switching')
    BY <1>0, <1>1, <1>5 DEF Switching
  <2> QED BY <1>0, <1>1, <2>1, <2>2, RoleFrame DEF MpInv
<1>18. OneBoots' /\ Aps' = Aps
  BY <1>1, <1>17 DEF MpInv, OneBoots, Aps, apVars
<1>19. Unowned'
  <2>1. p \notin Aside
    BY <1>10 DEF Aps
  <2> QED BY <1>0, <1>8, <1>9, <1>17, <2>1 DEF MpInv, Unowned
<1>20. ApsFit'
  <2> SUFFICES ASSUME NEW q \in Aps PROVE ApFits(q)'
    BY <1>18 DEF ApsFit
  <2>0. q \in Cpus /\ ApFits(q)
    BY <1>0 DEF MpInv, ApsFit
  <2>1. CASE q = p
    <3>1. State'[p] = "Idle" /\ Parked(p)' /\ apCtx'[p] = p
      BY <1>0, <1>1, <1>2, <1>10 DEF Parked, apVars, ApFits
    <3>2. Owner(p)' = NULL /\ ThisReq(p)' = NULL
      BY <1>8, <1>9, <1>10 DEF Owner
    <3> QED BY <1>9, <2>1, <3>1, <3>2 DEF ApFits
  <2>2. CASE q # p
    <3>1. Owner(q) # NULL => /\ req'[Owner(q)].single = req[Owner(q)].single
                             /\ req'[Owner(q)].done = req[Owner(q)].done
      <4>1. Owner(q) = AllReq \/ Owner(q) = ThisReq(q)
        BY DEF Owner
      <4> QED BY <1>3, <1>4, <1>12a, <1>13, <2>0, <4>1
    <3>2. SameAp(q) /\ SameReq(q)
      BY <1>16, <2>0, <2>2, <3>1 DEF SameReq
    <3> QED BY <1>8, <1>9, <1>11, <2>0, <2>2, <3>2, ApFrame
  <2> QED BY <2>1, <2>2
<1>21. ThisFits'
  BY <1>8, <1>13 DEF MpInv, ThisFits
<1>22. AllCounts'
  <2>1. /\ req[r].status = "open"
        /\ all.CpuList \subseteq req[r].cpus \ req[r].failed
        /\ req[r].cpus \subseteq all.CpuList \cup req[r].failed \cup req[r].done
    BY <1>4 DEF MpInv, AllCounts
  <2>2. new.failed = req[r].failed \cup {p}
    BY <1>2, <1>3
  <2> QED BY <1>3, <1>6, <1>8, <1>11, <1>12a, <2>1, <2>2 DEF AllCounts
<1>23. TurnsFit'
  <2>1. \A q \in all'.CpuList : q \in Cpus \ {p} /\ State'[q] = State[q] /\ q \in all.CpuList
    BY <1>0, <1>1, <1>2, <1>6
  <2>2. req'[r].single = req[r].single
    BY <1>3, <1>12a
  <2>3. \A q : Parked(q)' <=> Parked(q)
    BY <1>1 DEF Parked, apVars
  <2> QED BY <1>4, <1>8, <1>9, <2>1, <2>2, <2>3 DEF MpInv, TurnsFit
<1>24. WakeFits'
  BY <1>5 DEF WakeFits
<1>25. EndedAccounted'
  <2>0. DOMAIN req' = 1 .. Len(req) /\ DOMAIN req = 1 .. Len(req)
    BY <1>0, <1>3, TypedFacts DEF Replaced
  <2>1. req'[r].status = "open"
    BY <1>3, <1>4, <1>12a DEF MpInv, AllCounts
  <2> QED BY <1>12, <2>0, <2>1 DEF MpInv, EndedAccounted
<1> QED BY <1>14, <1>17, <1>18, <1>19, <1>20, <1>21, <1>22, <1>23, <1>24, <1>25 DEF MpInv, Typed

-----------------------------------------------------------------------------
\* CheckAllAPs() looks at one processor.  In single thread mode a processor that has
\* finished is the first of CpuList, so the next one is parked and may be woken.
LEMMA CheckAllOneInv ==
    ASSUME PromptAPs, MpInv, Typed', NEW f \in Frames, CheckAllOne(f)
    PROVE  MpInv'
<1>0. /\ Typed /\ Aside \subseteq Cpus /\ Aps \subseteq Cpus /\ Frames = {"main", "cb"}
      /\ pc \in [Frames -> MainPlaces \cup CbPlaces] /\ cur \in [Frames -> Nat]
      /\ State \in [Cpus -> CpuStates] /\ all \in AllSet /\ all.CpuList \in SUBSET Cpus
      /\ apPc \in [Cpus -> ApPlaces] /\ apProc \in [Cpus -> 0 .. MaxRequests + 1] /\ apCtx \in [Cpus -> Cpus]
      /\ Procedure \in [Cpus -> 0 .. MaxRequests + 1]
  BY InvFacts, TypedFacts DEF Aps, Typed, MpTypes
<1> DEFINE rest == {p \in all.CpuList : p >= cur[f]}
<1>1. rest # {} /\ rest \in SUBSET Cpus
  BY <1>0 DEF CheckAllOne
<1>2. PICK m \in Cpus : m = Min(rest) /\ m \in rest
  BY <1>1, MinCpu
<1> DEFINE waiting == all.CpuList \ {m}
           idle == [State EXCEPT ![m] = "Idle"]
           place == IF m = Max(rest) THEN "allEnd" ELSE "all"
<1>3. /\ pc[f] = "all" /\ Runs(f)
      /\ pc' = [pc EXCEPT ![f] = place] /\ cur' = [cur EXCEPT ![f] = m + 1]
      /\ \/ /\ State[m] = "Finished"
            /\ all' = [all EXCEPT !.FinishCount = @ + 1, !.CpuList = waiting]
            /\ IF all.SingleThread /\ waiting # {}
               THEN WakeUpAp(Min(waiting), all.Procedure, idle)
               ELSE State' = idle /\ UNCHANGED <<Procedure, mApFunction, apVars>>
         \/ /\ State[m] # "Finished"
            /\ UNCHANGED <<all, State, Procedure, mApFunction, apVars>>
      /\ UNCHANGED <<Clock, swVars, arg, req>>
  BY <1>2 DEF CheckAllOne, At, GotoAt, Goto
<1>4. place \in {"all", "allEnd"} /\ m \in all.CpuList /\ waiting \subseteq all.CpuList
  BY <1>2
<1> HIDE DEF place
<1>5. CASE State[m] # "Finished"
  <2>1. UNCHANGED <<all, State, Procedure, mApFunction, apVars>>
    BY <1>3, <1>5
  <2>2. \A g \in Frames \ {f} : cur'[g] = cur[g]
    BY <1>0, <1>3
  <2> QED BY <1>0, <1>3, <1>4, <2>1, <2>2, MoveInv DEF AllLoop, ThisLoop
<1> HIDE DEF rest
<1>6. CASE State[m] = "Finished"
  <2>1. /\ all' = [all EXCEPT !.FinishCount = @ + 1, !.CpuList = waiting]
        /\ IF all.SingleThread /\ waiting # {}
           THEN WakeUpAp(Min(waiting), all.Procedure, idle)
           ELSE State' = idle /\ UNCHANGED <<Procedure, mApFunction, apVars>>
    BY <1>3, <1>6
  <2> DEFINE r == AllRequest(f)
  <2>2. /\ AllReq = r /\ r \in 1 .. Len(req) /\ AllReq # NULL
        /\ pc["main"] \notin {"wake", "save"}
        /\ f = "cb" => ~MainAll /\ pc["main"] # "exitWait"
        /\ f = "main" => MainAll /\ ~MainThis /\ all.Clock.WaitEvent = NULL
        /\ \A q \in Cpus : InAll(q) <=> q \in all.CpuList
        /\ all.Procedure = AllReq /\ (all.SingleThread <=> req[AllReq].single)
    BY <1>3, AllReqIs
  <2>3. \A q \in all.CpuList : ~Aborted(q) /\ q \in Aps /\ Owner(q) # NULL /\ ApFits(q) /\ Owner(q) = r /\ q \in Cpus
    BY <1>0, <1>3, <2>2, NotAborted DEF AllLoop, Owner
  <2> HIDE DEF r
  <2>4. apPc[m] = "hlt" /\ m \in req[r].done /\ ThisReq(m) = NULL
    <3>1. Works(m, r)
      BY <1>4, <1>6, <2>3 DEF ApFits
    <3>2. ThisReq(m) = NULL
      BY <1>4, <2>2, <2>3 DEF ApFits
    <3> QED BY <1>6, <3>1, <3>2 DEF Works
  <2>5. /\ all'.CpuList = waiting /\ all'.FinishCount = all.FinishCount + 1 /\ all'.StartCount = all.StartCount
        /\ all'.Procedure = all.Procedure /\ all'.SingleThread = all.SingleThread /\ all'.Clock = all.Clock
    BY <1>0, <2>1 DEF AllSet
  <2>6. /\ pc'[f] = place /\ \A g \in Frames \ {f} : pc'[g] = pc[g] /\ cur'[g] = cur[g]
        /\ \A g \in Frames : pc'[g] # "allIdle"
        /\ pc'["main"] \notin {"wake", "save"}
    BY <1>0, <1>3, <1>4, <2>2 DEF Runs, MainAll
  <2>7. (MainAll' <=> MainAll) /\ (MainThis' <=> MainThis)
    BY <1>0, <1>3, <1>4, <2>6 DEF MainAll, MainThis
  <2>8. AllReq' = r /\ \A q \in Cpus : ThisReq(q)' = ThisReq(q)
    <3>1. AllReq' = AllReq
      BY <1>3, <2>5, <2>7 DEF AllReq
    <3>2. \A q \in Cpus : ThisReq(q)' = ThisReq(q)
      BY <1>0, <1>3, <2>2, <2>6, <2>7 DEF ThisReq
    <3> QED BY <2>2, <3>1, <3>2
  <2>9. /\ InAll(m) /\ ~InAll(m)' /\ \A q \in Cpus \ {m} : (InAll(q)' <=> InAll(q)) /\ Owner(q)' = Owner(q)
    <3>1. \A q \in Cpus : InAll(q)' <=> q \in all'.CpuList
      BY <2>2, <2>6, <2>8 DEF InAll
    <3>2. InAll(m) /\ ~InAll(m)' /\ \A q \in Cpus \ {m} : InAll(q)' <=> InAll(q)
      BY <1>4, <2>2, <2>5, <3>1
    <3> QED BY <2>2, <2>8, <3>2 DEF Owner
  <2>10. ~Resetting /\ ~Resetting' /\ \A q \in Cpus : Aborted(q)' <=> Aborted(q)
    <3>1. f = "main" => pc["cb"] = "off"
      BY <1>3 DEF Runs
    <3>2. ~Resetting /\ ~Resetting'
      BY <1>0, <1>3, <1>4, <2>2, <2>6, <3>1 DEF Resetting, MainAll
    <3>3. \A q \in Cpus : Aborted(q)' <=> Aborted(q)
      BY <1>0, <1>3, <1>4, <2>6 DEF Aborted
    <3> QED BY <3>2, <3>3
  <2>11. CallsFit'
    <3>1. MainAll' \/ pc'["main"] = "exitWait" => all'.Clock.WaitEvent = NULL
      BY <1>0, <1>3, <1>4, <2>5, <2>6, <2>7 DEF MpInv, CallsFit
    <3>2. MainThis' => Clock'[cur'["main"]].WaitEvent = NULL
      BY <1>0, <1>3, <2>2, <2>6, <2>7 DEF MpInv, CallsFit
    <3>3. \A q \in Cpus : ThisReq(q)' # r
      BY <2>2, <2>8 DEF MpInv, CallsFit
    <3> QED BY <1>3, <2>2, <2>5, <2>6, <2>8, <3>1, <3>2, <3>3 DEF CallsFit
  \* In single thread mode the next processor has not run yet.
  <2>12. ASSUME all.SingleThread, NEW q \in waiting
         PROVE  m < q /\ State[q] = "Ready" /\ Parked(q) /\ q \notin req[r].done
    <3>1. \A x, y \in all.CpuList : y < x => State[x] = "Ready" /\ Parked(x)
      BY <1>0, <2>2, <2>12 DEF MpInv, TurnsFit
    <3>2. ~(q < m)
      BY <1>4, <1>6, <3>1
    <3>3. m < q
      <4>1. m \in Nat /\ q \in Nat /\ m # q
        BY <1>0, <1>4, CpusFinite
      <4> QED BY <3>2, <4>1
    <3>4. State[q] = "Ready" /\ Parked(q)
      BY <1>4, <3>1, <3>3
    <3>5. Works(q, r)
      BY <1>4, <2>3, <3>4 DEF ApFits
    <3> QED BY <3>3, <3>4, <3>5 DEF Works
  <2>13. /\ State' = idle /\ State'[m] = "Idle" /\ \A q \in Cpus \ {m} : State'[q] = State[q]
    BY <1>0, <2>1 DEF WakeUpAp
  <2>14. ASSUME NEW w \in Cpus, w \in waiting, all.SingleThread, WakeUpAp(w, all.Procedure, idle)
         PROVE  /\ \A q \in Cpus \ {m, w} : SameAp(q)
                /\ apPc'[m] = "hlt" /\ apCtx'[m] = apCtx[m]
                /\ ApFits(w)'
                /\ OneBoots'
                /\ \A q \in Cpus \ {w} : Parked(q) => Parked(q)'
    <3>1. /\ \A q \in Cpus : apPc[q] # "boot"
          /\ mApFunction' = "ApProcWrapper" /\ apPc' = [apPc EXCEPT ![w] = "boot"]
          /\ apProc' = [apProc EXCEPT ![w] = NULL] /\ apCtx' = [apCtx EXCEPT ![w] = w]
          /\ Procedure' = [Procedure EXCEPT ![w] = r]
      BY <2>2, <2>14 DEF WakeUpAp, SendInitSipiSipi
    <3>2. \A q \in Cpus \ {m, w} : SameAp(q)
      BY <1>0, <2>13, <3>1 DEF SameAp
    <3>3. apPc'[m] = "hlt" /\ apCtx'[m] = apCtx[m]
      BY <1>0, <2>4, <2>14, <3>1
    <3>4. /\ State'[w] = "Ready" /\ w \notin req'[r].done /\ apPc'[w] = "boot" /\ apCtx'[w] = w
          /\ Procedure'[w] = r
      BY <1>0, <1>3, <2>12, <2>13, <2>14, <3>1
    <3>5. Owner(w)' = r /\ (InAll(w)' <=> InAll(w)) /\ ThisReq(w)' = ThisReq(w) /\ r # NULL
      BY <1>4, <2>2, <2>3, <2>8, <2>9, <2>14
    <3>6. ~Aborted(w)'
      BY <1>4, <2>3, <2>10, <2>14
    <3>7. Works(w, Owner(w))'
      BY <3>1, <3>4, <3>5 DEF Works
    <3>8. ApFits(w)
      BY <1>4, <2>3, <2>14
    <3>9. ApFits(w)'
      BY <3>4, <3>5, <3>6, <3>7, <3>8 DEF ApFits
    <3>10. OneBoots' /\ \A q \in Cpus \ {w} : Parked(q) => Parked(q)'
      BY <1>0, <3>1 DEF OneBoots, Parked
    <3> QED BY <3>2, <3>3, <3>9, <3>10
  <2>15. \/ /\ \A q \in Cpus \ {m} : SameAp(q)
            /\ apPc'[m] = "hlt" /\ apCtx'[m] = apCtx[m]
            /\ OneBoots'
            /\ all.SingleThread => waiting = {}
         \/ /\ all.SingleThread
            /\ \E w \in waiting : /\ \A q \in waiting : w <= q
                                  /\ \A q \in Cpus \ {m, w} : SameAp(q)
                                  /\ apPc'[m] = "hlt" /\ apCtx'[m] = apCtx[m]
                                  /\ ApFits(w)'
                                  /\ OneBoots'
                                  /\ \A q \in Cpus \ {w} : Parked(q) => Parked(q)'
    <3>1. CASE all.SingleThread /\ waiting # {}
      <4>1. waiting \in SUBSET Cpus
        BY <1>0
      <4> HIDE DEF waiting
      <4>2. PICK w \in Cpus : w = Min(waiting) /\ w \in waiting /\ \A q \in waiting : w <= q
        BY <3>1, <4>1, MinCpu
      <4>3. WakeUpAp(w, all.Procedure, idle)
        BY <2>1, <3>1, <4>2
      <4> QED BY <2>14, <3>1, <4>2, <4>3
    <3>2. CASE ~(all.SingleThread /\ waiting # {})
      <4>1. UNCHANGED <<Procedure, mApFunction, apVars>>
        BY <2>1, <3>2
      <4> QED BY <2>4, <2>13, <3>2, <4>1 DEF SameAp, apVars, MpInv, OneBoots
    <3> QED BY <3>1, <3>2
  <2>16. RoleFits' /\ Aside' = Aside
    <3>1. \A c \in Aside : SameAp(c)
      BY <1>0, <1>4, <2>3, <2>15 DEF Aps
    <3>2. pc'["main"] = pc["main"] \/ (~Switching /\ ~Switching')
      BY <1>0, <1>3, <1>4, <2>6 DEF Switching
    <3> QED BY <1>0, <1>3, <3>1, <3>2, RoleFrame DEF MpInv
  <2>17. Aps' = Aps /\ OneBoots'
    BY <2>15, <2>16 DEF Aps
  <2>18. Unowned'
    <3>1. m \notin Aside
      BY <1>4, <2>3 DEF Aps
    <3> QED BY <1>0, <2>8, <2>9, <2>16, <3>1 DEF MpInv, Unowned
  <2>19. ApsFit'
    <3> SUFFICES ASSUME NEW q \in Aps PROVE ApFits(q)'
      BY <2>17 DEF ApsFit
    <3>0. q \in Cpus /\ ApFits(q) /\ SameReq(q)
      BY <1>0, <1>3 DEF MpInv, ApsFit, SameReq
    <3>1. CASE q = m
      <4>1. Parked(m)' /\ apCtx'[m] = m
        BY <2>15, <3>0, <3>1 DEF Parked, ApFits
      <4>2. Owner(m)' = NULL /\ ThisReq(m)' = NULL
        BY <2>4, <2>8, <2>9 DEF Owner
      <4> QED BY <2>9, <2>13, <3>1, <4>1, <4>2 DEF ApFits
    <3>2. CASE q # m /\ SameAp(q)
      BY <2>8, <2>9, <2>10, <3>0, <3>2, ApFrame
    <3> QED BY <2>15, <3>0, <3>1, <3>2
  <2>20. ThisFits'
    BY <1>3, <2>8 DEF MpInv, ThisFits
  <2>21. AllCounts'
    <3>1. /\ req[r].status = "open"
          /\ all.CpuList \subseteq req[r].cpus \ req[r].failed
          /\ req[r].cpus \subseteq all.CpuList \cup req[r].failed \cup req[r].done
          /\ req[r].failed = {}
          /\ all.FinishCount + Cardinality(all.CpuList) = all.StartCount
      BY <2>2, <2>10 DEF MpInv, AllCounts
    <3>2. IsFiniteSet(all.CpuList)
      BY <1>0, CpusFinite, FS_Subset
    <3>3. Cardinality(waiting) = Cardinality(all.CpuList) - 1 /\ Cardinality(all.CpuList) \in Nat
      BY <1>4, <3>2, FS_RemoveElement, FS_CardinalityType
    <3>4. all.FinishCount \in Nat /\ all.StartCount \in Nat
      BY <1>0 DEF AllSet
    <3> HIDE DEF waiting
    <3>5. all'.FinishCount + Cardinality(waiting) = all'.StartCount
      BY <2>5, <3>1, <3>3, <3>4
    <3> USE DEF waiting
    <3>6. waiting \subseteq req[r].cpus \ req[r].failed /\ req[r].cpus \subseteq waiting \cup req[r].failed \cup req[r].done
      BY <2>4, <3>1
    <3> HIDE DEF waiting
    <3> QED BY <1>3, <2>5, <2>8, <3>1, <3>5, <3>6 DEF AllCounts
  <2>22. TurnsFit'
    <3> SUFFICES ASSUME req[r].single, NEW p \in waiting, NEW q \in waiting, q < p
                 PROVE  State'[p] = "Ready" /\ Parked(p)'
      BY <1>3, <2>5, <2>8 DEF TurnsFit
    <3>0. all.SingleThread /\ p \in Cpus /\ q \in Cpus /\ p # m
      BY <1>0, <2>2
    <3>1. State[p] = "Ready" /\ Parked(p)
      BY <2>12, <3>0
    <3>2. State'[p] = "Ready"
      BY <2>13, <3>0, <3>1
    <3>3. Parked(p)'
      <4>1. PICK w \in waiting : /\ \A x \in waiting : w <= x
                                 /\ \A x \in Cpus \ {w} : Parked(x) => Parked(x)'
        BY <2>15, <3>0
      <4>2. w # p
        <5>1. w \in Nat /\ p \in Nat /\ q \in Nat /\ w <= q
          BY <1>0, <4>1, <3>0, CpusFinite
        <5> QED BY <5>1
      <4> QED BY <3>0, <3>1, <4>1, <4>2
    <3> QED BY <3>2, <3>3
  <2>23. WakeFits'
    BY <2>6 DEF WakeFits
  <2>24. EndedAccounted'
    BY <1>3 DEF MpInv, EndedAccounted
  <2> QED BY <2>11, <2>16, <2>17, <2>18, <2>19, <2>20, <2>21, <2>22, <2>23, <2>24 DEF MpInv, Typed
<1> QED BY <1>5, <1>6

-----------------------------------------------------------------------------
\* Between two calls.
LEMMA Between ==
    ASSUME MpInv, pc["main"] \in {"ready", "exitWait"}, pc["cb"] = "off"
    PROVE  /\ ~MainAll /\ ~MainThis /\ ~Resetting /\ ~Switching /\ (\A p \in Cpus : ~Aborted(p))
           /\ AllReq = all.Clock.WaitEvent /\ (\A p \in Cpus : ThisReq(p) = Clock[p].WaitEvent)
           /\ Aside = {BspNumber} /\ bspCpu = BspNumber
           /\ \A p \in Cpus : p # BspNumber => p \in Aps /\ ApFits(p)
<1>1. ~MainAll /\ ~MainThis /\ ~Resetting /\ ~Switching /\ \A p \in Cpus : ~Aborted(p)
  BY DEF MainAll, MainThis, Resetting, Switching, Aborted, Frames
<1>2. Aside = {BspNumber} /\ bspCpu = BspNumber
  BY <1>1 DEF Aside, MpInv, RoleFits
<1> QED BY <1>1, <1>2 DEF AllReq, ThisReq, Aps, MpInv, ApsFit

\* The list for StartupAllAPs() is rewritten while no such call is pending.
LEMMA ListInv ==
    ASSUME MpInv, Typed', pc["main"] \in {"ready", "exitWait"}, pc["cb"] = "off",
           all.Clock.WaitEvent = NULL, all'.Clock = all.Clock,
           UNCHANGED <<State, Procedure, Clock, mApFunction, swVars, apVars, cur, arg, req>>,
           pc'["main"] \in {"ready", "exited"}, pc'["cb"] = "off"
    PROVE  MpInv'
<1>0. Typed /\ Aside \subseteq Cpus /\ Aps \subseteq Cpus /\ Frames = {"main", "cb"}
  BY InvFacts, TypedFacts DEF Aps
<1>1. /\ ~MainAll /\ ~MainThis /\ ~Switching /\ (\A p \in Cpus : ~Aborted(p))
      /\ AllReq = NULL /\ (\A p \in Cpus : ThisReq(p) = Clock[p].WaitEvent)
  BY Between
<1>2. ~MainAll' /\ ~MainThis' /\ ~Switching' /\ (\A p \in Cpus : ~Aborted(p)')
  BY <1>0 DEF MainAll, MainThis, Switching, Aborted
<1>3. AllReq' = NULL /\ \A p \in Cpus : /\ ~InAll(p) /\ ~InAll(p)' /\ ThisReq(p)' = ThisReq(p)
                                        /\ Owner(p)' = Owner(p)
  BY <1>1, <1>2 DEF AllReq, InAll, ThisReq, Owner
<1>4. CallsFit'
  BY <1>0, <1>2, <1>3 DEF CallsFit
<1>5. RoleFits' /\ Aside' = Aside
  <2>1. \A c \in Aside : SameAp(c)
    BY DEF SameAp, apVars
  <2> QED BY <1>0, <1>1, <1>2, <2>1, RoleFrame DEF MpInv
<1>6. OneBoots' /\ Aps' = Aps
  BY <1>5 DEF MpInv, OneBoots, Aps, apVars
<1>7. Unowned'
  BY <1>0, <1>3, <1>5 DEF MpInv, Unowned
<1>8. ApsFit'
  <2> SUFFICES ASSUME NEW p \in Aps PROVE ApFits(p)'
    BY <1>6 DEF ApsFit
  <2>1. p \in Cpus /\ ApFits(p) /\ SameAp(p) /\ SameReq(p)
    BY <1>0 DEF MpInv, ApsFit, SameAp, SameReq, apVars
  <2> QED BY <1>1, <1>2, <1>3, <2>1, ApFrame
<1>9. ThisFits'
  BY <1>3 DEF MpInv, ThisFits
<1>10. AllCounts' /\ TurnsFit' /\ WakeFits' /\ EndedAccounted'
  BY <1>3 DEF MpInv, AllCounts, TurnsFit, WakeFits, EndedAccounted
<1> QED BY <1>4, <1>5, <1>6, <1>7, <1>8, <1>9, <1>10 DEF MpInv, Typed

\* StartupAllAPs() finds a busy processor.
LEMMA NotReadyInv ==
    ASSUME CarefulCallers, MpInv, Typed', StartupAllAPsNotReady
    PROVE  MpInv'
<1>0. all \in AllSet
  BY InvFacts, TypedFacts
<1>1. /\ pc["main"] = "ready" /\ pc["cb"] = "off" /\ all.Clock.WaitEvent = NULL
      /\ UNCHANGED <<State, Procedure, Clock, mApFunction, swVars, apVars, pc, cur, arg, req>>
  BY DEF StartupAllAPsNotReady, At, Runs, cpuData, bspVars
<1>2. all'.Clock = all.Clock
  BY <1>0 DEF StartupAllAPsNotReady, AllSet
<1> QED BY <1>1, <1>2, ListInv

\* StartupAllAPs() is accepted.
LEMMA StartupAllInv ==
    ASSUME MpInv, Typed', pc["main"] \in {"ready", "exitWait"}, pc["cb"] = "off",
           all.Clock.WaitEvent = NULL,
           NEW single \in BOOLEAN, NEW wait \in BOOLEAN, NEW limit \in Nat, NEW exit \in BOOLEAN,
           StartupAllAPs(single, wait, limit, exit)
    PROVE  MpInv'
<1>0. /\ Typed /\ Aside \subseteq Cpus /\ Aps \subseteq Cpus /\ Frames = {"main", "cb"}
      /\ pc \in [Frames -> MainPlaces \cup CbPlaces] /\ cur \in [Frames -> Nat]
      /\ all \in AllSet /\ arg \in ArgSet /\ req \in Seq(ReqSet) /\ Len(req) \in Nat
  BY InvFacts, TypedFacts DEF Aps, Typed, MpTypes
<1>1. /\ UNCHANGED <<State, Procedure, Clock, mApFunction, swVars, apVars>>
      /\ BusyAPs = {}
      /\ all' = [all EXCEPT !.CpuList = EnabledAPs, !.FinishCount = 0,
                            !.StartCount = Cardinality(EnabledAPs)]
  BY DEF StartupAllAPs, cpuData, NewCount
<1>2. /\ all'.CpuList = EnabledAPs /\ all'.FinishCount = 0 /\ all'.StartCount = Cardinality(EnabledAPs)
      /\ all'.Clock = all.Clock
  BY <1>0, <1>1 DEF AllSet
<1>3. CASE EnabledAPs = {}
  <2>1. /\ UNCHANGED <<cur, arg, req>>
        /\ pc' = [pc EXCEPT !["main"] = IF exit THEN "exited" ELSE "ready"]
    BY <1>3 DEF StartupAllAPs, Goto
  <2>2. pc'["main"] \in {"ready", "exited"} /\ pc'["cb"] = "off"
    BY <1>0, <2>1
  <2> QED BY <1>1, <1>2, <2>1, <2>2, ListInv
<1>4. CASE EnabledAPs # {}
  <2>1. /\ req' = Append(req, NewRequest(EnabledAPs, single, limit))
        /\ arg' = [arg EXCEPT !.req = Len(req) + 1, !.single = single,
                              !.wait = wait, !.limit = limit, !.exit = exit]
        /\ pc' = [pc EXCEPT !["main"] = "wake"] /\ cur' = [cur EXCEPT !["main"] = 0]
    BY <1>4 DEF StartupAllAPs, GotoAt, Goto
  <2> DEFINE r == Len(req) + 1
             new == NewRequest(EnabledAPs, single, limit)
  <2>2. PICK k : k = r
    OBVIOUS
  <2>a. EnabledAPs \in SUBSET Cpus /\ \A p \in EnabledAPs : State[p] = "Idle" /\ p # BspNumber
    BY <1>1 DEF EnabledAPs, BusyAPs
  <2>b. req \in Seq(ReqSet) /\ req' = Append(req, NewRequest(EnabledAPs, single, limit))
    BY <1>0, <2>1
  <2>3. /\ Appended(new) /\ new.cpus = EnabledAPs /\ (new.single <=> single) /\ new.status = "open"
        /\ new.done = {} /\ new.failed = {}
    <3>1. Appended(new)
      BY <2>a, <2>b, AppendedFact
    <3> QED BY <3>1 DEF NewRequest
  <2> HIDE DEF new
  <2>4. /\ \A s \in 1 .. Len(req) : req'[s] = req[s]
        /\ req'[k] = new /\ DOMAIN req' = 1 .. k /\ DOMAIN req = 1 .. Len(req) /\ k = Len(req) + 1
    BY <1>0, <2>2, <2>3 DEF Appended
  <2>5. arg'.req = k /\ (arg'.single <=> single)
    BY <1>0, <2>1, <2>2 DEF ArgSet
  <2>6. pc'["main"] = "wake" /\ pc'["cb"] = "off" /\ cur'["main"] = 0
    BY <1>0, <2>1
  <2>7. /\ ~MainAll /\ ~MainThis /\ ~Switching /\ (\A p \in Cpus : ~Aborted(p))
        /\ AllReq = NULL /\ (\A p \in Cpus : ThisReq(p) = Clock[p].WaitEvent) /\ Aside = {BspNumber}
    BY Between
  <2>8. MainAll' /\ ~MainThis' /\ ~Switching' /\ ~Resetting' /\ (\A p \in Cpus : ~Aborted(p)')
    BY <1>0, <2>6 DEF MainAll, MainThis, Switching, Aborted, Resetting
  <2>9. AllReq' = k /\ k # NULL
    BY <1>0, <2>4, <2>5, <2>8 DEF AllReq, NULL
  <2>10. \A p \in Cpus : /\ ~InAll(p) /\ ~InAll(p)' /\ ThisReq(p)' = ThisReq(p)
                         /\ Owner(p)' = Owner(p) /\ Owner(p) = ThisReq(p)
                         /\ ThisReq(p) \in 0 .. Len(req)
    <3>1. \A p \in Cpus : ~(p < 0) /\ ThisReq(p) \in 0 .. Len(req)
      BY <1>0, CpusFinite, OwnerRange
    <3>2. \A p \in Cpus : ~InAll(p) /\ ~InAll(p)' /\ ThisReq(p)' = ThisReq(p)
      BY <1>1, <2>6, <2>7, <2>8, <3>1 DEF InAll, ThisReq
    <3> QED BY <3>1, <3>2 DEF Owner
  <2>11. \A p \in Cpus : ThisReq(p) # k /\ (ThisReq(p) # NULL => req'[ThisReq(p)] = req[ThisReq(p)])
    BY <1>0, <2>4, <2>10 DEF NULL
  <2>12. CallsFit'
    <3>1. arg'.single <=> req'[arg'.req].single
      BY <2>3, <2>4, <2>5
    <3>2. \A f \in Frames : pc'[f] # "allIdle"
      BY <1>0, <2>6
    <3> QED BY <1>2, <2>6, <2>8, <2>9, <2>10, <2>11, <3>1, <3>2 DEF CallsFit
  <2>13. RoleFits' /\ Aside' = Aside
    <3>1. \A c \in Aside : SameAp(c)
      BY <1>1 DEF SameAp, apVars
    <3> QED BY <1>0, <1>1, <2>7, <2>8, <3>1, RoleFrame DEF MpInv
  <2>14. OneBoots' /\ Aps' = Aps
    BY <1>1, <2>13 DEF MpInv, OneBoots, Aps, apVars
  <2>15. Unowned'
    BY <1>0, <2>10, <2>13 DEF MpInv, Unowned
  <2>16. ApsFit'
    <3> SUFFICES ASSUME NEW p \in Aps PROVE ApFits(p)'
      BY <2>14 DEF ApsFit
    <3>1. p \in Cpus /\ ApFits(p) /\ SameAp(p) /\ SameReq(p)
      BY <1>0, <1>1, <2>10, <2>11 DEF MpInv, ApsFit, SameAp, SameReq, apVars
    <3> QED BY <2>7, <2>8, <2>10, <3>1, ApFrame
  <2>17. ThisFits'
    BY <2>10, <2>11 DEF MpInv, ThisFits
  <2>18. AllCounts'
    <3>1. IsFiniteSet(EnabledAPs)
      BY <2>a, CpusFinite, FS_Subset
    <3>2. 0 + Cardinality(EnabledAPs) = Cardinality(EnabledAPs)
      BY <3>1, FS_CardinalityType
    <3> QED BY <1>2, <2>3, <2>4, <2>9, <3>2 DEF AllCounts
  <2>19. TurnsFit'
    BY <1>2, <2>10, <2>a DEF TurnsFit
  <2>20. WakeFits'
    <3>1. \E p \in EnabledAPs : p >= 0
      <4>1. PICK p \in EnabledAPs : TRUE
        BY <1>4
      <4>2. p \in Nat
        BY <2>a, CpusFinite
      <4> QED BY <4>2
    <3>2. EnabledAPs \cap {BspNumber} = {}
      BY <2>a
    <3> QED BY <1>1, <1>2, <2>3, <2>4, <2>5, <2>6, <2>7, <2>13, <2>a, <3>1, <3>2 DEF WakeFits
  <2>21. EndedAccounted'
    <3>1. \A s \in DOMAIN req' : s \in DOMAIN req \/ s = k
      BY <1>0, <2>4
    <3> QED BY <2>3, <2>4, <3>1 DEF MpInv, EndedAccounted
  <2> QED BY <2>12, <2>13, <2>14, <2>15, <2>16, <2>17, <2>18, <2>19, <2>20, <2>21 DEF MpInv, Typed
<1> QED BY <1>3, <1>4

-----------------------------------------------------------------------------
\* StartupThisAP() is accepted.
LEMMA StartupThisInv ==
    ASSUME PromptAPs, MpInv, Typed', NEW p \in Cpus, NEW wait \in BOOLEAN, NEW limit \in Nat,
           StartupThisAP(p, wait, limit)
    PROVE  MpInv'
<1>0. /\ Typed /\ Aside \subseteq Cpus /\ Aps \subseteq Cpus /\ Frames = {"main", "cb"}
      /\ pc \in [Frames -> MainPlaces \cup CbPlaces] /\ cur \in [Frames -> Nat]
      /\ req \in Seq(ReqSet) /\ Len(req) \in Nat /\ Clock \in [Cpus -> ClockSet]
      /\ State \in [Cpus -> CpuStates] /\ Procedure \in [Cpus -> 0 .. MaxRequests + 1]
      /\ apPc \in [Cpus -> ApPlaces] /\ apProc \in [Cpus -> 0 .. MaxRequests + 1] /\ apCtx \in [Cpus -> Cpus]
  BY InvFacts, TypedFacts DEF Aps, Typed, MpTypes
<1>1. PICK k : k = Len(req) + 1
  OBVIOUS
<1>2. /\ pc["main"] = "ready" /\ pc["cb"] = "off" /\ p # BspNumber /\ State[p] = "Idle"
      /\ WakeUpAp(p, k, ReadyState(p))
      /\ Clock' = [Clock EXCEPT ![p] = StartClock(@, IF wait THEN k ELSE NULL, limit)]
      /\ req' = Append(req, NewRequest({p}, FALSE, limit))
      /\ IF wait THEN UNCHANGED <<pc, cur, arg>>
         ELSE /\ pc' = [pc EXCEPT !["main"] = "this"] /\ cur' = [cur EXCEPT !["main"] = p]
              /\ arg' = [NoArg EXCEPT !.req = k]
      /\ UNCHANGED <<all, swVars>>
  BY <1>1 DEF StartupThisAP, At, Runs, GotoAt, Goto
<1>3. /\ ~MainAll /\ ~MainThis /\ ~Resetting /\ ~Switching /\ (\A q \in Cpus : ~Aborted(q))
      /\ AllReq = all.Clock.WaitEvent /\ (\A q \in Cpus : ThisReq(q) = Clock[q].WaitEvent)
      /\ Aside = {BspNumber} /\ p \in Aps /\ ApFits(p)
  BY <1>2, Between
<1>4. Owner(p) = NULL /\ ThisReq(p) = NULL /\ ~InAll(p)
  BY <1>2, <1>3 DEF ApFits, Owner, InAll
<1> DEFINE new == NewRequest({p}, FALSE, limit)
<1>5. /\ Appended(new) /\ new.cpus = {p} /\ ~new.single /\ new.status = "open"
      /\ new.done = {} /\ new.failed = {}
  <2>1. {p} \in SUBSET Cpus /\ FALSE \in BOOLEAN
    OBVIOUS
  <2>2. Appended(new)
    BY <1>0, <1>2, <2>1, AppendedFact
  <2> QED BY <2>2 DEF NewRequest
<1> HIDE DEF new
<1>6. /\ \A s \in 1 .. Len(req) : req'[s] = req[s]
      /\ req'[k] = new /\ DOMAIN req' = 1 .. k /\ DOMAIN req = 1 .. Len(req) /\ k \notin 0 .. Len(req) /\ k # NULL
      /\ k \in Nat
  BY <1>0, <1>1, <1>5 DEF Appended, NULL
<1>7. \A q \in Cpus : Clock'[q].WaitEvent = IF q = p THEN (IF wait THEN k ELSE NULL) ELSE Clock[q].WaitEvent
  <2> DEFINE e == IF wait THEN k ELSE NULL
  <2>1. StartClock(Clock[p], e, limit).WaitEvent = e
    BY <1>0 DEF StartClock, ClockSet
  <2>2. Clock' = [Clock EXCEPT ![p] = StartClock(@, e, limit)]
    BY <1>2
  <2> HIDE DEF e
  <2>3. \A q \in Cpus : Clock'[q].WaitEvent = IF q = p THEN e ELSE Clock[q].WaitEvent
    BY <1>0, <2>1, <2>2
  <2> QED BY <2>3 DEF e
<1>8. /\ pc'["cb"] = "off" /\ pc'["main"] = (IF wait THEN "ready" ELSE "this")
      /\ ~wait => cur'["main"] = p /\ arg'.req = k
  BY <1>0, <1>2, NoArgType DEF ArgSet
<1>9. /\ ~MainAll' /\ (MainThis' <=> ~wait) /\ ~Resetting' /\ ~Switching' /\ (\A q \in Cpus : ~Aborted(q)')
  BY <1>0, <1>8 DEF MainAll, MainThis, Resetting, Switching, Aborted
<1>10. AllReq' = AllReq /\ \A q \in Cpus : InAll(q)' <=> InAll(q)
  BY <1>2, <1>3, <1>8, <1>9 DEF AllReq, InAll
<1>11. ThisReq(p)' = k /\ Owner(p)' = k /\ \A q \in Cpus \ {p} : ThisReq(q)' = ThisReq(q) /\ Owner(q)' = Owner(q)
  <2>1. ThisReq(p)' = k /\ \A q \in Cpus \ {p} : ThisReq(q)' = ThisReq(q)
    BY <1>3, <1>7, <1>8, <1>9 DEF ThisReq
  <2> QED BY <1>4, <1>10, <2>1 DEF Owner
<1>12. /\ \A q \in Cpus : ThisReq(q) \in 0 .. Len(req) /\ AllReq \in 0 .. Len(req)
       /\ \A q \in Cpus : ThisReq(q) # NULL => req'[ThisReq(q)] = req[ThisReq(q)]
       /\ AllReq # NULL => req'[AllReq] = req[AllReq]
       /\ \A q \in Cpus : Owner(q) # NULL => req'[Owner(q)] = req[Owner(q)]
  <2>1. \A q \in Cpus : ThisReq(q) \in 0 .. Len(req) /\ AllReq \in 0 .. Len(req) /\ Owner(q) \in 0 .. Len(req)
    BY <1>0, OwnerRange
  <2> QED BY <1>0, <1>6, <2>1 DEF NULL
<1>13. /\ \A q \in Cpus : apPc[q] # "boot"
       /\ mApFunction' = "ApProcWrapper" /\ apPc' = [apPc EXCEPT ![p] = "boot"]
       /\ apProc' = [apProc EXCEPT ![p] = NULL] /\ apCtx' = [apCtx EXCEPT ![p] = p]
       /\ Procedure' = [Procedure EXCEPT ![p] = k] /\ State' = [State EXCEPT ![p] = "Ready"]
  BY <1>2 DEF WakeUpAp, SendInitSipiSipi, ReadyState
<1>14. /\ \A q \in Cpus \ {p} : SameAp(q) /\ (Parked(q) => Parked(q)')
       /\ apPc'[p] = "boot" /\ apCtx'[p] = p /\ Procedure'[p] = k /\ State'[p] = "Ready"
       /\ OneBoots'
  BY <1>0, <1>13 DEF SameAp, Parked, OneBoots
<1>15. CallsFit'
  <2>1. MainThis' => Clock'[cur'["main"]].WaitEvent = NULL
    BY <1>7, <1>8, <1>9
  <2>2. \A f \in Frames : pc'[f] # "allIdle"
    BY <1>0, <1>8
  <2>3. AllReq' # NULL => /\ all'.Procedure = AllReq' /\ (all'.SingleThread <=> req'[AllReq'].single)
                          /\ \A q \in Cpus : ThisReq(q)' # AllReq'
    <3> SUFFICES ASSUME AllReq # NULL
                 PROVE  /\ all.Procedure = AllReq /\ (all.SingleThread <=> req'[AllReq].single)
                        /\ \A q \in Cpus : ThisReq(q)' # AllReq
      BY <1>2, <1>10
    <3>1. /\ all.Procedure = AllReq /\ (all.SingleThread <=> req[AllReq].single)
          /\ \A q \in Cpus : ThisReq(q) # AllReq
      BY <1>2 DEF MpInv, CallsFit
    <3>2. AllReq # k
      BY <1>6, <1>12
    <3> QED BY <1>11, <1>12, <3>1, <3>2
  <2>4. pc'["main"] \notin {"wake", "save", "exitWait"}
    BY <1>8
  <2> QED BY <1>9, <2>1, <2>2, <2>3, <2>4 DEF CallsFit
<1>16. RoleFits' /\ Aside' = Aside
  <2>1. \A c \in Aside : SameAp(c)
    BY <1>0, <1>2, <1>3, <1>14
  <2> QED BY <1>0, <1>2, <1>3, <1>9, <2>1, RoleFrame DEF MpInv
<1>17. Aps' = Aps
  BY <1>16 DEF Aps
<1>18. Unowned'
  BY <1>0, <1>2, <1>3, <1>10, <1>11, <1>16 DEF MpInv, Unowned
<1>19. ApsFit'
  <2> SUFFICES ASSUME NEW q \in Aps PROVE ApFits(q)'
    BY <1>17 DEF ApsFit
  <2>0. q \in Cpus /\ ApFits(q)
    BY <1>0 DEF MpInv, ApsFit
  <2>1. CASE q = p
    <3>1. Works(p, Owner(p))'
      BY <1>5, <1>6, <1>11, <1>13, <1>14 DEF Works
    <3> QED BY <1>4, <1>6, <1>9, <1>10, <1>11, <1>14, <2>1, <3>1 DEF ApFits
  <2>2. CASE q # p
    <3>1. SameAp(q) /\ SameReq(q)
      BY <1>12, <1>14, <2>0, <2>2 DEF SameReq
    <3> QED BY <1>3, <1>9, <1>10, <1>11, <2>0, <2>2, <3>1, ApFrame
  <2> QED BY <2>1, <2>2
<1>20. ThisFits'
  BY <1>5, <1>6, <1>11, <1>12 DEF MpInv, ThisFits
<1>21. AllCounts'
  BY <1>2, <1>3, <1>9, <1>10, <1>12 DEF MpInv, AllCounts
<1>22. TurnsFit'
  <2>1. \A q \in all.CpuList : q \in Cpus
    BY <1>0, TypedFacts
  <2>2. \A q \in all.CpuList : InAll(q) /\ Parked(q) => Parked(q)' /\ State'[q] = State[q]
    BY <1>4, <1>14, <2>1 DEF SameAp
  <2> QED BY <1>2, <1>10, <1>12, <2>1, <2>2 DEF MpInv, TurnsFit
<1>23. WakeFits'
  BY <1>8 DEF WakeFits
<1>24. EndedAccounted'
  <2>1. \A s \in DOMAIN req' : s \in DOMAIN req \/ s = k
    BY <1>0, <1>1, <1>6
  <2> QED BY <1>5, <1>6, <2>1 DEF MpInv, EndedAccounted
<1> QED BY <1>14, <1>15, <1>16, <1>18, <1>19, <1>20, <1>21, <1>22, <1>23, <1>24 DEF MpInv, Typed

\* SwitchBSP() begins: an idle AP becomes the future BSP.
LEMMA SwitchBSPInv ==
    ASSUME PromptAPs, MpInv, Typed', NEW p \in Cpus, NEW enable \in BOOLEAN, SwitchBSP(p, enable)
    PROVE  MpInv'
<1>0. /\ Typed /\ Aside \subseteq Cpus /\ Aps \subseteq Cpus /\ Frames = {"main", "cb"}
      /\ pc \in [Frames -> MainPlaces \cup CbPlaces]
      /\ Procedure \in [Cpus -> 0 .. MaxRequests + 1] /\ apPc \in [Cpus -> ApPlaces] /\ BspNumber \in Cpus
  BY InvFacts, TypedFacts DEF Aps, Typed, MpTypes
<1>2. /\ pc["main"] = "ready" /\ pc["cb"] = "off" /\ p # BspNumber /\ State[p] = "Idle"
      /\ BSPInfo' = "STORED" /\ APInfo' = "IDLE"
      /\ Procedure' = [Procedure EXCEPT ![p] = FutureBSPProc]
      /\ \A q \in Cpus : apPc[q] # "boot"
      /\ mApFunction' = "ApProcWrapper"
      /\ apPc' = [apPc EXCEPT ![p] = "boot", ![bspCpu] = "bspStored"]
      /\ arg' = [NoArg EXCEPT !.cpu = p, !.enable = enable]
      /\ pc' = [pc EXCEPT !["main"] = "exchange"]
      /\ UNCHANGED <<State, Clock, all, BspNumber, bspCpu, apProc, apCtx, cur, req>>
  BY DEF SwitchBSP, At, Runs, Goto
<1>3. /\ ~MainAll /\ ~MainThis /\ ~Resetting /\ ~Switching /\ (\A q \in Cpus : ~Aborted(q))
      /\ AllReq = all.Clock.WaitEvent /\ (\A q \in Cpus : ThisReq(q) = Clock[q].WaitEvent)
      /\ Aside = {BspNumber} /\ bspCpu = BspNumber /\ p \in Aps /\ ApFits(p)
  BY <1>2, Between
<1>4. Owner(p) = NULL /\ ThisReq(p) = NULL /\ ~InAll(p)
  BY <1>2, <1>3 DEF ApFits, Owner, InAll
<1>5. pc'["main"] = "exchange" /\ pc'["cb"] = "off" /\ arg'.cpu = p
  BY <1>0, <1>2, NoArgType DEF ArgSet
<1>6. ~MainAll' /\ ~MainThis' /\ ~Resetting' /\ Switching' /\ (\A q \in Cpus : ~Aborted(q)')
  BY <1>0, <1>5 DEF MainAll, MainThis, Resetting, Switching, Aborted
<1>7. SameOwners
  BY <1>2, <1>3, <1>5, <1>6 DEF SameOwners, AllReq, InAll, ThisReq, Owner
<1>8. /\ \A q \in Cpus \ {p, BspNumber} : SameAp(q) /\ (Parked(q) => Parked(q)')
      /\ apPc'[p] = "boot" /\ apPc'[BspNumber] = "bspStored" /\ Procedure'[p] = FutureBSPProc
      /\ OneBoots'
  BY <1>0, <1>2, <1>3 DEF SameAp, Parked, OneBoots
<1>9. Aside' = {BspNumber, p}
  BY <1>2, <1>3, <1>5 DEF Aside
<1>10. CallsFit'
  <2>1. \A f \in Frames : pc'[f] # "allIdle"
    BY <1>0, <1>5
  <2> QED BY <1>2, <1>3, <1>5, <1>6, <1>7, <2>1 DEF MpInv, CallsFit, SameOwners
<1>11. RoleFits'
  <2>1. apCtx[BspNumber] = BspNumber /\ State[BspNumber] \in {"Idle", "Busy"} /\ apCtx[p] = p
    BY <1>3 DEF MpInv, RoleFits, ApFits
  <2>2. Entering(p)'
    BY <1>2, <1>8 DEF Entering
  <2>3. OldStored(BspNumber, p)'
    BY <1>2, <1>8, <2>1, <2>2 DEF OldStored, Entering
  <2> QED BY <1>2, <1>3, <1>5, <2>1, <2>3 DEF RoleFits, Switching
<1>12. Unowned'
  BY <1>0, <1>3, <1>4, <1>7, <1>9 DEF MpInv, Unowned, SameOwners
<1>13. ApsFit'
  <2> SUFFICES ASSUME NEW q \in Aps \ {p} PROVE ApFits(q)'
    BY <1>3, <1>9 DEF ApsFit, Aps
  <2>1. q \in Cpus /\ ApFits(q) /\ SameReq(q) /\ q # BspNumber
    BY <1>0, <1>2, <1>3 DEF MpInv, ApsFit, SameReq, Aps
  <2> QED BY <1>3, <1>6, <1>7, <1>8, <2>1, ApFrame DEF SameOwners
<1>14. ThisFits'
  BY <1>2, <1>7 DEF MpInv, ThisFits, SameOwners
<1>15. AllCounts'
  BY <1>2, <1>3, <1>6, <1>7 DEF MpInv, AllCounts, SameOwners
<1>16. TurnsFit'
  <2>1. \A q \in all.CpuList : q \in Cpus
    BY <1>0, TypedFacts
  <2>2. \A q \in all.CpuList : InAll(q) /\ Parked(q) => Parked(q)'
    BY <1>3, <1>4, <1>8, <2>1 DEF MpInv, Unowned
  <2> QED BY <1>2, <1>7, <2>1, <2>2 DEF MpInv, TurnsFit, SameOwners
<1>17. WakeFits' /\ EndedAccounted'
  BY <1>2, <1>5 DEF WakeFits, MpInv, EndedAccounted
<1> QED BY <1>8, <1>10, <1>11, <1>12, <1>13, <1>14, <1>15, <1>16, <1>17 DEF MpInv, Typed

\* EnableDisableAP().
LEMMA EnableDisableInv ==
    ASSUME CarefulCallers, MpInv, Typed', NEW p \in Cpus, NEW enabled \in BOOLEAN, EnableDisableAP(p, enabled)
    PROVE  MpInv'
<1>0. /\ Typed /\ Aside \subseteq Cpus /\ Aps \subseteq Cpus /\ Frames = {"main", "cb"}
      /\ State \in [Cpus -> CpuStates]
  BY InvFacts, TypedFacts DEF Aps, Typed, MpTypes
<1>2. /\ pc["main"] = "ready" /\ pc["cb"] = "off" /\ p # BspNumber /\ State[p] \in {"Idle", "Disabled"}
      /\ State' = [State EXCEPT ![p] = IF enabled THEN "Idle" ELSE "Disabled"]
      /\ UNCHANGED <<Procedure, Clock, all, mApFunction, swVars, apVars, pc, cur, arg, req>>
  BY DEF EnableDisableAP, At, Runs, ChangeCpuState, bspVars
<1>3. /\ ~MainAll /\ ~MainThis /\ (\A q \in Cpus : ~Aborted(q)) /\ p \in Aps /\ ApFits(p) /\ Aside = {BspNumber}
  BY <1>2, Between
<1>4. SameOwners /\ (Resetting' <=> Resetting) /\ \A q \in Cpus : Aborted(q)' <=> Aborted(q)
  BY <1>0, <1>2, ApKeeps
<1>5. Owner(p) = NULL /\ ThisReq(p) = NULL /\ ~InAll(p) /\ Parked(p)
  BY <1>2, <1>3 DEF ApFits, Owner, InAll
<1>6. /\ State'[p] \in {"Idle", "Disabled"} /\ \A q \in Cpus \ {p} : SameAp(q)
      /\ \A q : Parked(q)' <=> Parked(q)
  BY <1>0, <1>2 DEF SameAp, Parked, apVars
<1>7. CallsFit'
  BY <1>2, <1>4 DEF MpInv, CallsFit, SameOwners, MainAll, MainThis
<1>8. RoleFits' /\ Aside' = Aside
  BY <1>0, <1>2, <1>3, <1>6, RoleFrame DEF MpInv, Aside
<1>9. OneBoots' /\ Aps' = Aps
  BY <1>2, <1>8 DEF MpInv, OneBoots, Aps, apVars
<1>10. Unowned'
  BY <1>0, <1>4, <1>8 DEF MpInv, Unowned, SameOwners
<1>11. ApsFit'
  <2> SUFFICES ASSUME NEW q \in Aps PROVE ApFits(q)'
    BY <1>9 DEF ApsFit
  <2>1. q \in Cpus /\ ApFits(q) /\ SameReq(q)
    BY <1>0, <1>2 DEF MpInv, ApsFit, SameReq
  <2>2. CASE q = p
    BY <1>2, <1>3, <1>4, <1>5, <1>6, <2>2 DEF ApFits, SameOwners, apVars
  <2>3. CASE q # p
    BY <1>4, <1>6, <2>1, <2>3, ApFrame DEF SameOwners
  <2> QED BY <2>2, <2>3
<1>12. ThisFits' /\ AllCounts'
  BY <1>2, <1>4 DEF MpInv, ThisFits, AllCounts, SameOwners
<1>13. TurnsFit'
  <2>1. \A q \in all.CpuList : q \in Cpus
    BY <1>0, TypedFacts
  <2>2. \A q \in all.CpuList : InAll(q) => State'[q] = State[q]
    BY <1>5, <1>6, <2>1 DEF SameAp
  <2> QED BY <1>2, <1>4, <1>6, <2>1, <2>2 DEF MpInv, TurnsFit, SameOwners
<1>14. WakeFits' /\ EndedAccounted'
  BY <1>2 DEF WakeFits, MpInv, EndedAccounted
<1> QED BY <1>7, <1>8, <1>9, <1>10, <1>11, <1>12, <1>13, <1>14 DEF MpInv, Typed

\* SwitchBSP() ends: the old BSP is parked and becomes an AP.
LEMMA SwitchDoneInv ==
    ASSUME MpInv, Typed', SwitchDone
    PROVE  MpInv'
<1>0. /\ Typed /\ Aside \subseteq Cpus /\ Aps \subseteq Cpus /\ Frames = {"main", "cb"}
      /\ State \in [Cpus -> CpuStates] /\ arg.cpu \in Cpus /\ BspNumber \in Cpus
  BY InvFacts, TypedFacts DEF Aps, Typed, MpTypes
<1>1. PICK o \in Cpus, t \in Cpus : o = BspNumber /\ t = arg.cpu
  BY <1>0
<1>2. /\ pc["main"] = "switched" /\ pc["cb"] = "off" /\ State[o] = "Finished"
      /\ State' = [State EXCEPT ![o] = IF arg.enable THEN "Idle" ELSE "Disabled"]
      /\ BspNumber' = t /\ MainReturns
      /\ UNCHANGED <<Procedure, Clock, all, mApFunction, bspCpu, apVars, req>>
  BY <1>1 DEF SwitchDone, At, Runs, ChangeCpuState, OldBspFinished
<1>3. pc'["main"] \in {"exited", "ready"} /\ pc'["cb"] = "off"
  BY <1>0, <1>2, MainReturnsTypes, TypesSplit DEF Typed
<1>4. ~MainAll /\ ~MainThis /\ ~Resetting /\ ~MainAll' /\ ~MainThis' /\ ~Resetting' /\ ~Switching'
      /\ (\A q \in Cpus : ~Aborted(q) /\ ~Aborted(q)')
  BY <1>0, <1>2, <1>3 DEF MainAll, MainThis, Resetting, Switching, Aborted
<1>5. SameOwners
  BY <1>2, <1>3, <1>4 DEF SameOwners, AllReq, InAll, ThisReq, Owner
<1>6. /\ bspCpu = t /\ t # o /\ apCtx[t] = t /\ apPc[t] = "bsp" /\ State[t] = "Busy"
      /\ apProc[t] # FutureBSPProc /\ apPc[o] = "hlt" /\ apCtx[o] = o
  BY <1>1, <1>2 DEF MpInv, RoleFits, OldLoaded, Leaving
<1>7. Aside = {o, t} /\ Aside' = {t}
  BY <1>1, <1>2, <1>3, <1>6 DEF Aside
<1>8. /\ State'[o] \in {"Idle", "Disabled"} /\ \A q \in Cpus \ {o} : SameAp(q)
      /\ \A q : Parked(q)' <=> Parked(q)
  BY <1>0, <1>2 DEF SameAp, Parked, apVars
<1>9. CallsFit'
  <2>1. \A f \in Frames : pc'[f] # "allIdle"
    BY <1>0, <1>3
  <2> QED BY <1>2, <1>3, <1>4, <1>5, <2>1 DEF MpInv, CallsFit, SameOwners
<1>10. RoleFits'
  BY <1>2, <1>3, <1>4, <1>6, <1>8 DEF RoleFits, Switching, SameAp
<1>11. OneBoots'
  BY <1>2 DEF MpInv, OneBoots, apVars
<1>12. Unowned' /\ ~InAll(o) /\ ThisReq(o) = NULL
  BY <1>1, <1>5, <1>7 DEF MpInv, Unowned, SameOwners
<1>13. ApsFit'
  <2> SUFFICES ASSUME NEW q \in Cpus \ {t} PROVE ApFits(q)'
    BY <1>7 DEF ApsFit, Aps
  <2>1. CASE q = o
    <3>1. ~InAll(o)' /\ ThisReq(o)' = NULL /\ Owner(o)' = NULL
      BY <1>5, <1>12 DEF SameOwners, Owner
    <3>2. Parked(o)' /\ apCtx'[o] = o
      BY <1>2, <1>6, <1>8 DEF Parked, apVars
    <3> QED BY <1>8, <2>1, <3>1, <3>2 DEF ApFits
  <2>2. CASE q # o
    <3>1. q \in Aps /\ ApFits(q) /\ SameReq(q) /\ SameAp(q)
      BY <1>2, <1>7, <1>8, <2>2 DEF MpInv, ApsFit, SameReq, Aps
    <3> QED BY <1>4, <1>5, <3>1, ApFrame DEF SameOwners
  <2> QED BY <2>1, <2>2
<1>14. ThisFits' /\ AllCounts'
  BY <1>2, <1>4, <1>5 DEF MpInv, ThisFits, AllCounts, SameOwners
<1>15. TurnsFit'
  <2>1. \A q \in all.CpuList : q \in Cpus
    BY <1>0, TypedFacts
  <2>2. \A q \in all.CpuList : InAll(q) => State'[q] = State[q]
    BY <1>8, <1>12, <2>1 DEF SameAp
  <2> QED BY <1>2, <1>5, <1>8, <2>1, <2>2 DEF MpInv, TurnsFit, SameOwners
<1>16. WakeFits' /\ EndedAccounted'
  BY <1>2, <1>3 DEF WakeFits, MpInv, EndedAccounted
<1> QED BY <1>9, <1>10, <1>11, <1>12, <1>13, <1>14, <1>15, <1>16 DEF MpInv, Typed

-----------------------------------------------------------------------------
\* StartupAllAPs() wakes the next processor, or makes it wait for its turn.
LEMMA WakeNextInv ==
    ASSUME PromptAPs, MpInv, Typed', WakeNext
    PROVE  MpInv'
<1>0. /\ Typed /\ Aside \subseteq Cpus /\ Aps \subseteq Cpus /\ Frames = {"main", "cb"}
      /\ pc \in [Frames -> MainPlaces \cup CbPlaces] /\ cur \in [Frames -> Nat]
      /\ all.CpuList \in SUBSET Cpus /\ all.CpuList \subseteq Nat
      /\ State \in [Cpus -> CpuStates] /\ Procedure \in [Cpus -> 0 .. MaxRequests + 1]
      /\ apPc \in [Cpus -> ApPlaces] /\ apProc \in [Cpus -> 0 .. MaxRequests + 1] /\ apCtx \in [Cpus -> Cpus]
  BY InvFacts, TypedFacts, CpusFinite DEF Aps, Typed, MpTypes
<1> DEFINE rest == {p \in all.CpuList : p >= cur["main"]}
<1>1. rest # {} /\ rest \in SUBSET Cpus
  BY <1>0 DEF WakeNext
<1>2. PICK m \in Cpus : m = Min(rest) /\ m \in rest /\ \A q \in rest : m <= q
  BY <1>1, MinCpu
<1>3. /\ pc["main"] = "wake" /\ pc["cb"] = "off"
      /\ IF WaitsItsTurn(m)
         THEN State' = ReadyState(m) /\ UNCHANGED <<Procedure, mApFunction, apVars>>
         ELSE WakeUpAp(m, arg.req, ReadyState(m))
      /\ IF m = Max(all.CpuList)
         THEN pc' = [pc EXCEPT !["main"] = "save"] /\ cur' = [cur EXCEPT !["main"] = 0]
         ELSE pc' = [pc EXCEPT !["main"] = "wake"] /\ cur' = [cur EXCEPT !["main"] = m + 1]
      /\ UNCHANGED <<Clock, all, swVars, arg, req>>
  BY <1>2 DEF WakeNext, At, Runs, GotoAt, Goto
<1>4. m \in all.CpuList /\ m >= cur["main"] /\ \A q \in all.CpuList : q >= cur["main"] => m <= q
  BY <1>2
<1> HIDE DEF rest
<1>5. PICK k : k = arg.req
  OBVIOUS
<1>6. MainAll /\ ~MainThis /\ ~Resetting /\ ~Switching /\ \A q \in Cpus : ~Aborted(q)
  BY <1>0, <1>3 DEF MainAll, MainThis, Resetting, Switching, Aborted
<1>7. AllReq = k /\ k # NULL /\ k \in 1 .. Len(req) /\ (arg.single <=> req[k].single)
  <2>1. AllReq = k /\ k # NULL
    BY <1>0, <1>5, <1>6 DEF AllReq, Typed, ThreadsFit
  <2>2. k \in 1 .. Len(req)
    BY <1>0, <1>5, <2>1, TypedFacts DEF NULL
  <2>3. arg.single <=> req[k].single
    BY <1>3, <1>5 DEF MpInv, CallsFit
  <2> QED BY <2>1, <2>2, <2>3
<1>8. /\ State[m] = "Idle" /\ m \notin req[k].done /\ m \in Aps
  BY <1>3, <1>4, <1>5 DEF MpInv, WakeFits, Aps
<1>9. ApFits(m) /\ Owner(m) = NULL /\ Parked(m) /\ ThisReq(m) = NULL /\ ~InAll(m)
  BY <1>7, <1>8 DEF MpInv, ApsFit, ApFits, Owner
<1>10. /\ pc'["cb"] = "off"
       /\ IF m = Max(all.CpuList) THEN pc'["main"] = "save" ELSE pc'["main"] = "wake" /\ cur'["main"] = m + 1
  BY <1>0, <1>3
<1>11. MainAll' /\ ~MainThis' /\ ~Resetting' /\ ~Switching' /\ \A q \in Cpus : ~Aborted(q)'
  BY <1>0, <1>10 DEF MainAll, MainThis, Resetting, Switching, Aborted
<1>12. AllReq' = k /\ \A q \in Cpus : ThisReq(q)' = ThisReq(q)
  BY <1>3, <1>5, <1>6, <1>11 DEF AllReq, ThisReq
<1>13. all.CpuList # {} /\ Max(all.CpuList) \in all.CpuList /\ \A q \in all.CpuList : q <= Max(all.CpuList)
  BY <1>0, <1>4, MaxFact
<1>14. \A q \in Cpus : InAll(q)' <=> q \in all.CpuList /\ q <= m
  <2> SUFFICES ASSUME NEW q \in Cpus PROVE InAll(q)' <=> q \in all.CpuList /\ q <= m
    OBVIOUS
  <2>1. q \in Nat /\ m \in Nat
    BY CpusFinite
  <2>2. CASE m = Max(all.CpuList)
    BY <1>3, <1>7, <1>10, <1>12, <1>13, <2>2 DEF InAll
  <2>3. CASE m # Max(all.CpuList)
    BY <1>3, <1>7, <1>10, <1>12, <2>1, <2>3 DEF InAll
  <2> QED BY <2>2, <2>3
<1>15. /\ InAll(m)' /\ \A q \in Cpus \ {m} : InAll(q)' <=> InAll(q)
  <2>1. InAll(m)'
    BY <1>4, <1>14, CpusFinite
  <2>2. ASSUME NEW q \in Cpus \ {m} PROVE InAll(q)' <=> InAll(q)
    <3>1. q \in Nat /\ m \in Nat /\ cur["main"] \in Nat
      BY <1>0, CpusFinite
    <3>2. InAll(q) <=> q \in all.CpuList /\ q < cur["main"]
      BY <1>3, <1>7 DEF InAll
    <3> QED BY <1>4, <1>14, <3>1, <3>2
  <2> QED BY <2>1, <2>2
<1>16. Owner(m)' = k /\ \A q \in Cpus \ {m} : Owner(q)' = Owner(q)
  BY <1>7, <1>12, <1>15 DEF Owner
<1>17. \/ /\ WaitsItsTurn(m) /\ UNCHANGED <<Procedure, mApFunction, apVars>>
       \/ /\ ~WaitsItsTurn(m)
          /\ \A q \in Cpus : apPc[q] # "boot"
          /\ mApFunction' = "ApProcWrapper" /\ apPc' = [apPc EXCEPT ![m] = "boot"]
          /\ apProc' = [apProc EXCEPT ![m] = NULL] /\ apCtx' = [apCtx EXCEPT ![m] = m]
          /\ Procedure' = [Procedure EXCEPT ![m] = k]
  BY <1>3, <1>5 DEF WakeUpAp, SendInitSipiSipi
<1>18. State'[m] = "Ready" /\ \A q \in Cpus \ {m} : State'[q] = State[q]
  BY <1>0, <1>3 DEF WakeUpAp, ReadyState
<1>19. /\ \A q \in Cpus \ {m} : SameAp(q) /\ (Parked(q) => Parked(q)')
       /\ apCtx'[m] = m /\ OneBoots'
       /\ Works(m, k)'
       /\ WaitsItsTurn(m) => Parked(m)'
  <2>1. CASE WaitsItsTurn(m)
    <3>1. UNCHANGED <<Procedure, mApFunction, apPc, apProc, apCtx>> /\ apCtx[m] = m
      BY <1>9, <1>17, <2>1 DEF ApFits, apVars
    <3>2. Parked(m)' /\ req[k].single
      BY <1>7, <1>9, <2>1, <3>1 DEF Parked, WaitsItsTurn
    <3>3. Works(m, k)'
      BY <1>3, <1>8, <1>18, <3>2 DEF Works
    <3> QED BY <1>18, <3>1, <3>2, <3>3 DEF SameAp, Parked, MpInv, OneBoots
  <2>2. CASE ~WaitsItsTurn(m)
    <3>1. /\ \A q \in Cpus : apPc[q] # "boot"
          /\ mApFunction' = "ApProcWrapper" /\ apPc' = [apPc EXCEPT ![m] = "boot"]
          /\ apProc' = [apProc EXCEPT ![m] = NULL] /\ apCtx' = [apCtx EXCEPT ![m] = m]
          /\ Procedure' = [Procedure EXCEPT ![m] = k]
      BY <1>17, <2>2
    <3>2. apPc'[m] = "boot" /\ apCtx'[m] = m /\ Procedure'[m] = k
      BY <1>0, <3>1
    <3>3. Works(m, k)'
      BY <1>3, <1>8, <1>18, <3>1, <3>2 DEF Works
    <3>4. \A q \in Cpus \ {m} : SameAp(q) /\ (Parked(q) => Parked(q)')
      BY <1>0, <1>18, <3>1 DEF SameAp, Parked
    <3>5. OneBoots'
      BY <1>0, <3>1 DEF OneBoots
    <3> QED BY <2>2, <3>2, <3>3, <3>4, <3>5
  <2> QED BY <2>1, <2>2
<1>20. CallsFit'
  <2>1. \A f \in Frames : pc'[f] # "allIdle"
    BY <1>0, <1>10
  <2>2. pc'["main"] \in {"wake", "save"} /\ (arg'.single <=> req'[arg'.req].single)
    BY <1>3, <1>5, <1>7, <1>10
  <2>3. all'.Clock.WaitEvent = NULL /\ \A q \in Cpus : ThisReq(q)' # k
    BY <1>3, <1>6, <1>7, <1>12 DEF MpInv, CallsFit
  <2> QED BY <1>11, <1>12, <2>1, <2>2, <2>3 DEF CallsFit
<1>21. RoleFits' /\ Aside' = Aside
  <2>1. \A c \in Aside : SameAp(c)
    BY <1>0, <1>8, <1>19 DEF Aps
  <2> QED BY <1>0, <1>3, <1>6, <1>11, <2>1, RoleFrame DEF MpInv
<1>22. Aps' = Aps
  BY <1>21 DEF Aps
<1>23. Unowned'
  <2>1. m \notin Aside
    BY <1>8 DEF Aps
  <2> QED BY <1>0, <1>12, <1>15, <1>21, <2>1 DEF MpInv, Unowned
<1>24. ApsFit'
  <2> SUFFICES ASSUME NEW q \in Aps PROVE ApFits(q)'
    BY <1>22 DEF ApsFit
  <2>0. q \in Cpus /\ ApFits(q) /\ SameReq(q)
    BY <1>0, <1>3 DEF MpInv, ApsFit, SameReq
  <2>1. CASE q = m
    <3>1. Works(m, Owner(m))'
      BY <1>16, <1>19 DEF Works
    <3> QED BY <1>7, <1>9, <1>11, <1>12, <1>16, <1>18, <1>19, <2>1, <3>1 DEF ApFits
  <2>2. CASE q # m
    BY <1>6, <1>11, <1>12, <1>15, <1>16, <1>19, <2>0, <2>2, ApFrame
  <2> QED BY <2>1, <2>2
<1>25. ThisFits'
  BY <1>3, <1>12 DEF MpInv, ThisFits
<1>26. AllCounts'
  BY <1>3, <1>6, <1>7, <1>11, <1>12 DEF MpInv, AllCounts
<1>27. TurnsFit'
  <2> SUFFICES ASSUME req[k].single, NEW p \in all.CpuList, NEW q \in all.CpuList, InAll(p)', q < p
               PROVE  State'[p] = "Ready" /\ Parked(p)'
    BY <1>3, <1>12 DEF TurnsFit
  <2>1. CASE p = m
    <3>1. m # Min(all.CpuList)
      <4>1. Min(all.CpuList) <= q /\ Min(all.CpuList) \in Nat /\ q \in Nat /\ p \in Nat
        BY <1>0, <1>13, MinCpu
      <4> QED BY <2>1, <4>1
    <3>2. WaitsItsTurn(m)
      BY <1>7, <3>1 DEF WaitsItsTurn
    <3> QED BY <1>18, <1>19, <2>1, <3>2
  <2>2. CASE p # m
    <3>1. p \in Cpus /\ InAll(p)
      BY <1>0, <1>15, <2>2
    <3>2. State[p] = "Ready" /\ Parked(p)
      BY <1>7, <3>1 DEF MpInv, TurnsFit
    <3> QED BY <1>18, <1>19, <2>2, <3>1, <3>2
  <2> QED BY <2>1, <2>2
<1>28. WakeFits'
  <2> SUFFICES ASSUME pc'["main"] = "wake" PROVE WakeFits'
    BY DEF WakeFits
  <2>0. m # Max(all.CpuList) /\ cur'["main"] = m + 1 /\ m \in Nat
    BY <1>10, CpusFinite
  <2>1. ASSUME NEW p \in all.CpuList, p >= m + 1
        PROVE  State'[p] = "Idle" /\ p \notin req[arg.req].done
    <3>1. p \in Nat /\ cur["main"] \in Nat /\ p \in Cpus
      BY <1>0
    <3>2. p >= cur["main"] /\ p # m
      BY <1>4, <2>0, <2>1, <3>1
    <3>3. State[p] = "Idle" /\ p \notin req[arg.req].done
      BY <1>3, <3>2 DEF MpInv, WakeFits
    <3> QED BY <1>18, <3>1, <3>2, <3>3
  <2>2. \E p \in all.CpuList : p >= m + 1
    <3>1. Max(all.CpuList) \in Nat /\ m <= Max(all.CpuList)
      BY <1>0, <1>4, <1>13
    <3> QED BY <1>13, <2>0, <3>1
  <2>3. all.CpuList \cap Aside = {}
    BY <1>3 DEF MpInv, WakeFits
  <2> QED BY <1>3, <1>21, <2>0, <2>1, <2>2, <2>3 DEF WakeFits
<1>29. EndedAccounted'
  BY <1>3 DEF MpInv, EndedAccounted
<1> QED BY <1>19, <1>20, <1>21, <1>23, <1>24, <1>25, <1>26, <1>27, <1>28, <1>29 DEF MpInv, Typed

\* StartupAllAPs() hands the request to CheckAPsStatus() or to its own loop.
LEMMA SaveRequestInv ==
    ASSUME MpInv, Typed', SaveRequest
    PROVE  MpInv'
<1>0. /\ Typed /\ Aside \subseteq Cpus /\ Aps \subseteq Cpus /\ Frames = {"main", "cb"}
      /\ pc \in [Frames -> MainPlaces \cup CbPlaces]
      /\ all \in AllSet /\ all.Clock \in ClockSet /\ arg \in ArgSet
  BY InvFacts, TypedFacts DEF Aps, Typed, MpTypes
<1> DEFINE e == IF arg.wait THEN arg.req ELSE NULL
           place == IF arg.wait THEN "ready" ELSE "all"
           clock == StartClock(all.Clock, e, arg.limit)
<1>1. /\ pc["main"] = "save" /\ pc["cb"] = "off"
      /\ all' = [all EXCEPT !.SingleThread = arg.single, !.Procedure = arg.req, !.Clock = clock]
      /\ pc' = [pc EXCEPT !["main"] = place]
      /\ arg' = IF arg.wait THEN NoArg ELSE arg
      /\ UNCHANGED <<State, Procedure, Clock, mApFunction, swVars, apVars, cur, req>>
  BY DEF SaveRequest, At, Runs, Goto, cpuData
<1>2. clock.WaitEvent = e
  BY <1>0 DEF StartClock, ClockSet
<1> HIDE DEF clock
<1>3. /\ all'.CpuList = all.CpuList /\ all'.StartCount = all.StartCount /\ all'.FinishCount = all.FinishCount
      /\ all'.Procedure = arg.req /\ all'.Clock.WaitEvent = e
  BY <1>0, <1>1, <1>2 DEF AllSet
<1>3a. all'.SingleThread = arg.single
  BY <1>0, <1>1 DEF AllSet
<1>4. pc'["main"] = place /\ pc'["cb"] = "off"
  BY <1>0, <1>1
<1>5. PICK k : k = arg.req
  OBVIOUS
<1>6. MainAll /\ ~MainThis /\ ~Resetting /\ ~Switching /\ \A q \in Cpus : ~Aborted(q)
  BY <1>0, <1>1 DEF MainAll, MainThis, Resetting, Switching, Aborted
<1>7. (MainAll' <=> ~arg.wait) /\ ~MainThis' /\ ~Resetting' /\ ~Switching' /\ \A q \in Cpus : ~Aborted(q)'
  BY <1>0, <1>4 DEF MainAll, MainThis, Resetting, Switching, Aborted
<1>8. AllReq = k /\ k # NULL /\ (arg.single <=> req[k].single)
  <2>1. AllReq = k /\ k # NULL
    BY <1>0, <1>5, <1>6 DEF AllReq, Typed, ThreadsFit
  <2>2. arg.single <=> req[k].single
    BY <1>1, <1>5 DEF MpInv, CallsFit
  <2> QED BY <2>1, <2>2
<1>9. AllReq' = k
  <2>1. CASE arg.wait
    BY <1>3, <1>5, <1>7, <2>1 DEF AllReq
  <2>2. CASE ~arg.wait
    BY <1>1, <1>5, <1>7, <2>2 DEF AllReq
  <2> QED BY <2>1, <2>2
<1>10. SameOwners
  BY <1>1, <1>3, <1>4, <1>6, <1>7, <1>8, <1>9 DEF SameOwners, InAll, ThisReq, Owner
<1>11. CallsFit'
  <2>1. \A f \in Frames : pc'[f] # "allIdle"
    BY <1>0, <1>4
  <2>2. MainAll' \/ pc'["main"] = "exitWait" => all'.Clock.WaitEvent = NULL
    BY <1>3, <1>4, <1>7
  <2>3. pc'["main"] \notin {"wake", "save"}
    BY <1>4
  <2>4. all'.Procedure = k /\ (all'.SingleThread <=> req'[k].single)
    BY <1>1, <1>3, <1>3a, <1>5, <1>8
  <2>5. \A q \in Cpus : ThisReq(q)' # k
    BY <1>8, <1>10 DEF MpInv, CallsFit, SameOwners
  <2> QED BY <1>7, <1>9, <2>1, <2>2, <2>3, <2>4, <2>5 DEF CallsFit
<1>12. RoleFits' /\ Aside' = Aside
  <2>1. \A c \in Aside : SameAp(c)
    BY <1>1 DEF SameAp, apVars
  <2> QED BY <1>0, <1>1, <1>6, <1>7, <2>1, RoleFrame DEF MpInv
<1>13. OneBoots' /\ Aps' = Aps
  BY <1>1, <1>12 DEF MpInv, OneBoots, Aps, apVars
<1>14. Unowned'
  BY <1>0, <1>10, <1>12 DEF MpInv, Unowned, SameOwners
<1>15. ApsFit'
  <2> SUFFICES ASSUME NEW p \in Aps PROVE ApFits(p)'
    BY <1>13 DEF ApsFit
  <2>1. p \in Cpus /\ ApFits(p) /\ SameAp(p) /\ SameReq(p)
    BY <1>0, <1>1 DEF MpInv, ApsFit, SameAp, SameReq, apVars
  <2> QED BY <1>6, <1>7, <1>10, <2>1, ApFrame DEF SameOwners
<1>16. ThisFits'
  BY <1>1, <1>10 DEF MpInv, ThisFits, SameOwners
<1>17. AllCounts'
  BY <1>1, <1>3, <1>6, <1>7, <1>8, <1>9 DEF MpInv, AllCounts
<1>18. TurnsFit'
  <2>1. \A p \in all.CpuList : p \in Cpus
    BY <1>0, TypedFacts
  <2> QED BY <1>1, <1>3, <1>10, <2>1 DEF MpInv, TurnsFit, SameOwners, Parked, apVars
<1>19. WakeFits' /\ EndedAccounted'
  BY <1>1, <1>4 DEF WakeFits, MpInv, EndedAccounted
<1> QED BY <1>11, <1>12, <1>13, <1>14, <1>15, <1>16, <1>17, <1>18, <1>19 DEF MpInv, Typed

-----------------------------------------------------------------------------
\* Every step of CheckAllAPs() and CheckThisAP() keeps MpInv.
LEMMA CheckInv ==
    ASSUME PromptAPs, MpInv, Typed', NEW f \in Frames, Check(f)
    PROVE  MpInv'
<1>1. \A delta \in 0 .. MaxDelta : delta \in Nat
  BY BoundsAssumption
<1> QED BY <1>1, CheckAllOneInv, ResetNextInv, ResetIdleInv, CheckThisStateInv, CheckThisIdleInv,
           CheckAllEndInv, CheckThisTimeInv DEF Check

\* Every call keeps MpInv.
LEMMA CallInv ==
    ASSUME CarefulCallers, PromptAPs, MpInv, Typed', Call
    PROVE  MpInv'
<1>1. CASE CallStartupAllAPs
  <2>1. PICK c \in AllCalls : StartupAllAPs(c.single, c.wait, c.limit, FALSE)
    BY <1>1 DEF CallStartupAllAPs
  <2>2. c.single \in BOOLEAN /\ c.wait \in BOOLEAN /\ c.limit \in Nat /\ FALSE \in BOOLEAN
    BY BoundsAssumption
  <2>3. pc["main"] \in {"ready", "exitWait"} /\ pc["cb"] = "off" /\ all.Clock.WaitEvent = NULL
    BY <1>1 DEF CallStartupAllAPs, At, Runs
  <2> QED BY <2>1, <2>2, <2>3, StartupAllInv
<1>2. CASE \E p \in Cpus, c \in ThisCalls : StartupThisAP(p, c.wait, c.limit)
  <2>1. PICK p \in Cpus, c \in ThisCalls : StartupThisAP(p, c.wait, c.limit)
    BY <1>2
  <2>2. c.wait \in BOOLEAN /\ c.limit \in Nat
    BY BoundsAssumption
  <2> QED BY <2>1, <2>2, StartupThisInv
<1> QED BY <1>1, <1>2, NotReadyInv, SwitchBSPInv, EnableDisableInv, ExitBootServicesInv DEF Call

\* Every step keeps MpInv.
LEMMA NextInv ==
    ASSUME CarefulCallers, PromptAPs, MpInv, [Next]_vars
    PROVE  MpInv'
<1>0. Typed /\ Typed'
  BY InvFacts, NextTyped
<1>1. CASE UNCHANGED vars
  <2>1. UNCHANGED <<State, Procedure, Clock, all, mStopCheckAPsStatus, mApFunction, BspNumber, bspCpu, BSPInfo, APInfo,
                    apPc, apProc, apCtx, pc, cur, arg, req>>
    BY <1>1 DEF vars, cpuData, apVars, swVars, bspVars
  <2>2. \A p : /\ AllReq' = AllReq /\ (InAll(p)' <=> InAll(p)) /\ ThisReq(p)' = ThisReq(p) /\ Owner(p)' = Owner(p)
               /\ (Aborted(p)' <=> Aborted(p)) /\ (Parked(p)' <=> Parked(p))
    BY <2>1 DEF AllReq, InAll, ThisReq, Owner, Aborted, Parked, MainAll, MainThis
  <2>3. (Resetting' <=> Resetting) /\ (Switching' <=> Switching) /\ Aside' = Aside /\ Aps' = Aps
        /\ (MainAll' <=> MainAll) /\ (MainThis' <=> MainThis)
    BY <2>1 DEF Resetting, Switching, Aside, Aps, MainAll, MainThis
  <2>4. CallsFit' /\ OneBoots' /\ Unowned' /\ ThisFits' /\ AllCounts' /\ TurnsFit' /\ WakeFits' /\ EndedAccounted'
    BY <2>1, <2>2, <2>3 DEF MpInv, CallsFit, OneBoots, Unowned, ThisFits, AllCounts, TurnsFit, WakeFits, EndedAccounted
  <2>5. RoleFits'
    <3>1. \A c \in Aside : SameAp(c)
      BY <2>1 DEF SameAp
    <3> QED BY <1>0, <2>1, <3>1, RoleFrame DEF MpInv, swVars
  <2>6. ApsFit'
    <3>1. \A p \in Aps : p \in Cpus /\ ApFits(p) /\ SameAp(p) /\ SameReq(p)
      BY <2>1 DEF MpInv, ApsFit, SameAp, SameReq, Aps
    <3>2. \A p \in Aps : ApFits(p)'
      BY <2>2, <3>1, ApFrame
    <3> QED BY <2>3, <3>2 DEF ApsFit
  <2> QED BY <1>0, <2>4, <2>5, <2>6 DEF MpInv, Typed
<1>2. CASE MainStep
  <2>1. CASE ChangeApLoopModeCallBack
    <3>1. /\ pc["main"] \in {"ready", "exitWait"} /\ pc["cb"] = "off" /\ all.Clock.WaitEvent = NULL
          /\ StartupAllAPs(FALSE, FALSE, 0, TRUE)
      BY <2>1 DEF ChangeApLoopModeCallBack, At, Runs, MpInv, CallsFit
    <3> QED BY <1>0, <3>1, StartupAllInv
  <2>2. "main" \in Frames
    BY DEF Frames
  <2> QED BY <1>0, <1>2, <2>1, <2>2, WakeNextInv, SaveRequestInv, SwitchDoneInv, CheckInv DEF MainStep
<1>3. CASE CbStep
  <2>1. "cb" \in Frames
    BY DEF Frames
  <2> QED BY <1>0, <1>3, <2>1, ScanThisAPsInv, CheckInv DEF CbStep
<1>4. CASE BspLoads
  <2>1. bspCpu \in Cpus
    BY <1>0 DEF Typed, MpTypes
  <2> QED BY <1>0, <1>4, <2>1, ExchangeInv
<1> QED BY <1>0, <1>1, <1>2, <1>3, <1>4, CallInv, CheckAPsStatusInv, ApStepInv DEF Next

\* MpInv holds for any number of processors and requests: each AP works for at most
\* one request, and its State tells where it is.
THEOREM ServicesCorrect ==
    ASSUME CarefulCallers, PromptAPs
    PROVE  Spec => []MpInv
BY MpInit, NextInv, PTL DEF Spec

\* A processor that executes a request's procedure executes it for its owner.
LEMMA RunsForOwner ==
    ASSUME MpInv, NEW c \in Cpus, apPc[c] = "proc", apProc[c] # FutureBSPProc
    PROVE  /\ c \in Aps /\ Owner(c) = apProc[c] /\ Owner(c) # NULL /\ State[c] = "Busy"
           /\ c \notin req[Owner(c)].done
<1>1. c \in Aps
  BY SidePlace DEF Entering
<1>2. Owner(c) # NULL /\ Works(c, Owner(c))
  BY <1>1, ApPlace
<1> QED BY <1>1, <1>2 DEF Works, Parked

\* ApProcWrapper() calls a procedure only for an open request that was given to this
\* AP and that it has neither run nor been given up for.
THEOREM EachApRunsItsTask ==
    ASSUME CarefulCallers, PromptAPs
    PROVE  Spec => []OwnTask
<1>1. ASSUME MpInv PROVE OwnTask
  <2> SUFFICES ASSUME NEW c \in Cpus, apPc[c] = "proc", apProc[c] # FutureBSPProc
               PROVE  LET r == req[apProc[c]]
                      IN  r.status = "open" /\ c \in r.cpus \ (r.done \cup r.failed)
    BY DEF OwnTask
  <2>0. MpInv
    BY <1>1
  <2>1. Owner(c) = apProc[c] /\ Owner(c) # NULL /\ c \notin req[Owner(c)].done
    BY <2>0, RunsForOwner
  <2>2. CASE InAll(c)
    <3>1. Owner(c) = AllReq /\ AllReq # NULL /\ c \in all.CpuList
      BY <2>2 DEF Owner, InAll
    <3> QED BY <2>0, <2>1, <3>1 DEF MpInv, AllCounts
  <2>3. CASE ~InAll(c)
    <3>1. Owner(c) = ThisReq(c) /\ ThisReq(c) # NULL
      BY <2>1, <2>3 DEF Owner
    <3> QED BY <2>0, <2>1, <3>1 DEF MpInv, ThisFits
  <2> QED BY <2>2, <2>3
<1> QED BY <1>1, ServicesCorrect, PTL

\* When StartupAllAPs() or StartupThisAP() ends, every AP of the request has run the
\* procedure or is in FailedCpuList, which is empty after EFI_SUCCESS.
THEOREM EndedCallsAccount ==
    ASSUME CarefulCallers, PromptAPs
    PROVE  Spec => []EndedAccounted
<1>1. MpInv => EndedAccounted
  BY DEF MpInv
<1> QED BY <1>1, ServicesCorrect, PTL

\* In single thread mode at most one AP executes the procedure.
THEOREM SingleThreadIsOneByOne ==
    ASSUME CarefulCallers, PromptAPs
    PROVE  Spec => []OneByOne
<1>1. ASSUME MpInv PROVE OneByOne
  <2> SUFFICES ASSUME NEW r \in DOMAIN req, req[r].single
               PROVE  Cardinality({c \in Cpus : apPc[c] = "proc" /\ apProc[c] = r}) <= 1
    BY DEF OneByOne
  <2>0. MpInv /\ Typed
    BY <1>1, InvFacts
  <2> DEFINE S == {c \in Cpus : apPc[c] = "proc" /\ apProc[c] = r}
  <2>1. r # FutureBSPProc
    BY <2>0, TypedFacts DEF FutureBSPProc
  <2>2. ASSUME NEW c \in S PROVE c \in Cpus /\ State[c] = "Busy" /\ InAll(c) /\ AllReq = r /\ c \in all.CpuList
    <3>1. c \in Cpus /\ apPc[c] = "proc" /\ apProc[c] = r
      OBVIOUS
    <3>2. Owner(c) = r /\ r # NULL /\ State[c] = "Busy"
      BY <2>0, <2>1, <3>1, RunsForOwner
    <3>3. ThisReq(c) # r
      BY <2>0, <3>1, <3>2 DEF MpInv, ThisFits
    <3> QED BY <3>1, <3>2, <3>3 DEF Owner, InAll
  <2>3. ASSUME NEW c \in S, NEW d \in S, c < d PROVE FALSE
    <3>1. /\ State[d] = "Busy" /\ InAll(d) /\ AllReq = r /\ d \in all.CpuList /\ c \in all.CpuList
          /\ AllReq # NULL
      BY <2>2 DEF InAll
    <3>2. State[d] = "Ready"
      BY <2>0, <2>3, <3>1 DEF MpInv, TurnsFit
    <3> QED BY <3>1, <3>2
  <2>4. \A c, d \in S : c = d
    <3> TAKE c \in S, d \in S
    <3>1. c \in Nat /\ d \in Nat
      BY CpusFinite
    <3> HIDE DEF S
    <3> QED BY <2>3, <3>1
  <2>5. CASE S = {}
    BY <2>5, FS_EmptySet
  <2>6. CASE S # {}
    <3>1. PICK c \in S : TRUE
      BY <2>6
    <3> HIDE DEF S
    <3>2. S = {c}
      BY <2>4
    <3>3. Cardinality(S) = 1
      BY <3>2, FS_Singleton
    <3> USE DEF S
    <3> QED BY <3>3
  <2> QED BY <2>5, <2>6
<1> QED BY <1>1, ServicesCorrect, PTL

\* An AP whose State is CpuStateIdle or CpuStateDisabled is not in ApProcWrapper().
THEOREM IdleApsAreParked ==
    ASSUME CarefulCallers, PromptAPs
    PROVE  Spec => []IdleIsParked
<1>1. ASSUME MpInv PROVE IdleIsParked
  <2> SUFFICES ASSUME NEW p \in Cpus \ {bspCpu, BspNumber}, State[p] \in {"Idle", "Disabled"},
                      ~(pc["main"] = "exchange" /\ arg.cpu = p)
               PROVE  apPc[p] \in {"hlt", "boot"} /\ (apPc[p] = "boot" => mApFunction = "NULL")
    BY DEF IdleIsParked
  <2>1. p \in Aps
    BY DEF Aps, Aside
  <2> QED BY <1>1, <2>1 DEF MpInv, ApsFit, ApFits, Parked
<1> QED BY <1>1, ServicesCorrect, PTL

\* AsmExchangeRole never lets a processor go on a stack the other still uses.
THEOREM StacksAreApart ==
    ASSUME CarefulCallers, PromptAPs
    PROVE  Spec => []OneCpuPerStack
<1>1. ASSUME MpInv PROVE OneCpuPerStack
  <2>0. MpInv /\ RoleFits /\ Typed
    BY <1>1, InvFacts DEF MpInv
  <2>1. ASSUME pc["main"] = "switched", NEW c \in Cpus PROVE apPc[c] # "bspStored"
    <3>1. CASE c \in Aps
      BY <2>0, <3>1, ApPlace
    <3>2. CASE c \notin Aps
      <4>1. c = BspNumber \/ c = arg.cpu
        BY <2>0, <3>2, SidePlace
      <4> QED BY <2>0, <2>1, <4>1 DEF RoleFits, OldLoaded, Leaving
    <3> QED BY <3>1, <3>2
  <2>2. ASSUME NEW c \in Cpus, apCtx[c] # c, apPc[c] # "bspLoaded" PROVE apPc[apCtx[c]] # "stored"
    <3>1. c \notin Aps
      BY <2>0, <2>2, ApPlace
    <3>2. c = BspNumber \/ c = arg.cpu
      BY <2>0, <3>1, SidePlace
    <3>3. CASE pc["main"] = "exchange"
      <4>1. c = BspNumber
        BY <2>0, <2>2, <3>2, <3>3 DEF RoleFits
      <4>2. Leaving(c, arg.cpu) /\ BSPInfo = "LOADED" /\ apPc[arg.cpu] = "loaded"
        BY <2>0, <2>2, <3>3, <4>1 DEF RoleFits, OldStored, OldLoaded
      <4> QED BY <2>2, <4>2 DEF Leaving
    <3>4. CASE pc["main"] = "switched"
      <4>1. c = BspNumber
        BY <2>0, <2>2, <3>2, <3>4 DEF RoleFits
      <4>2. Leaving(c, arg.cpu) /\ apPc[arg.cpu] = "bsp"
        BY <2>0, <2>2, <3>4, <4>1 DEF RoleFits, OldLoaded
      <4> QED BY <2>2, <4>2 DEF Leaving
    <3>5. CASE ~Switching
      <4>1. c = BspNumber
        BY <2>0, <3>1, <3>5 DEF Aps, Aside, RoleFits, Switching
      <4> QED BY <2>0, <2>2, <3>5, <4>1 DEF RoleFits
    <3> QED BY <3>3, <3>4, <3>5 DEF Switching
  <2> QED BY <2>1, <2>2 DEF OneCpuPerStack
<1> QED BY <1>1, ServicesCorrect, PTL

\* Outside of SwitchBSP() one processor runs the BSP's threads, BspNumber names it,
\* and each AP is on its own stack.
THEOREM OneBspOutsideSwitch ==
    ASSUME CarefulCallers, PromptAPs
    PROVE  Spec => []OneBsp
<1>1. ASSUME MpInv PROVE OneBsp
  <2> SUFFICES ASSUME ~Switching
               PROVE  /\ BspNumber = bspCpu
                      /\ \A c \in Cpus : apPc[c] = "bsp" <=> c = bspCpu
                      /\ State[BspNumber] # "Disabled"
                      /\ \A c \in Cpus : apCtx[c] = c
    BY DEF OneBsp, Switching
  <2>0. MpInv
    BY <1>1
  <2>1. /\ BspNumber = bspCpu /\ apPc[BspNumber] = "bsp" /\ apCtx[BspNumber] = BspNumber
        /\ State[BspNumber] \in {"Idle", "Busy"}
    BY <2>0 DEF MpInv, RoleFits
  <2>2. \A c \in Cpus : c # BspNumber => c \in Aps
    BY <2>1 DEF Aps, Aside, Switching
  <2>3. \A c \in Cpus : c # BspNumber => apPc[c] # "bsp" /\ apCtx[c] = c
    BY <2>0, <2>2, ApPlace
  <2> QED BY <2>1, <2>3
<1> QED BY <1>1, ServicesCorrect, PTL
=============================================================================
