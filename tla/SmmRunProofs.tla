---------------------------- MODULE SmmRunProofs ----------------------------
(***************************************************************************)
(* The inductive invariant of an SMI run of SmmRendezvous, and what        *)
(* follows from it for any number of CPUs and SMIs, any cores, with or     *)
(* without MTRR programming and whatever the timeouts.                     *)
(*                                                                         *)
(* CleanGiveUp is a hypothesis of each theorem: without it an AP that      *)
(* gives up just as a BSP starts takes its check-in back from a run that   *)
(* may have been locked, and the code does lose the run (SmmGiveUp.cfg).   *)
(***************************************************************************)
EXTENDS SmmRendezvousProofs, FiniteSetTheorems

\* Where the run stands: the place of the elected CPU in BSPHandler, if it is there.
Leading == BspIndex \in Cpus /\ pc[BspIndex] \in BspPcs
At == IF Leading THEN pc[BspIndex] ELSE "none"

\* The BSP gathers the APs before the handlers.
Gathers == GatherFirst(BspIndex)

\* Checked in and not yet parked; parked.
EarlyPcs == {"elect", "cas", "role", "aTimer1", "aTimer2", "aGiveUp", "aEnter"}
ParkedPcs == {"aSave", "aReplace", "aLoop", "aProc", "aRestore", "aReset"}

\* Places of the BSP: gathering before the handlers, closing the run after them, and
\* all those at which InsideSmm is set.
GatherPcs == {"bArrive1", "bIpi", "bArrive2", "bSync", "bLock", "bGather"}
LatePcs == {"bSyncLate", "bLockLate", "bPresent"}
InsidePcs == GatherPcs \cup LatePcs \cup OwnerPcs
             \cup {"bSave", "bSaved", "bReplace", "bReplaced", "bLeave"}

\* New CPUs may still check in.
Open ==
    \/ At \in {"none", "bStart", "bSyncLate", "bLockLate"} \cup (GatherPcs \ {"bGather"})
    \/ At \in OwnerPcs /\ ~Gathers

\* The places of an AP that has answered the BSP's last signal, or has yet to take it.
Answered ==
    CASE At \in GatherPcs -> IF MtrrsConfigured THEN {"aSave"} ELSE {"aLoop"}
      [] At \in {"bSave", "bSaved"} -> {"aReplace"}
      [] At \in {"bReplace", "bReplaced"} -> {"aLoop"}
      [] At = "bFinished" -> IF MtrrsConfigured THEN {"aRestore"} ELSE {"aReset"}
      [] At \in {"bRestore", "bRestored"} -> {"aReset"}
      [] OTHER -> {}
Asked ==
    CASE At \in {"bSave", "bSaved"} -> {"aSave"}
      [] At \in {"bReplace", "bReplaced"} -> {"aReplace"}
      [] At = "bFinished" -> {"aLoop"}
      [] At \in {"bRestore", "bRestored"} -> {"aRestore"}
      [] At = "bCollect" -> {"aReset"}
      [] OTHER -> {}
\* The places of an AP while the handlers run and the BSP prepares to leave, and of a
\* CPU that has checked in but is not parked.
Serving == IF At \in OwnerPcs THEN {"aLoop", "aProc"}
           ELSE IF At \in LatePcs \cup {"bLeave", "bNotify"} THEN {"aLoop"} ELSE {}
Arriving ==
    CASE At \in {"none", "bStart"} -> EarlyPcs \ {"aEnter"}
      [] At \in GatherPcs \cup LatePcs -> EarlyPcs \ {"aGiveUp"}
      [] At \in OwnerPcs -> IF Gathers THEN {} ELSE EarlyPcs \ {"aGiveUp"}
      [] OTHER -> {}

-----------------------------------------------------------------------------
\* Whoever is elected is on its way into BSPHandler or in it.
Elected == BspIndex \in Cpus => pc[BspIndex] \in {"role"} \cup BspPcs

\* The BSP's path through BSPHandler is the one its sync mode and the MTRRs ask for.
PathFits ==
    /\ At \in {"bSave", "bSaved", "bReplace", "bReplaced", "bRestore", "bRestored"} => MtrrsConfigured
    /\ At \in GatherPcs => Gathers
    /\ At \in LatePcs => ~Gathers

\* Every CPU of the run is where the BSP's own place lets it be.
Follows ==
    \A c \in Cpus : pc[c] \in EarlyPcs \cup ParkedPcs
        => pc[c] \in Arriving \cup Asked \cup Answered \cup Serving

\* InsideSmm is what the BSP's place says.
InsideFits == InsideSmm = (At \in InsidePcs)

\* The Present flags name the parked APs and the BSP.
PresentFits ==
    \A c \in Cpus : c \in Present <=>
        \/ pc[c] \in ParkedPcs
        \/ Leading /\ c = BspIndex /\ At \notin {"bStart", "bCollect", "bUnelect"}

\* An AP is busy only while the handlers run, and always when it runs a procedure.
BusyFits ==
    \A c \in Cpus : pc[c] \in EarlyPcs \cup ParkedPcs =>
        /\ c \in Busy => At \in OwnerPcs /\ pc[c] \in {"aLoop", "aProc"}
        /\ pc[c] = "aProc" => c \in Busy

\* A parked AP answers on the Run semaphore of the elected BSP.
KnowsBsp == \A c \in Cpus : pc[c] \in ParkedPcs => loc[c].bsp = BspIndex

\* The BSP's signals: Run of a CPU holds the one it has yet to take, and nothing else.
Signalled(c) == pc[c] \in Asked \/ (pc[c] = "aLoop" /\ c \in Busy)
SignalsFit ==
    \A c \in Cpus : pc[c] \notin BspPcs => Run[c] = IF Signalled(c) THEN 1 ELSE 0

\* The APs' answers: Run of the BSP counts the APs that have answered its last signal.
AnswersFit ==
    Leading /\ At # "bCollect"
        => Run[BspIndex] = Cardinality({c \in Cpus : pc[c] \in Answered})

\* All CPUs of the run hold the same sync mode, the effective one until the BSP has
\* exchanged it.
ModesFit ==
    \A c \in Cpus : pc[c] \in ApPcs \cup BspPcs =>
        loc[c].mode = IF At \in {"bRestore", "bRestored", "bCollect", "bUnelect"}
                      THEN loc[BspIndex].mode ELSE EffectiveSyncMode

\* Between BspUnelect and BspReopen the run is empty and still locked.
Closing == \E c \in Cpus : pc[c] = "bReopen"
ClosingFits == \A c \in Cpus : pc[c] = "bReopen" =>
    /\ BspIndex = NoCpu
    /\ Joined = {}
    /\ Counter = Locked
    /\ \A d \in Cpus \ {c} : pc[d] # "bReopen"

\* Counter is the number of CPUs in the run, or locked.
CounterFits ==
    ~Closing => Counter = IF Open THEN Cardinality(Joined) ELSE Locked
\* ApCount is the number of APs in the run; while they reset, less those that have
\* answered.
CountFits ==
    /\ ~Open /\ At \notin {"bCollect", "bUnelect"}
         => Cardinality(Joined) = loc[BspIndex].apCount + 1
    /\ At = "bCollect" => /\ Run[BspIndex] \in Nat
                         /\ Cardinality(Joined) = loc[BspIndex].apCount + 1 - Run[BspIndex]
    /\ At = "bUnelect" => Cardinality(Joined) = 1

\* The inductive invariant.
RunInv ==
    /\ Elected /\ PathFits /\ Follows /\ InsideFits /\ PresentFits /\ BusyFits
    /\ KnowsBsp /\ SignalsFit /\ AnswersFit /\ ModesFit /\ ClosingFits
    /\ CounterFits /\ CountFits

-----------------------------------------------------------------------------
\* A CPU that moves changes by at most one the number of CPUs at given places.
LEMMA MoveCount ==
    ASSUME TypeOK, NEW c \in Cpus, NEW from, NEW to, Goto(c, from, to), NEW S
    PROVE  /\ Cardinality({d \in Cpus : pc[d] \in S}) \in Nat
           /\ Cardinality({d \in Cpus : pc'[d] \in S}) \in Nat
           /\ (from \in S <=> to \in S)
                => {d \in Cpus : pc'[d] \in S} = {d \in Cpus : pc[d] \in S}
           /\ from \notin S /\ to \in S
                => Cardinality({d \in Cpus : pc'[d] \in S})
                     = Cardinality({d \in Cpus : pc[d] \in S}) + 1
           /\ from \in S /\ to \notin S
                => Cardinality({d \in Cpus : pc'[d] \in S})
                     = Cardinality({d \in Cpus : pc[d] \in S}) - 1
<1> DEFINE A == {d \in Cpus : pc[d] \in S}
           B == {d \in Cpus : pc'[d] \in S}
<1>1. IsFiniteSet(A) /\ IsFiniteSet(B)
  BY CpusAssumption, FS_Subset
<1>2. Cardinality(A) \in Nat /\ Cardinality(B) \in Nat
  BY <1>1, FS_CardinalityType
<1>3. \A d \in Cpus : pc'[d] = IF d = c THEN to ELSE pc[d]
  BY DEF Goto, TypeOK
<1>4. pc[c] = from
  BY DEF Goto
<1>5. CASE from \in S <=> to \in S
  <2>1. A = B
    BY <1>3, <1>4, <1>5
  <2> QED BY <2>1, <1>2, <1>5
<1>6. CASE from \notin S /\ to \in S
  <2>1. B = A \cup {c} /\ c \notin A
    BY <1>3, <1>4, <1>6
  <2> QED BY <2>1, <1>1, <1>2, <1>6, FS_AddElement
<1>7. CASE from \in S /\ to \notin S
  <2>1. B = A \ {c} /\ c \in A
    BY <1>3, <1>4, <1>7
  <2> QED BY <2>1, <1>1, <1>2, <1>7, FS_RemoveElement
<1> QED BY <1>5, <1>6, <1>7

\* The places of the CPUs in Joined.
JoinedPcs == (EntryPcs \ {"checkin"}) \cup BspPcs \cup ApPcs

\* The same for the CPUs of the run.
LEMMA JoinedMove ==
    ASSUME TypeOK, NEW c \in Cpus, NEW from, NEW to, Goto(c, from, to)
    PROVE  /\ Cardinality(Joined) \in Nat /\ Cardinality(Joined') \in Nat
           /\ (from \in JoinedPcs <=> to \in JoinedPcs) => Joined' = Joined
           /\ from \notin JoinedPcs /\ to \in JoinedPcs
                => Cardinality(Joined') = Cardinality(Joined) + 1
           /\ from \in JoinedPcs /\ to \notin JoinedPcs
                => Cardinality(Joined') = Cardinality(Joined) - 1
<1>1. /\ Joined = {d \in Cpus : pc[d] \in JoinedPcs}
      /\ Joined' = {d \in Cpus : pc'[d] \in JoinedPcs}
  BY DEF Joined, JoinedPcs
<1>2. (from \in JoinedPcs <=> to \in JoinedPcs) => Joined' = Joined
  BY <1>1 DEF Goto, TypeOK
<1>3. IsFiniteSet(Joined) /\ IsFiniteSet(Joined')
  BY <1>1, CpusAssumption, FS_Subset
<1> QED BY <1>1, <1>2, MoveCount

\* A step of a CPU outside BSPHandler leaves the run where it is.
LEMMA Bystander ==
    ASSUME TypeOK, Elected, NEW c \in Cpus, NEW from, NEW to, Goto(c, from, to),
           from \notin BspPcs, to \notin BspPcs, BspIndex' = BspIndex
    PROVE  /\ Leading' = Leading
           /\ Leading => c # BspIndex
           /\ At' = At
           /\ \A d \in Cpus : pc'[d] = IF d = c THEN to ELSE pc[d]
           /\ pc[c] = from
BY DEF Leading, At, Goto, TypeOK

\* What depends only on where the run stands.
LEMMA SameRun ==
    ASSUME At' = At, Leading' = Leading, BspIndex' = BspIndex,
           Leading => loc'[BspIndex].mode = loc[BspIndex].mode
    PROVE  /\ Leading => Gathers' = Gathers
           /\ Open' = Open
           /\ Answered' = Answered /\ Asked' = Asked
           /\ Serving' = Serving /\ Arriving' = Arriving
<1>1. Leading => Gathers' = Gathers
  BY DEF Gathers, GatherFirst
<1>2. At \in OwnerPcs => Leading
  BY DEF At, OwnerPcs, HandlerPcs
<1>3. Open' = Open
  BY <1>1, <1>2 DEF Open
<1>4. Answered' = Answered /\ Asked' = Asked /\ Serving' = Serving
  BY DEF Answered, Asked, Serving
<1>5. Arriving' = Arriving
  BY <1>1, <1>2 DEF Arriving
<1> QED BY <1>1, <1>3, <1>4, <1>5

\* A step of a CPU that is not parked and not in BSPHandler.
LEMMA EarlyMove ==
    ASSUME TypeOK, RunInv, NEW c \in Cpus, NEW from, NEW to, Goto(c, from, to),
           from \notin BspPcs \cup ParkedPcs, to \notin BspPcs \cup ParkedPcs,
           UNCHANGED <<BspIndex, Run, Present, InsideSmm, EffectiveSyncMode>>,
           Busy' = Busy \/ Busy' = Busy \ {c},
           \A d \in Cpus \ {c} : loc'[d] = loc[d],
           to = "role" \/ BspIndex # c,
           to \in EarlyPcs => to \in Arriving /\ c \notin Busy',
           to \in ApPcs => loc'[c].mode = EffectiveSyncMode /\ At \notin {"bRestore", "bRestored", "bCollect", "bUnelect"}
    PROVE  /\ Elected' /\ PathFits' /\ Follows' /\ InsideFits' /\ PresentFits' /\ BusyFits'
           /\ KnowsBsp' /\ SignalsFit' /\ AnswersFit' /\ ModesFit'
<1>1. /\ Leading' = Leading
      /\ Leading => c # BspIndex
      /\ At' = At
      /\ \A d \in Cpus : pc'[d] = IF d = c THEN to ELSE pc[d]
      /\ pc[c] = from
  BY Bystander DEF RunInv
<1>2. Leading => loc'[BspIndex] = loc[BspIndex]
  BY <1>1 DEF Leading
<1>3. /\ Leading => Gathers' = Gathers
      /\ Answered' = Answered /\ Asked' = Asked
      /\ Serving' = Serving /\ Arriving' = Arriving
  BY <1>1, <1>2, SameRun
<1>4. Asked \cup Answered \subseteq ParkedPcs
  BY DEF Asked, Answered, ParkedPcs
<1>5. Elected'
  BY <1>1 DEF RunInv, Elected
<1>6. PathFits'
  BY <1>1, <1>3 DEF RunInv, PathFits, At, GatherPcs, LatePcs
<1>7. Follows'
  BY <1>1, <1>3 DEF RunInv, Follows
<1>8. InsideFits'
  BY <1>1 DEF RunInv, InsideFits
<1>9. PresentFits'
  BY <1>1 DEF RunInv, PresentFits
<1>10. BusyFits'
  BY <1>1 DEF RunInv, BusyFits, ParkedPcs
<1>11. KnowsBsp'
  BY <1>1 DEF RunInv, KnowsBsp
<1>12. SignalsFit'
  BY <1>1, <1>3, <1>4 DEF RunInv, SignalsFit, Signalled, ParkedPcs
<1>13. AnswersFit'
  <2>1. {d \in Cpus : pc'[d] \in Answered} = {d \in Cpus : pc[d] \in Answered}
    BY <1>1, <1>4
  <2> QED BY <2>1, <1>1, <1>3 DEF RunInv, AnswersFit
<1>14. ModesFit'
  BY <1>1, <1>2 DEF RunInv, ModesFit, At
<1> QED BY <1>5, <1>6, <1>7, <1>8, <1>9, <1>10, <1>11, <1>12, <1>13, <1>14

\* A step by which nobody joins or leaves.
LEMMA SameCount ==
    ASSUME TypeOK, RunInv, NEW c \in Cpus, NEW from, NEW to, Goto(c, from, to),
           from \in JoinedPcs <=> to \in JoinedPcs, from # "bReopen", to # "bReopen",
           At' = At, Leading' = Leading,
           UNCHANGED <<BspIndex, Counter>>,
           At = "bCollect" => Run'[BspIndex] = Run[BspIndex],
           Leading => loc'[BspIndex] = loc[BspIndex]
    PROVE  ClosingFits' /\ CounterFits' /\ CountFits'
<1>1. \A d \in Cpus : pc'[d] = IF d = c THEN to ELSE pc[d]
  BY DEF Goto, TypeOK
<1>2. pc[c] = from
  BY DEF Goto
<1>3. Joined' = Joined
  BY JoinedMove
<1>4. Open' = Open
  BY SameRun
<1>5. Closing' = Closing
  BY <1>1, <1>2 DEF Closing
<1>6. ClosingFits'
  BY <1>1, <1>2, <1>3 DEF RunInv, ClosingFits
<1>7. CounterFits'
  BY <1>3, <1>4, <1>5 DEF RunInv, CounterFits
<1>8. ~Open \/ At \in {"bCollect", "bUnelect"} => Leading
  BY DEF Open, At
<1>9. CountFits'
  BY <1>3, <1>4, <1>8 DEF RunInv, CountFits
<1> QED BY <1>6, <1>7, <1>9

\* While the run is open a CPU that checks in finds its place.
LEMMA OpenArriving ==
    Open => /\ {"elect", "cas", "role", "aTimer1", "aTimer2"} \subseteq Arriving
            /\ At \notin {"bRestore", "bRestored", "bCollect", "bUnelect"}
BY DEF Open, Arriving, OwnerPcs, HandlerPcs, GatherPcs, LatePcs, EarlyPcs

\* The type of what is counted.
LEMMA JoinedCount == IsFiniteSet(Joined) /\ Cardinality(Joined) \in Nat
<1>1. IsFiniteSet(Joined)
  BY CpusAssumption, FS_Subset DEF Joined
<1> QED BY <1>1, FS_CardinalityType

\* A CPU that has checked in and is not parked has no procedure, and the run is at a
\* place where others may be on their way, too.
LEMMA EarlyStays ==
    ASSUME TypeOK, RunInv, NEW c \in Cpus, pc[c] \in EarlyPcs
    PROVE  /\ c \notin Busy
           /\ pc[c] \in Arriving
           /\ {"elect", "cas", "role", "aTimer1", "aTimer2"} \subseteq Arriving
           /\ At \notin {"bRestore", "bRestored", "bCollect", "bUnelect"}
<1>1. pc[c] \notin {"aLoop", "aProc"}
  BY DEF EarlyPcs
<1>2. pc[c] \in Arriving
  BY <1>1 DEF RunInv, Follows, Asked, Answered, Serving, EarlyPcs
<1>3. /\ {"elect", "cas", "role", "aTimer1", "aTimer2"} \subseteq Arriving
      /\ At \notin {"bRestore", "bRestored", "bCollect", "bUnelect"}
  BY <1>2 DEF Arriving, EarlyPcs, GatherPcs, LatePcs, OwnerPcs, HandlerPcs
<1> QED BY <1>1, <1>2, <1>3 DEF RunInv, BusyFits

\* SmiRendezvous: entry, check-in, election and exit.
LEMMA RendezvousRun ==
    ASSUME TypeOK, SingleBsp, RunInv, NEW c \in Cpus, SmiRendezvous(c)
    PROVE  RunInv'
<1> USE DEF EntryPcs, BspPcs, ApPcs, JoinedPcs, ParkedPcs, EarlyPcs
<1> USE DEF slowVars, hwVars, electVars, modeVars, flagVars, cpuData, mtrrVars
<1>1. CASE EnterSmi(c)
  <2>1. /\ Goto(c, "normal", "checkin")
        /\ UNCHANGED <<BspIndex, Run, Present, InsideSmm, EffectiveSyncMode, Counter, Busy>>
        /\ \A d \in Cpus \ {c} : loc'[d] = loc[d]
    BY <1>1 DEF EnterSmi, TypeOK
  <2>2. BspIndex # c
    BY <2>1 DEF RunInv, Elected, Goto
  <2>3. /\ At' = At /\ Leading' = Leading
        /\ Leading => loc'[BspIndex] = loc[BspIndex]
    BY <2>1, <2>2, Bystander DEF RunInv, Leading
  <2>4. ClosingFits' /\ CounterFits' /\ CountFits'
    BY <2>1, <2>3, SameCount
  <2> QED BY <2>1, <2>2, <2>4, EarlyMove DEF RunInv
<1>2. CASE CheckIn(c) /\ ReleaseSemaphore(Counter) = Counter
  <2>1. /\ Goto(c, "checkin", "spin")
        /\ UNCHANGED <<BspIndex, Run, Present, InsideSmm, EffectiveSyncMode, Counter, Busy>>
        /\ \A d \in Cpus \ {c} : loc'[d] = loc[d]
    BY <1>2 DEF CheckIn, TypeOK
  <2>2. BspIndex # c
    BY <2>1 DEF RunInv, Elected, Goto
  <2>3. /\ At' = At /\ Leading' = Leading
        /\ Leading => loc'[BspIndex] = loc[BspIndex]
    BY <2>1, <2>2, Bystander DEF RunInv, Leading
  <2>4. ClosingFits' /\ CounterFits' /\ CountFits'
    BY <2>1, <2>3, SameCount
  <2> QED BY <2>1, <2>2, <2>4, EarlyMove DEF RunInv
<1>3. CASE CheckIn(c) /\ ReleaseSemaphore(Counter) # Counter
  <2>1. PICK to \in {"aTimer1", "elect"} :
          /\ Goto(c, "checkin", to)
          /\ to = "aTimer1" => loc'[c].mode = EffectiveSyncMode
          /\ UNCHANGED <<BspIndex, Run, Present, InsideSmm, EffectiveSyncMode>>
          /\ Busy' = Busy \ {c}
          /\ Counter # -1 /\ Counter' = Counter + 1
          /\ \A d \in Cpus \ {c} : loc'[d] = loc[d]
    BY <1>3 DEF CheckIn, TypeOK, ReleaseSemaphore, Idle
  <2>2. BspIndex # c
    BY <2>1 DEF RunInv, Elected, Goto
  <2>3. /\ At' = At /\ Leading' = Leading
        /\ Leading => loc'[BspIndex] = loc[BspIndex]
        /\ \A d \in Cpus : pc'[d] = IF d = c THEN to ELSE pc[d]
    BY <2>1, <2>2, Bystander DEF RunInv, Leading
  <2>4. ~Closing /\ Open
    BY <2>1 DEF RunInv, Closing, ClosingFits, CounterFits, Locked
  <2>5. Open' /\ ~Closing'
    BY <2>1, <2>3, <2>4, SameRun DEF Closing
  <2>6. Cardinality(Joined)' = Cardinality(Joined) + 1
    BY <2>1, JoinedMove
  <2>7. ClosingFits' /\ CounterFits' /\ CountFits'
    BY <2>1, <2>4, <2>5, <2>6 DEF RunInv, Closing, ClosingFits, CounterFits, CountFits, Open, OwnerPcs, HandlerPcs, GatherPcs
  <2> QED BY <2>1, <2>2, <2>4, <2>7, EarlyMove, OpenArriving DEF RunInv
<1>4. CASE Elect(c)
  <2>1. PICK to \in {"cas", "role"} :
          /\ Goto(c, "elect", to)
          /\ UNCHANGED <<BspIndex, Run, Present, InsideSmm, EffectiveSyncMode, Counter, Busy, loc>>
    BY <1>4 DEF Elect
  <2>2. BspIndex # c
    BY <2>1 DEF RunInv, Elected, Goto
  <2>3. At' = At /\ Leading' = Leading
    BY <2>1, Bystander DEF RunInv
  <2>4. ClosingFits' /\ CounterFits' /\ CountFits'
    BY <2>1, <2>3, SameCount
  <2>5. c \notin Busy /\ to \in Arriving
    BY <2>1, <2>2, EarlyStays DEF Goto
  <2> QED BY <2>1, <2>2, <2>4, <2>5, EarlyMove DEF RunInv
<1>5. CASE CasBsp(c) /\ BspIndex # NoCpu
  <2>1. /\ Goto(c, "cas", "role")
        /\ UNCHANGED <<BspIndex, Run, Present, InsideSmm, EffectiveSyncMode, Counter, Busy, loc>>
    BY <1>5 DEF CasBsp, CompareExchangeBsp
  <2>2. BspIndex # c
    BY <2>1 DEF RunInv, Elected, Goto
  <2>3. At' = At /\ Leading' = Leading
    BY <2>1, Bystander DEF RunInv
  <2>4. ClosingFits' /\ CounterFits' /\ CountFits'
    BY <2>1, <2>3, SameCount
  <2>5. c \notin Busy /\ "role" \in Arriving
    BY <2>1, <2>2, EarlyStays DEF Goto
  <2> QED BY <2>1, <2>2, <2>4, <2>5, EarlyMove DEF RunInv
<1>6. CASE CasBsp(c) /\ BspIndex = NoCpu
  <2>1. /\ Goto(c, "cas", "role") /\ BspIndex' = c
        /\ UNCHANGED <<Run, Present, InsideSmm, EffectiveSyncMode, Counter, Busy, loc>>
    BY <1>6 DEF CasBsp, CompareExchangeBsp
  <2>2. \A d \in Cpus : pc'[d] = IF d = c THEN "role" ELSE pc[d]
    BY <2>1 DEF Goto, TypeOK
  <2>3. ~Leading /\ ~Leading' /\ At = "none" /\ At' = "none" /\ pc[c] = "cas"
    BY <1>6, <2>1, <2>2, CpusAssumption DEF Leading, At, Goto
  <2>4. Open /\ Open' /\ Answered' = Answered /\ Asked' = {} /\ Asked = {}
        /\ Serving = {} /\ Serving' = {}
        /\ Arriving' = Arriving /\ Arriving = EarlyPcs \ {"aEnter"}
    BY <2>3 DEF Open, Answered, Asked, Serving, Arriving, GatherPcs, LatePcs, OwnerPcs, HandlerPcs
  <2>5. Answered = {}
    BY <2>3 DEF Answered, GatherPcs
  <2>6. \A d \in Cpus : pc[d] \notin ParkedPcs /\ pc'[d] \notin ParkedPcs
    BY <2>2, <2>4, <2>5 DEF RunInv, Follows, Leading, Joined, EarlyPcs
  <2>7. Joined' = Joined
    BY <2>1, JoinedMove
  <2>8. Closing' = Closing /\ ~Closing
    BY <2>1, <2>2 DEF Closing, RunInv, ClosingFits, Joined, Goto
  <2>9. Elected' /\ PathFits' /\ InsideFits'
    BY <2>1, <2>2, <2>3 DEF RunInv, Elected, PathFits, InsideFits, GatherPcs, LatePcs
  <2>10. Follows'
    BY <2>2, <2>4 DEF RunInv, Follows
  <2>11. PresentFits' /\ KnowsBsp' /\ SignalsFit' /\ AnswersFit'
    BY <2>1, <2>2, <2>3, <2>4, <2>6 DEF RunInv, PresentFits, KnowsBsp, SignalsFit, Signalled, AnswersFit
  <2>12. BusyFits'
    BY <2>1, <2>2, <2>3 DEF RunInv, BusyFits, OwnerPcs, HandlerPcs
  <2>14. ModesFit'
    BY <2>1, <2>2, <2>3 DEF RunInv, ModesFit
  <2>13. ClosingFits' /\ CounterFits' /\ CountFits'
    BY <2>1, <2>4, <2>7, <2>8 DEF RunInv, Closing, ClosingFits, CounterFits, CountFits, Open, OwnerPcs, HandlerPcs, GatherPcs
  <2> QED BY <2>9, <2>10, <2>11, <2>12, <2>13, <2>14 DEF RunInv
<1>7. CASE TakeRole(c) /\ BspIndex # c
  <2>1. /\ Goto(c, "role", "aTimer1")
        /\ UNCHANGED <<BspIndex, Run, Present, InsideSmm, EffectiveSyncMode, Counter, Busy>>
        /\ \A d \in Cpus \ {c} : loc'[d] = loc[d]
        /\ loc'[c].mode = EffectiveSyncMode
    BY <1>7 DEF TakeRole, TypeOK, Locals
  <2>3. /\ At' = At /\ Leading' = Leading
        /\ Leading => loc'[BspIndex] = loc[BspIndex]
    BY <2>1, <1>7, Bystander DEF RunInv, Leading
  <2>4. ClosingFits' /\ CounterFits' /\ CountFits'
    BY <2>1, <2>3, SameCount
  <2>5. /\ c \notin Busy /\ "aTimer1" \in Arriving
        /\ At \notin {"bRestore", "bRestored", "bCollect", "bUnelect"}
    BY <2>1, <1>7, EarlyStays DEF Goto
  <2> QED BY <2>1, <1>7, <2>4, <2>5, EarlyMove DEF RunInv
<1>8. CASE TakeRole(c) /\ BspIndex = c
  <2>1. /\ Goto(c, "role", "bStart")
        /\ UNCHANGED <<BspIndex, Run, Present, InsideSmm, EffectiveSyncMode, Counter, Busy>>
        /\ \A d \in Cpus \ {c} : loc'[d] = loc[d]
        /\ loc'[c].mode = EffectiveSyncMode
    BY <1>8 DEF TakeRole, TypeOK, Locals
  <2>2. \A d \in Cpus : pc'[d] = IF d = c THEN "bStart" ELSE pc[d]
    BY <2>1 DEF Goto, TypeOK
  <2>3. ~Leading /\ Leading' /\ At = "none" /\ At' = "bStart" /\ pc[c] = "role"
    BY <1>8, <2>1, <2>2, CpusAssumption DEF Leading, At, Goto
  <2>4. /\ Open /\ Open' /\ Asked' = {} /\ Asked = {} /\ Answered = {} /\ Answered' = {}
        /\ Serving = {} /\ Serving' = {}
        /\ Arriving' = Arriving /\ Arriving = EarlyPcs \ {"aEnter"}
    BY <2>3 DEF Open, Answered, Asked, Serving, Arriving, GatherPcs, LatePcs, OwnerPcs, HandlerPcs
  <2>6. \A d \in Cpus : pc[d] \notin ParkedPcs /\ pc'[d] \notin ParkedPcs
    BY <2>2, <2>3, <2>4 DEF RunInv, Follows, Leading, Joined, EarlyPcs
  <2>7. Joined' = Joined
    BY <2>1, JoinedMove
  <2>8. Closing' = Closing /\ ~Closing
    BY <2>1, <2>2 DEF Closing, RunInv, ClosingFits, Joined, Goto
  <2>9. Elected' /\ PathFits' /\ InsideFits'
    BY <2>1, <2>2, <2>3 DEF RunInv, Elected, PathFits, InsideFits, InsidePcs, GatherPcs, LatePcs,
       OwnerPcs, HandlerPcs
  <2>10. Follows'
    BY <2>2, <2>4 DEF RunInv, Follows
  <2>11. PresentFits' /\ KnowsBsp' /\ SignalsFit'
    BY <1>8, <2>1, <2>2, <2>3, <2>4, <2>6 DEF RunInv, PresentFits, KnowsBsp, SignalsFit, Signalled
  <2>12. BusyFits'
    BY <1>8, <2>1, <2>2, <2>3 DEF RunInv, BusyFits, OwnerPcs, HandlerPcs
  <2>13. ModesFit'
    BY <1>8, <2>1, <2>2, <2>3 DEF RunInv, ModesFit
  <2>14. AnswersFit'
    <3>1. Run[c] = 0
      BY <2>3, <2>4 DEF RunInv, SignalsFit, Signalled
    <3> QED BY <3>1, <1>8, <2>1, <2>4, FS_EmptySet DEF AnswersFit
  <2>15. ClosingFits' /\ CounterFits' /\ CountFits'
    BY <2>1, <2>4, <2>7, <2>8 DEF RunInv, Closing, ClosingFits, CounterFits, CountFits, Open, OwnerPcs, HandlerPcs, GatherPcs
  <2> QED BY <2>9, <2>10, <2>11, <2>12, <2>13, <2>14, <2>15 DEF RunInv
<1>9. CASE ExitSmi(c)
  <2>1. /\ Goto(c, "spin", "normal")
        /\ UNCHANGED <<BspIndex, Run, Present, InsideSmm, EffectiveSyncMode, Counter, Busy, loc>>
    BY <1>9 DEF ExitSmi
  <2>2. BspIndex # c
    BY <2>1 DEF RunInv, Elected, Goto
  <2>3. At' = At /\ Leading' = Leading
    BY <2>1, Bystander DEF RunInv
  <2>4. ClosingFits' /\ CounterFits' /\ CountFits'
    BY <2>1, <2>3, SameCount
  <2> QED BY <2>1, <2>2, <2>4, EarlyMove DEF RunInv
<1> QED BY <1>1, <1>2, <1>3, <1>4, <1>5, <1>6, <1>7, <1>8, <1>9 DEF SmiRendezvous

\* An AP that takes a signal and answers it: the BSP waits for that answer.
LEMMA AskedToAnswered ==
    ASSUME TypeOK, SingleBsp, RunInv, NEW c \in Cpus, NEW from \in ParkedPcs,
           NEW to \in ParkedPcs, Goto(c, from, to), Handshake(c),
           from \in Asked, from \notin Answered, to \in Answered, to \notin Asked, c \notin Busy,
           UNCHANGED <<BspIndex, Present, Busy, InsideSmm, Counter, EffectiveSyncMode, loc>>
    PROVE  RunInv'
<1> USE DEF ParkedPcs
<1>1. from \notin BspPcs /\ to \notin BspPcs
  BY DEF BspPcs
<1>2. /\ Leading' = Leading
      /\ Leading => c # BspIndex
      /\ At' = At
      /\ \A d \in Cpus : pc'[d] = IF d = c THEN to ELSE pc[d]
      /\ pc[c] = from
  BY <1>1, Bystander DEF RunInv
<1>3. Leading /\ At # "bCollect"
  BY DEF Asked, Answered, At, GatherPcs
<1>4. /\ Gathers' = Gathers /\ Open' = Open
      /\ Answered' = Answered /\ Asked' = Asked
      /\ Serving' = Serving /\ Arriving' = Arriving
  BY <1>2, <1>3, SameRun
<1>5. loc[c].bsp = BspIndex
  BY <1>2 DEF RunInv, KnowsBsp
<1>6. Run[c] = 1
  BY <1>1, <1>2 DEF RunInv, SignalsFit, Signalled
<1> DEFINE A == {d \in Cpus : pc[d] \in Answered}
           B == {d \in Cpus : pc'[d] \in Answered}
<1>7. Cardinality(A) \in Nat /\ Cardinality(B) = Cardinality(A) + 1
  BY MoveCount
<1>8. Run[BspIndex] = Cardinality(A)
  BY <1>3 DEF RunInv, AnswersFit
<1>9. /\ Run'[c] = 0
      /\ Run'[BspIndex] = Cardinality(B)
      /\ \A d \in Cpus \ {c, BspIndex} : Run'[d] = Run[d]
  BY <1>2, <1>3, <1>5, <1>6, <1>7, <1>8 DEF Handshake, WaitForSemaphore, ReleaseSemaphore, Leading
<1>10. Elected' /\ PathFits' /\ InsideFits' /\ KnowsBsp'
  BY <1>1, <1>2, <1>3, <1>4 DEF RunInv, Elected, PathFits, InsideFits, KnowsBsp
<1>11. Follows' /\ PresentFits'
  BY <1>1, <1>2, <1>4 DEF RunInv, Follows, PresentFits
<1>12. BusyFits'
  BY <1>2 DEF RunInv, BusyFits, Answered
<1>13. ModesFit'
  BY <1>2 DEF RunInv, ModesFit, ApPcs
<1>14. SignalsFit'
  BY <1>1, <1>2, <1>3, <1>4, <1>9 DEF RunInv, SignalsFit, Signalled, Leading
<1>15. AnswersFit'
  BY <1>4, <1>9 DEF AnswersFit
<1>16. ClosingFits' /\ CounterFits' /\ CountFits'
  BY <1>1, <1>2, <1>3, SameCount DEF JoinedPcs, ApPcs
<1> QED BY <1>10, <1>11, <1>12, <1>13, <1>14, <1>15, <1>16 DEF RunInv

\* APHandler up to the point where the AP parks.
LEMMA ArrivalRun ==
    ASSUME TypeOK, SingleBsp, RunInv, NEW c \in Cpus,
           ApSeesBsp(c) \/ ApTimeout(c) \/ ApGiveUp(c) \/ ApEnter(c)
    PROVE  RunInv'
<1> USE DEF EntryPcs, BspPcs, ApPcs, JoinedPcs, ParkedPcs, EarlyPcs
<1> USE DEF slowVars, hwVars, electVars, modeVars, flagVars, cpuData, mtrrVars
<1>1. CASE ApSeesBsp(c) \/ ApTimeout(c)
  <2>1. PICK from \in {"aTimer1", "aTimer2"}, to \in {"aEnter", "aTimer2", "aGiveUp"} :
          /\ Goto(c, from, to)
          /\ to = "aEnter" => InsideSmm
          /\ to = "aGiveUp" => ~InsideSmm
          /\ UNCHANGED <<BspIndex, Run, Present, InsideSmm, EffectiveSyncMode, Counter, Busy, loc>>
    BY <1>1 DEF ApSeesBsp, ApTimeout
  <2>2. BspIndex # c /\ pc[c] = from
    BY <2>1 DEF RunInv, Elected, Goto
  <2>3. At' = At /\ Leading' = Leading
    BY <2>1, Bystander DEF RunInv
  <2>4. ClosingFits' /\ CounterFits' /\ CountFits'
    BY <2>1, <2>3, SameCount
  <2>5. /\ c \notin Busy /\ from \in Arriving /\ "aTimer2" \in Arriving
        /\ At \notin {"bRestore", "bRestored", "bCollect", "bUnelect"}
    BY <2>2, EarlyStays
  <2>6. to \in Arriving
    BY <2>1, <2>5 DEF Arriving, RunInv, InsideFits, InsidePcs, GatherPcs, LatePcs, OwnerPcs, HandlerPcs
  <2>7. loc[c].mode = EffectiveSyncMode
    BY <2>2, <2>5 DEF RunInv, ModesFit
  <2> QED BY <2>1, <2>2, <2>4, <2>5, <2>6, <2>7, EarlyMove DEF RunInv
<1>2. CASE ApGiveUp(c)
  <2>1. /\ Goto(c, "aGiveUp", "spin")
        /\ UNCHANGED <<BspIndex, Run, Present, InsideSmm, EffectiveSyncMode, Busy>>
        /\ Counter' = Counter - 1
        /\ \A d \in Cpus \ {c} : loc'[d] = loc[d]
    BY <1>2 DEF ApGiveUp, TypeOK, TakeBack, WaitForSemaphore
  <2>2. BspIndex # c /\ pc[c] = "aGiveUp"
    BY <2>1 DEF RunInv, Elected, Goto
  <2>3. /\ At' = At /\ Leading' = Leading
        /\ Leading => loc'[BspIndex] = loc[BspIndex]
        /\ \A d \in Cpus : pc'[d] = IF d = c THEN "spin" ELSE pc[d]
    BY <2>1, <2>2, Bystander DEF RunInv, Leading
  <2>4. At \in {"none", "bStart"}
    BY <2>2, EarlyStays DEF Arriving, GatherPcs, LatePcs, OwnerPcs, HandlerPcs
  <2>5. Open /\ Open' /\ ~Closing /\ ~Closing'
    BY <2>2, <2>3, <2>4 DEF Open, RunInv, Closing, ClosingFits, Joined
  <2>6. Cardinality(Joined') = Cardinality(Joined) - 1
    BY <2>1, JoinedMove
  <2>7. ClosingFits' /\ CounterFits' /\ CountFits'
    BY <2>1, <2>3, <2>4, <2>5, <2>6 DEF RunInv, Closing, ClosingFits, CounterFits, CountFits
  <2> QED BY <2>1, <2>2, <2>7, EarlyMove DEF RunInv
<1>3. CASE ApEnter(c)
  <2> DEFINE to == IF MtrrsConfigured THEN "aSave" ELSE "aLoop"
  <2>1. /\ Goto(c, "aEnter", to)
        /\ BspIndex \in Cpus
        /\ UNCHANGED <<BspIndex, Busy, InsideSmm, EffectiveSyncMode, Counter>>
        /\ Present' = Present \cup {c}
        /\ Run' = [Run EXCEPT ![BspIndex] = IF GatherFirst(c) THEN ReleaseSemaphore(@) ELSE @]
        /\ \A d \in Cpus \ {c} : loc'[d] = loc[d]
        /\ loc'[c].bsp = BspIndex /\ loc'[c].mode = loc[c].mode
    BY <1>3 DEF ApEnter, TypeOK, Locals
  <2>2. BspIndex # c /\ pc[c] = "aEnter"
    BY <2>1 DEF RunInv, Elected, Goto
  <2>3. /\ At' = At /\ Leading' = Leading
        /\ Leading => loc'[BspIndex] = loc[BspIndex]
        /\ \A d \in Cpus : pc'[d] = IF d = c THEN to ELSE pc[d]
    BY <2>1, <2>2, Bystander DEF RunInv, Leading
  <2>4. c \notin Busy /\ "aEnter" \in Arriving
    BY <2>2, EarlyStays
  <2>5. At \in GatherPcs \/ (At \in LatePcs \cup OwnerPcs /\ ~Gathers)
    BY <2>4 DEF Arriving, RunInv, PathFits
  <2>6. Leading /\ At \notin {"bStart", "bRestore", "bRestored", "bCollect", "bUnelect"}
    BY <2>5 DEF At, GatherPcs, LatePcs, OwnerPcs, HandlerPcs
  <2>7. /\ Gathers' = Gathers /\ Open' = Open
        /\ Answered' = Answered /\ Asked' = Asked
        /\ Serving' = Serving /\ Arriving' = Arriving
    BY <2>1, <2>3, <2>6, SameRun
  <2>8. GatherFirst(c) = Gathers
    BY <2>2, <2>6 DEF GatherFirst, Gathers, RunInv, ModesFit, Leading
  <2>9. Asked = {}
    BY <2>5 DEF Asked, GatherPcs, LatePcs, OwnerPcs, HandlerPcs
  <2>10. /\ At \in GatherPcs => Gathers /\ Answered = {to} /\ Serving = {}
         /\ At \notin GatherPcs => ~Gathers /\ to = "aLoop" /\ "aLoop" \in Serving /\ Answered = {}
    BY <2>5 DEF Answered, Serving, RunInv, PathFits, Gathers, GatherFirst, GatherPcs, LatePcs,
       OwnerPcs, HandlerPcs
  <2>11. Elected' /\ PathFits' /\ InsideFits' /\ KnowsBsp'
    BY <2>1, <2>2, <2>3, <2>7 DEF RunInv, Elected, PathFits, InsideFits, KnowsBsp
  <2>12. Follows'
    BY <2>3, <2>7, <2>10 DEF RunInv, Follows
  <2>13. PresentFits'
    BY <2>1, <2>2, <2>3 DEF RunInv, PresentFits
  <2>14. BusyFits'
    BY <2>1, <2>2, <2>3, <2>4 DEF RunInv, BusyFits
  <2>15. ModesFit'
    BY <2>1, <2>2, <2>3, <2>6 DEF RunInv, ModesFit
  <2>16. SignalsFit'
    BY <2>1, <2>2, <2>3, <2>4, <2>6, <2>7, <2>9 DEF RunInv, SignalsFit, Signalled, Leading, TypeOK
  <2>17. AnswersFit'
    <3> DEFINE A == {d \in Cpus : pc[d] \in Answered}
               B == {d \in Cpus : pc'[d] \in Answered}
    <3>1. Run[BspIndex] = Cardinality(A)
      BY <2>6 DEF RunInv, AnswersFit
    <3>2. CASE Gathers
      <4>0. "aEnter" \notin Answered /\ to \in Answered
        BY <3>2, <2>5, <2>10
      <4>1. Cardinality(A) \in Nat /\ Cardinality(B) = Cardinality(A) + 1
        BY <4>0, <2>1, MoveCount
      <4>2. Run'[BspIndex] = Run[BspIndex] + 1
        BY <3>1, <4>1, <3>2, <2>1, <2>8 DEF TypeOK, ReleaseSemaphore
      <4> QED BY <4>1, <4>2, <3>1, <2>1, <2>7 DEF AnswersFit
    <3>3. CASE ~Gathers
      <4>1. B = A
        BY <3>3, <2>3, <2>10
      <4>2. Run'[BspIndex] = Run[BspIndex]
        BY <3>3, <2>1, <2>8 DEF TypeOK
      <4> QED BY <4>1, <4>2, <3>1, <2>1, <2>7 DEF AnswersFit
    <3> QED BY <3>2, <3>3
  <2>18. ClosingFits' /\ CounterFits' /\ CountFits'
    BY <2>1, <2>3, <2>6, SameCount
  <2> QED BY <2>11, <2>12, <2>13, <2>14, <2>15, <2>16, <2>17, <2>18 DEF RunInv
<1> QED BY <1>1, <1>2, <1>3

\* A parked AP wakes up because the BSP asks for its next step, or has handed it a
\* procedure.
LEMMA Woken ==
    ASSUME TypeOK, RunInv, NEW c \in Cpus, pc[c] \in ParkedPcs, Run[c] # 0
    PROVE  /\ Run[c] = 1
           /\ pc[c] \in Asked \/ (pc[c] = "aLoop" /\ c \in Busy /\ At \in OwnerPcs)
           /\ c \in Busy => pc[c] = "aLoop" /\ At \in OwnerPcs
<1>1. pc[c] \notin BspPcs
  BY DEF ParkedPcs, BspPcs
<1>2. Run[c] = 1 /\ Signalled(c)
  BY <1>1 DEF RunInv, SignalsFit
<1>3. pc[c] # "aProc"
  BY <1>2 DEF Signalled, Asked
<1> QED BY <1>2, <1>3 DEF RunInv, BusyFits, Signalled

\* APHandler from the point where the AP parks.
LEMMA ParkedRun ==
    ASSUME TypeOK, SingleBsp, RunInv, NEW c \in Cpus,
           \/ ApSave(c) \/ ApReplace(c) \/ ApWake(c) \/ ApProcedureDone(c)
           \/ ApRestore(c) \/ ApReset(c)
    PROVE  RunInv'
<1> USE DEF slowVars, hwVars, electVars, modeVars, flagVars, cpuData, mtrrVars
<1>1. CASE ApSave(c)
  <2>1. /\ Goto(c, "aSave", "aReplace") /\ pc[c] = "aSave" /\ Handshake(c) /\ Run[c] # 0
        /\ UNCHANGED <<BspIndex, Present, Busy, InsideSmm, Counter, EffectiveSyncMode, loc>>
    BY <1>1 DEF ApSave, Goto, Handshake
  <2>2. "aSave" \in Asked /\ c \notin Busy
    BY <2>1, Woken DEF ParkedPcs
  <2>3. "aSave" \notin Answered /\ "aReplace" \in Answered /\ "aReplace" \notin Asked
    BY <2>2 DEF Asked, Answered, GatherPcs
  <2> QED BY <2>1, <2>2, <2>3, AskedToAnswered DEF ParkedPcs
<1>2. CASE ApReplace(c)
  <2>1. /\ Goto(c, "aReplace", "aLoop") /\ pc[c] = "aReplace" /\ Handshake(c) /\ Run[c] # 0
        /\ UNCHANGED <<BspIndex, Present, Busy, InsideSmm, Counter, EffectiveSyncMode, loc>>
    BY <1>2 DEF ApReplace, Goto, Handshake
  <2>2. "aReplace" \in Asked /\ c \notin Busy
    BY <2>1, Woken DEF ParkedPcs
  <2>3. "aReplace" \notin Answered /\ "aLoop" \in Answered /\ "aLoop" \notin Asked
    BY <2>2 DEF Asked, Answered, GatherPcs
  <2> QED BY <2>1, <2>2, <2>3, AskedToAnswered DEF ParkedPcs
<1>3. CASE ApRestore(c)
  <2>1. /\ Goto(c, "aRestore", "aReset") /\ pc[c] = "aRestore" /\ Handshake(c) /\ Run[c] # 0
        /\ UNCHANGED <<BspIndex, Present, Busy, InsideSmm, Counter, EffectiveSyncMode, loc>>
    BY <1>3 DEF ApRestore, Goto, Handshake
  <2>2. "aRestore" \in Asked /\ c \notin Busy
    BY <2>1, Woken DEF ParkedPcs
  <2>3. "aRestore" \notin Answered /\ "aReset" \in Answered /\ "aReset" \notin Asked
    BY <2>2 DEF Asked, Answered, GatherPcs
  <2> QED BY <2>1, <2>2, <2>3, AskedToAnswered DEF ParkedPcs
<1>4. CASE ApWake(c) /\ ~InsideSmm
  <2> DEFINE to == IF MtrrsConfigured THEN "aRestore" ELSE "aReset"
  <2>1. /\ Goto(c, "aLoop", to) /\ pc[c] = "aLoop" /\ Handshake(c) /\ Run[c] # 0
        /\ UNCHANGED <<BspIndex, Present, Busy, InsideSmm, Counter, EffectiveSyncMode, loc>>
    BY <1>4 DEF ApWake, Goto, Handshake
  <2>2. At \notin OwnerPcs
    BY <1>4 DEF RunInv, InsideFits, InsidePcs
  <2>3. "aLoop" \in Asked /\ c \notin Busy
    BY <2>1, <2>2, Woken DEF ParkedPcs
  <2>4. "aLoop" \notin Answered /\ to \in Answered /\ to \notin Asked
    BY <2>3 DEF Asked, Answered, GatherPcs
  <2> QED BY <2>1, <2>3, <2>4, AskedToAnswered DEF ParkedPcs
<1>5. CASE (ApWake(c) /\ InsideSmm) \/ ApProcedureDone(c)
  <2>1. PICK from \in {"aLoop", "aProc"}, to \in {"aLoop", "aProc"} :
          /\ Goto(c, from, to) /\ pc[c] = from /\ from # to
          /\ UNCHANGED <<BspIndex, Present, InsideSmm, Counter, EffectiveSyncMode, loc>>
          /\ from = "aLoop" => /\ InsideSmm /\ Run[c] # 0 /\ Busy' = Busy
                               /\ Run' = [Run EXCEPT ![c] = Run[c] - 1]
          /\ from = "aProc" => Run' = Run /\ Busy' = Busy \ {c}
    BY <1>5 DEF ApWake, ApProcedureDone, Goto, WaitForSemaphore
  <2>2. /\ from \notin BspPcs /\ to \notin BspPcs
        /\ from \in ParkedPcs /\ to \in ParkedPcs
        /\ from \in JoinedPcs /\ to \in JoinedPcs
    BY DEF BspPcs, ParkedPcs, JoinedPcs, ApPcs
  <2>3. /\ Leading' = Leading
        /\ Leading => c # BspIndex
        /\ At' = At
        /\ \A d \in Cpus : pc'[d] = IF d = c THEN to ELSE pc[d]
    BY <2>1, <2>2, Bystander DEF RunInv
  <2>4. At \in OwnerPcs /\ c \in Busy
    <3>1. CASE from = "aProc"
      BY <2>1, <2>2, <3>1 DEF RunInv, BusyFits
    <3>2. CASE from = "aLoop"
      <4>1. "aLoop" \notin Asked
        BY <3>2, <2>1 DEF RunInv, InsideFits, Asked, InsidePcs, GatherPcs, LatePcs, OwnerPcs, HandlerPcs
      <4> QED BY <3>2, <4>1, <2>1, <2>2, Woken
    <3> QED BY <3>1, <3>2
  <2>5. Leading /\ At \notin {"bCollect", "bRestore", "bRestored", "bUnelect"}
    BY <2>4 DEF At, OwnerPcs, HandlerPcs
  <2>6. /\ Gathers' = Gathers /\ Open' = Open
        /\ Answered' = Answered /\ Asked' = Asked
        /\ Serving' = Serving /\ Arriving' = Arriving
    BY <2>1, <2>3, <2>5, SameRun
  <2>7. Serving = {"aLoop", "aProc"} /\ Asked = {} /\ Answered = {}
    BY <2>4 DEF Serving, Asked, Answered, OwnerPcs, HandlerPcs, GatherPcs
  <2>8. Run'[c] = IF to = "aLoop" /\ c \in Busy' THEN 1 ELSE 0
    BY <2>1, <2>2, <2>4, <2>7 DEF RunInv, SignalsFit, Signalled, TypeOK
  <2>9. \A d \in Cpus \ {c} : Run'[d] = Run[d] /\ (d \in Busy' <=> d \in Busy)
    BY <2>1 DEF TypeOK
  <2>10. Elected' /\ PathFits' /\ InsideFits' /\ KnowsBsp'
    BY <2>1, <2>2, <2>3, <2>6 DEF RunInv, Elected, PathFits, InsideFits, KnowsBsp, Leading, BspPcs
  <2>11. Follows' /\ PresentFits'
    BY <2>1, <2>2, <2>3, <2>6, <2>7 DEF RunInv, Follows, PresentFits
  <2>12. BusyFits'
    BY <2>1, <2>3, <2>4, <2>9 DEF RunInv, BusyFits
  <2>13. ModesFit'
    BY <2>1, <2>2, <2>3 DEF RunInv, ModesFit, ApPcs
  <2>14. SignalsFit'
    BY <2>3, <2>6, <2>7, <2>8, <2>9 DEF RunInv, SignalsFit, Signalled
  <2>15. AnswersFit'
    BY <2>1, <2>3, <2>5, <2>6, <2>7, <2>9 DEF RunInv, AnswersFit, Leading
  <2>16. ClosingFits' /\ CounterFits' /\ CountFits'
    BY <2>1, <2>2, <2>3, <2>5, SameCount
  <2> QED BY <2>10, <2>11, <2>12, <2>13, <2>14, <2>15, <2>16 DEF RunInv
<1>6. CASE ApReset(c)
  <2>1. /\ Goto(c, "aReset", "spin") /\ pc[c] = "aReset" /\ Handshake(c) /\ Run[c] # 0
        /\ Present' = Present \ {c}
        /\ \A d \in Cpus \ {c} : loc'[d] = loc[d]
        /\ UNCHANGED <<BspIndex, Busy, InsideSmm, Counter, EffectiveSyncMode>>
    BY <1>6 DEF ApReset, Goto, Handshake, TypeOK
  <2>2. "aReset" \in Asked /\ c \notin Busy /\ Run[c] = 1
    BY <2>1, Woken DEF ParkedPcs
  <2>3. At = "bCollect" /\ Leading
    BY <2>2 DEF Asked, At
  <2>4. /\ Leading' = Leading
        /\ c # BspIndex
        /\ At' = At
        /\ \A d \in Cpus : pc'[d] = IF d = c THEN "spin" ELSE pc[d]
    BY <2>1, <2>3, Bystander DEF RunInv, BspPcs
  <2>5. loc'[BspIndex] = loc[BspIndex] /\ loc[c].bsp = BspIndex
    BY <2>1, <2>3, <2>4 DEF Leading, RunInv, KnowsBsp, ParkedPcs
  <2>6. /\ Gathers' = Gathers /\ Open' = Open
        /\ Answered' = Answered /\ Asked' = Asked
        /\ Serving' = Serving /\ Arriving' = Arriving
    BY <2>1, <2>3, <2>4, <2>5, SameRun
  <2>7. /\ Run'[c] = 0
        /\ Run'[BspIndex] = Run[BspIndex] + 1
        /\ \A d \in Cpus \ {c, BspIndex} : Run'[d] = Run[d]
    BY <2>1, <2>2, <2>3, <2>4, <2>5 DEF Handshake, WaitForSemaphore, ReleaseSemaphore, Leading,
       RunInv, CountFits
  <2>8. Elected' /\ PathFits' /\ InsideFits' /\ KnowsBsp'
    BY <2>1, <2>3, <2>4, <2>6 DEF RunInv, Elected, PathFits, InsideFits, KnowsBsp, ParkedPcs
  <2>9. Follows' /\ PresentFits'
    BY <2>1, <2>3, <2>4, <2>6 DEF RunInv, Follows, PresentFits, ParkedPcs, EarlyPcs
  <2>10. BusyFits'
    BY <2>1, <2>4 DEF RunInv, BusyFits, ParkedPcs, EarlyPcs
  <2>11. ModesFit'
    BY <2>1, <2>3, <2>4, <2>5 DEF RunInv, ModesFit, ApPcs, BspPcs
  <2>12. SignalsFit'
    BY <2>1, <2>3, <2>4, <2>6, <2>7 DEF RunInv, SignalsFit, Signalled, Leading, Asked
  <2>13. AnswersFit'
    BY <2>3, <2>4 DEF AnswersFit
  <2>14. /\ Cardinality(Joined) \in Nat
         /\ Cardinality(Joined') = Cardinality(Joined) - 1
    BY <2>1, JoinedMove DEF JoinedPcs, ApPcs, EntryPcs, BspPcs
  <2>15. Closing' = Closing /\ ~Closing
    BY <2>1, <2>3, <2>4, CpusAssumption DEF Closing, RunInv, ClosingFits, Leading
  <2>16. ~Open
    BY <2>3 DEF Open, GatherPcs, OwnerPcs, HandlerPcs
  <2>17. ClosingFits' /\ CounterFits'
    BY <2>1, <2>6, <2>15, <2>16 DEF RunInv, Closing, ClosingFits, CounterFits
  <2>18. CountFits'
    <3>1. loc[BspIndex].apCount \in Int
      BY <2>3 DEF Leading, TypeOK, Locals
    <3> QED BY <2>1, <2>3, <2>4, <2>5, <2>6, <2>7, <2>14, <3>1 DEF RunInv, CountFits
  <2> QED BY <2>8, <2>9, <2>10, <2>11, <2>12, <2>13, <2>17, <2>18 DEF RunInv
<1> QED BY <1>1, <1>2, <1>3, <1>4, <1>5, <1>6

-----------------------------------------------------------------------------
\* A step of the BSP inside BSPHandler is a step of the run.
LEMMA LeaderMove ==
    ASSUME TypeOK, SingleBsp, RunInv, NEW c \in Cpus, NEW from \in BspPcs, NEW to \in BspPcs,
           Goto(c, from, to), BspIndex' = BspIndex,
           \A d \in Cpus \ {c} : loc'[d] = loc[d], loc'[c].mode = loc[c].mode
    PROVE  /\ c = BspIndex /\ Leading /\ Leading' /\ At = from /\ At' = to
           /\ \A d \in Cpus : pc'[d] = IF d = c THEN to ELSE pc[d]
           /\ pc[c] = from
           /\ Joined' = Joined /\ c \in Joined
           /\ ~Closing /\ ~Closing'
           /\ Gathers' = Gathers
           /\ Elected' /\ ClosingFits' /\ KnowsBsp'
           /\ \A d \in Cpus : pc'[d] \in EarlyPcs \cup ParkedPcs <=> pc[d] \in EarlyPcs \cup ParkedPcs
           /\ \A d \in Cpus : pc'[d] \notin BspPcs <=> pc[d] \notin BspPcs
           /\ \A d \in Cpus : pc'[d] \in EarlyPcs \cup ParkedPcs => d # c
<1>1. \A d \in Cpus : pc'[d] = IF d = c THEN to ELSE pc[d]
  BY DEF Goto, TypeOK
<1>2. pc[c] = from /\ c = BspIndex
  BY DEF Goto, SingleBsp
<1>3. Leading /\ Leading' /\ At = from /\ At' = to
  BY <1>1, <1>2 DEF Leading, At
<1>4. Joined' = Joined /\ c \in Joined
  BY <1>2, JoinedMove DEF JoinedPcs, Joined
<1>5. ~Closing /\ ~Closing'
  BY <1>1, <1>2, CpusAssumption DEF Closing, RunInv, ClosingFits, BspPcs
<1>6. Gathers' = Gathers
  BY <1>2 DEF Gathers, GatherFirst
<1>7. Elected' /\ ClosingFits'
  BY <1>1, <1>2, <1>5 DEF Elected, ClosingFits, Closing
<1>8. from \notin EarlyPcs \cup ParkedPcs /\ to \notin EarlyPcs \cup ParkedPcs
  BY DEF EarlyPcs, ParkedPcs, BspPcs
<1>9. KnowsBsp'
  BY <1>1, <1>8 DEF RunInv, KnowsBsp
<1> QED BY <1>1, <1>2, <1>3, <1>4, <1>5, <1>6, <1>7, <1>8, <1>9

\* Places of the BSP between which nothing is signalled and nobody is let in or out.
Stages == {GatherPcs \ {"bGather"}, OwnerPcs, {"bSave", "bSaved"}, {"bReplace", "bReplaced"},
           {"bRestore", "bRestored"}, {"bSyncLate", "bLockLate"}}

\* A step of the BSP that writes none of the shared words keeps the invariant when its
\* old and new place mean the same to everybody else.
LEMMA QuietMove ==
    ASSUME TypeOK, SingleBsp, RunInv, NEW c \in Cpus, NEW S \in Stages,
           NEW from \in S, NEW to \in S, Goto(c, from, to),
           UNCHANGED <<BspIndex, Run, Present, Busy, InsideSmm, Counter, EffectiveSyncMode>>,
           \A d \in Cpus \ {c} : loc'[d] = loc[d],
           loc'[c].mode = loc[c].mode, loc'[c].apCount = loc[c].apCount
    PROVE  RunInv'
<1>1. from \in BspPcs /\ to \in BspPcs
  BY DEF Stages, BspPcs, GatherPcs, OwnerPcs, HandlerPcs
<1>2. /\ c = BspIndex /\ Leading /\ Leading' /\ At = from /\ At' = to
      /\ \A d \in Cpus : pc'[d] = IF d = c THEN to ELSE pc[d]
      /\ pc[c] = from
      /\ Joined' = Joined /\ ~Closing /\ ~Closing'
      /\ Gathers' = Gathers
      /\ Elected' /\ ClosingFits' /\ KnowsBsp'
      /\ \A d \in Cpus : pc'[d] \in EarlyPcs \cup ParkedPcs <=> pc[d] \in EarlyPcs \cup ParkedPcs
      /\ \A d \in Cpus : pc'[d] \notin BspPcs <=> pc[d] \notin BspPcs
      /\ \A d \in Cpus : pc'[d] \in EarlyPcs \cup ParkedPcs => d # c
  BY <1>1, LeaderMove
<1>3. /\ Answered' = Answered /\ Asked' = Asked /\ Serving' = Serving /\ Arriving' = Arriving
      /\ Open' = Open
      /\ from \in InsidePcs <=> to \in InsidePcs
      /\ from \in OwnerPcs <=> to \in OwnerPcs
      /\ from \in GatherPcs <=> to \in GatherPcs
      /\ from \in LatePcs <=> to \in LatePcs
      /\ from \in {"bRestore", "bRestored", "bCollect", "bUnelect"}
           <=> to \in {"bRestore", "bRestored", "bCollect", "bUnelect"}
      /\ from \notin {"bStart", "bCollect", "bUnelect"} /\ to \notin {"bStart", "bCollect", "bUnelect"}
  <2> USE <1>2 DEF GatherPcs, OwnerPcs, HandlerPcs, LatePcs, InsidePcs
  <2>1. CASE S = GatherPcs \ {"bGather"}
    BY <2>1 DEF Answered, Asked, Serving, Arriving, Open
  <2>2. CASE S = OwnerPcs
    BY <2>2 DEF Answered, Asked, Serving, Arriving, Open
  <2>3. CASE S = {"bSave", "bSaved"}
    BY <2>3 DEF Answered, Asked, Serving, Arriving, Open
  <2>4. CASE S = {"bReplace", "bReplaced"}
    BY <2>4 DEF Answered, Asked, Serving, Arriving, Open
  <2>5. CASE S = {"bRestore", "bRestored"}
    BY <2>5 DEF Answered, Asked, Serving, Arriving, Open
  <2>6. CASE S = {"bSyncLate", "bLockLate"}
    BY <2>6 DEF Answered, Asked, Serving, Arriving, Open
  <2> QED BY <2>1, <2>2, <2>3, <2>4, <2>5, <2>6 DEF Stages
<1>4. PathFits' /\ InsideFits'
  <2>1. to \in {"bSave", "bSaved", "bReplace", "bReplaced", "bRestore", "bRestored"}
          <=> from \in {"bSave", "bSaved", "bReplace", "bReplaced", "bRestore", "bRestored"}
    BY DEF Stages, GatherPcs, OwnerPcs, HandlerPcs
  <2> QED BY <1>2, <1>3, <2>1 DEF RunInv, PathFits, InsideFits
<1>5. Follows'
  BY <1>2, <1>3 DEF RunInv, Follows
<1>6. PresentFits'
  BY <1>1, <1>2, <1>3 DEF RunInv, PresentFits, ParkedPcs, BspPcs
<1>7. BusyFits'
  BY <1>2, <1>3 DEF RunInv, BusyFits
<1>8. SignalsFit'
  BY <1>1, <1>2, <1>3 DEF RunInv, SignalsFit, Signalled
<1>9. AnswersFit'
  <2>1. Answered \subseteq ParkedPcs
    BY DEF Answered, ParkedPcs
  <2>2. from \notin Answered /\ to \notin Answered
    BY <1>1, <2>1 DEF ParkedPcs, BspPcs
  <2>3. {d \in Cpus : pc'[d] \in Answered} = {d \in Cpus : pc[d] \in Answered}
    BY <1>2, <2>2
  <2> QED BY <1>2, <1>3, <2>3 DEF RunInv, AnswersFit
<1>10. ModesFit'
  BY <1>1, <1>2, <1>3 DEF RunInv, ModesFit
<1>11. CounterFits' /\ CountFits'
  BY <1>2, <1>3 DEF RunInv, CounterFits, CountFits
<1> QED BY <1>2, <1>4, <1>5, <1>6, <1>7, <1>8, <1>9, <1>10, <1>11 DEF RunInv

\* A step that leaves alone everything the invariant is about.
LEMMA NoMove ==
    ASSUME RunInv,
           UNCHANGED <<pc, BspIndex, Run, Present, Busy, InsideSmm, Counter, EffectiveSyncMode, loc>>
    PROVE  RunInv'
<1>1. Leading' = Leading /\ At' = At /\ Gathers' = Gathers /\ Joined' = Joined /\ Closing' = Closing
  BY DEF Leading, At, Gathers, GatherFirst, Joined, Closing
<1>2. /\ Answered' = Answered /\ Asked' = Asked /\ Serving' = Serving /\ Arriving' = Arriving
      /\ Open' = Open
  BY <1>1 DEF Answered, Asked, Serving, Arriving, Open
<1>3. \A c \in Cpus : Signalled(c)' = Signalled(c)
  BY <1>2 DEF Signalled
<1>4. Elected' /\ PathFits' /\ Follows' /\ InsideFits' /\ PresentFits' /\ BusyFits' /\ KnowsBsp'
  BY <1>1, <1>2 DEF RunInv, Elected, PathFits, Follows, InsideFits, PresentFits, BusyFits, KnowsBsp
<1>5. SignalsFit' /\ AnswersFit' /\ ModesFit'
  BY <1>1, <1>2, <1>3 DEF RunInv, SignalsFit, AnswersFit, ModesFit
<1>6. ClosingFits' /\ CounterFits' /\ CountFits'
  BY <1>1, <1>2 DEF RunInv, ClosingFits, CounterFits, CountFits
<1> QED BY <1>4, <1>5, <1>6 DEF RunInv

\* WaitForAllAPs() returns: the BSP has one unit of every AP of the run, so each of them
\* stands where it answered.
LEMMA AllAnswered ==
    ASSUME TypeOK, SingleBsp, RunInv, NEW c \in Cpus, AllAPsSignalled(c),
           pc[c] \in {"bGather", "bSaved", "bReplaced", "bFinished", "bRestored"}
    PROVE  /\ Run[c] = loc[c].apCount
           /\ \A d \in Cpus : pc[d] \in EarlyPcs \cup ParkedPcs => pc[d] \in Answered /\ d \notin Busy
<1>1. c = BspIndex /\ Leading /\ At = pc[c]
  BY DEF SingleBsp, BspPcs, Leading, At
<1> DEFINE A == {d \in Cpus : pc[d] \in Answered}
           F == Joined \ {c}
<1>2. Run[c] = Cardinality(A)
  BY <1>1 DEF RunInv, AnswersFit
<1>3. c \in Joined
  BY <1>1 DEF Joined, Leading
<1>4. IsFiniteSet(Joined) /\ Cardinality(Joined) \in Nat
  BY JoinedCount
<1>5. IsFiniteSet(F) /\ Cardinality(F) = Cardinality(Joined) - 1
  BY <1>3, <1>4, FS_RemoveElement
<1>6. ~Open
  BY <1>1 DEF Open, GatherPcs, OwnerPcs, HandlerPcs
<1>7. loc[c].apCount \in Int /\ Cardinality(Joined) = loc[c].apCount + 1
  BY <1>1, <1>6 DEF RunInv, CountFits, TypeOK, Locals
<1>8. A \subseteq F
  <2>1. Answered \subseteq ParkedPcs
    BY DEF Answered, ParkedPcs
  <2> QED BY <2>1 DEF Joined, ParkedPcs, ApPcs
<1>9. Cardinality(A) \in Nat /\ Cardinality(A) <= Cardinality(F) /\ (Cardinality(A) = Cardinality(F) => A = F)
  BY <1>5, <1>8, FS_Subset, FS_CardinalityType
<1>10. loc[c].apCount <= Run[c]
  BY <1>2, <1>7, <1>9 DEF AllAPsSignalled
<1>11. Run[c] = loc[c].apCount /\ A = F
  BY <1>2, <1>4, <1>5, <1>7, <1>9, <1>10
<1>12. ASSUME NEW d \in Cpus, pc[d] \in EarlyPcs \cup ParkedPcs
       PROVE  pc[d] \in Answered /\ d \notin Busy
  <2>1. d \in F
    BY <1>12 DEF Joined, EarlyPcs, ParkedPcs, EntryPcs, ApPcs
  <2>2. d \notin Busy
    BY <1>1, <1>12 DEF RunInv, BusyFits, OwnerPcs, HandlerPcs
  <2> QED BY <2>1, <2>2, <1>11
<1> QED BY <1>11, <1>12

\* ReleaseAllAPs(): every AP of the run is parked, has been asked for nothing yet, and now
\* is asked for its next step.
LEMMA ReleaseMove ==
    ASSUME TypeOK, SingleBsp, RunInv, NEW c \in Cpus,
           NEW from \in {"bGather", "bSaved", "bNotify", "bFinished", "bRestored"},
           NEW to \in {"bSave", "bReplace", "bFinished", "bRestore", "bCollect"},
           Goto(c, from, to), NEW r \in [Cpus -> Int], r[c] = 0,
           \A d \in Cpus \ {c} : r[d] = Run[d], Run' = ReleaseAllAPs(r),
           UNCHANGED <<BspIndex, Busy, InsideSmm, Counter, loc>>,
           from # "bFinished" => EffectiveSyncMode' = EffectiveSyncMode,
           from = "bFinished" => to \in {"bRestore", "bCollect"},
           Present' = IF to = "bCollect" THEN Present \ {c} ELSE Present,
           to \in {"bSave", "bReplace", "bRestore"} => MtrrsConfigured,
           to \in {"bSave", "bReplace"} <=> from \in {"bGather", "bSaved"},
           to = "bFinished" => from = "bNotify",
           \A d \in Cpus : pc[d] \in EarlyPcs \cup ParkedPcs =>
               pc[d] \in Asked' /\ pc[d] \notin Asked /\ pc[d] \notin Answered' /\ d \notin Busy
    PROVE  RunInv'
<1>1. from \in BspPcs /\ to \in BspPcs
  BY DEF BspPcs
<1>2. /\ c = BspIndex /\ Leading /\ Leading' /\ At = from /\ At' = to
      /\ \A d \in Cpus : pc'[d] = IF d = c THEN to ELSE pc[d]
      /\ pc[c] = from
      /\ Joined' = Joined /\ ~Closing /\ ~Closing'
      /\ Gathers' = Gathers
      /\ Elected' /\ ClosingFits' /\ KnowsBsp'
      /\ \A d \in Cpus : pc'[d] \in EarlyPcs \cup ParkedPcs <=> pc[d] \in EarlyPcs \cup ParkedPcs
      /\ \A d \in Cpus : pc'[d] \notin BspPcs <=> pc[d] \notin BspPcs
      /\ \A d \in Cpus : pc'[d] \in EarlyPcs \cup ParkedPcs => d # c
  BY <1>1, LeaderMove
<1>3. Asked' \subseteq ParkedPcs /\ Answered' \subseteq ParkedPcs
  BY DEF Asked, Answered, ParkedPcs
<1>4. PathFits'
  BY <1>2 DEF PathFits, GatherPcs, LatePcs
<1>5. InsideFits'
  BY <1>2 DEF RunInv, InsideFits, InsidePcs, GatherPcs, LatePcs, OwnerPcs, HandlerPcs
<1>6. Follows'
  BY <1>2 DEF Follows
<1>7. \A d \in Cpus \ {c} : d \in Present <=> pc[d] \in ParkedPcs
  BY <1>2 DEF RunInv, PresentFits
<1>8. PresentFits'
  BY <1>1, <1>2, <1>7 DEF RunInv, PresentFits, ParkedPcs, BspPcs
<1>9. BusyFits'
  BY <1>2 DEF RunInv, BusyFits
<1>10. ASSUME NEW d \in Cpus, pc'[d] \notin BspPcs
       PROVE  Run'[d] = IF Signalled(d)' THEN 1 ELSE 0
  <2>1. d # c /\ pc'[d] = pc[d]
    BY <1>1, <1>2, <1>10
  <2>2. CASE pc[d] \in EarlyPcs \cup ParkedPcs
    <3>1. pc[d] \in ParkedPcs
      BY <2>2, <1>3
    <3>2. Run[d] = 0
      <4>1. ~Signalled(d)
        BY <2>2 DEF Signalled
      <4> QED BY <4>1, <1>2, <1>10 DEF RunInv, SignalsFit
    <3>3. Run'[d] = 1
      BY <1>2, <1>7, <2>1, <3>1, <3>2 DEF ReleaseAllAPs, PresentAPs, ReleaseSemaphore
    <3> QED BY <2>1, <2>2, <3>3 DEF Signalled
  <2>3. CASE pc[d] \notin EarlyPcs \cup ParkedPcs
    <3>1. ~Signalled(d) /\ ~Signalled(d)'
      <4>1. Asked \subseteq ParkedPcs /\ "aLoop" \in ParkedPcs
        BY DEF Asked, ParkedPcs
      <4> QED BY <4>1, <1>3, <2>1, <2>3 DEF Signalled
    <3>2. Run[d] = 0
      BY <3>1, <1>2, <1>10 DEF RunInv, SignalsFit
    <3>3. Run'[d] = Run[d]
      BY <1>2, <1>7, <2>1, <2>3 DEF ReleaseAllAPs, PresentAPs
    <3> QED BY <3>1, <3>2, <3>3
  <2> QED BY <2>2, <2>3
<1>11. SignalsFit'
  BY <1>10 DEF SignalsFit
<1>12. Run'[c] = 0
  BY <1>2 DEF ReleaseAllAPs, PresentAPs
<1>13. AnswersFit'
  <2>1. {d \in Cpus : pc'[d] \in Answered'} = {}
    BY <1>2, <1>3
  <2> QED BY <1>2, <1>12, <2>1, FS_EmptySet DEF AnswersFit
<1>14. ModesFit'
  BY <1>1, <1>2 DEF RunInv, ModesFit
<1>15. ~Open /\ ~Open'
  BY <1>2 DEF Open, GatherPcs, OwnerPcs, HandlerPcs
<1>16. CounterFits'
  BY <1>2, <1>15 DEF RunInv, CounterFits
<1>17. CountFits'
  <2>1. loc[c].apCount \in Int
    BY DEF TypeOK, Locals
  <2> QED BY <1>2, <1>12, <1>15, <2>1 DEF RunInv, CountFits
<1> QED BY <1>2, <1>4, <1>5, <1>6, <1>8, <1>9, <1>11, <1>13, <1>14, <1>16, <1>17 DEF RunInv

\* All APs are parked in their loop: the BSP starts the handlers.
LEMMA ToHandlers ==
    ASSUME TypeOK, SingleBsp, RunInv, NEW c \in Cpus, NEW from \in {"bGather", "bReplaced"},
           Goto(c, from, "handler"), AllAPsSignalled(c), Run' = WaitForAllAPs(c),
           Busy' = Busy \cup {c}, Answered = {"aLoop"},
           UNCHANGED <<BspIndex, Present, InsideSmm, Counter, EffectiveSyncMode, loc>>
    PROVE  RunInv'
<1>1. from \in BspPcs /\ "handler" \in BspPcs
  BY DEF BspPcs
<1>2. /\ c = BspIndex /\ Leading /\ Leading' /\ At = from /\ At' = "handler"
      /\ \A d \in Cpus : pc'[d] = IF d = c THEN "handler" ELSE pc[d]
      /\ pc[c] = from
      /\ Joined' = Joined /\ ~Closing /\ ~Closing'
      /\ Gathers' = Gathers
      /\ Elected' /\ ClosingFits' /\ KnowsBsp'
      /\ \A d \in Cpus : pc'[d] \in EarlyPcs \cup ParkedPcs <=> pc[d] \in EarlyPcs \cup ParkedPcs
      /\ \A d \in Cpus : pc'[d] \notin BspPcs <=> pc[d] \notin BspPcs
      /\ \A d \in Cpus : pc'[d] \in EarlyPcs \cup ParkedPcs => d # c
  BY <1>1, LeaderMove
<1>3. /\ Run[c] = loc[c].apCount
      /\ \A d \in Cpus : pc[d] \in EarlyPcs \cup ParkedPcs => pc[d] = "aLoop" /\ d \notin Busy
  BY <1>2, AllAnswered
<1>4. /\ Asked = {} \/ Asked = {"aReplace"}
      /\ Asked' = {} /\ Answered' = {} /\ Serving' = {"aLoop", "aProc"}
  BY <1>2 DEF Asked, Answered, Serving, GatherPcs, OwnerPcs, HandlerPcs
<1>5. Gathers
  BY <1>2 DEF RunInv, PathFits, GatherPcs, Gathers, GatherFirst
<1>6. PathFits' /\ InsideFits'
  BY <1>2 DEF RunInv, PathFits, InsideFits, InsidePcs, GatherPcs, LatePcs, OwnerPcs, HandlerPcs
<1>7. Follows' /\ PresentFits'
  BY <1>1, <1>2, <1>3, <1>4 DEF RunInv, Follows, PresentFits, ParkedPcs, BspPcs
<1>8. BusyFits'
  BY <1>2, <1>3 DEF BusyFits
<1>9. Run'[c] = 0 /\ \A d \in Cpus \ {c} : Run'[d] = Run[d]
  BY <1>3 DEF WaitForAllAPs, TypeOK
<1>10. SignalsFit'
  BY <1>1, <1>2, <1>3, <1>4, <1>9 DEF RunInv, SignalsFit, Signalled, ParkedPcs
<1>11. AnswersFit'
  BY <1>2, <1>4, <1>9, FS_EmptySet DEF AnswersFit
<1>12. ModesFit'
  BY <1>1, <1>2 DEF RunInv, ModesFit
<1>13. ~Open /\ ~Open'
  BY <1>2, <1>5 DEF Open, GatherPcs, OwnerPcs, HandlerPcs
<1>14. CounterFits' /\ CountFits'
  BY <1>2, <1>13 DEF RunInv, CounterFits, CountFits
<1> QED BY <1>2, <1>6, <1>7, <1>8, <1>10, <1>11, <1>12, <1>14 DEF RunInv

\* BSPHandler up to the handlers.
LEMMA BeforeRun ==
    ASSUME CleanGiveUp, TypeOK, SingleBsp, RunInv, NEW c \in Cpus,
           \/ BspStart(c) \/ SmmWaitForApArrival(c) \/ BspSync(c) \/ BspLock(c) \/ BspGather(c)
           \/ BspSave(c) \/ BspSaved(c) \/ BspReplace(c) \/ BspReplaced(c)
    PROVE  RunInv'
<1> USE DEF slowVars, hwVars, electVars, modeVars, flagVars, cpuData, mtrrVars
<1>0. Asked \cup Answered \cup Serving \subseteq ParkedPcs
  BY DEF Asked, Answered, Serving, ParkedPcs
<1>1. CASE BspStart(c)
  <2> DEFINE to == IF GatherFirst(c) THEN "bArrive1" ELSE "handler"
  <2>1. /\ Goto(c, "bStart", to)
        /\ InsideSmm' = TRUE
        /\ Present' = Present \cup {c}
        /\ Busy' = Busy \/ Busy' = Busy \cup {c}
        /\ UNCHANGED <<BspIndex, Run, Counter, EffectiveSyncMode, loc>>
        /\ \A d \in Cpus : pc[d] # "aGiveUp"
    BY <1>1 DEF BspStart
  <2>2. "bStart" \in BspPcs /\ to \in BspPcs
    BY DEF BspPcs
  <2>3. /\ c = BspIndex /\ Leading /\ Leading' /\ At = "bStart" /\ At' = to
        /\ \A d \in Cpus : pc'[d] = IF d = c THEN to ELSE pc[d]
        /\ pc[c] = "bStart"
        /\ Joined' = Joined /\ ~Closing /\ ~Closing'
        /\ Gathers' = Gathers
        /\ Elected' /\ ClosingFits' /\ KnowsBsp'
        /\ \A d \in Cpus : pc'[d] \in EarlyPcs \cup ParkedPcs <=> pc[d] \in EarlyPcs \cup ParkedPcs
        /\ \A d \in Cpus : pc'[d] \notin BspPcs <=> pc[d] \notin BspPcs
        /\ \A d \in Cpus : pc'[d] \in EarlyPcs \cup ParkedPcs => d # c
    BY <2>1, <2>2, LeaderMove
  <2>4. Gathers = GatherFirst(c)
    BY <2>3 DEF Gathers
  <2>5. /\ Asked = {} /\ Answered = {} /\ Serving = {} /\ Arriving = EarlyPcs \ {"aEnter"}
        /\ Asked' = {} /\ Arriving' = EarlyPcs \ {"aGiveUp"}
        /\ Open /\ Open'
    BY <2>3, <2>4 DEF Asked, Answered, Serving, Arriving, Open, GatherPcs, LatePcs, OwnerPcs, HandlerPcs
  <2>6. \A d \in Cpus : pc[d] \notin ParkedPcs /\ pc'[d] \notin ParkedPcs
    BY <2>2, <2>3, <2>5 DEF RunInv, Follows, EarlyPcs, ParkedPcs, BspPcs
  <2>7. PathFits' /\ InsideFits'
    BY <2>1, <2>3, <2>4 DEF PathFits, InsideFits, InsidePcs, GatherPcs, LatePcs, OwnerPcs, HandlerPcs
  <2>8. Follows'
    BY <2>1, <2>3, <2>5, <2>6 DEF RunInv, Follows
  <2>9. PresentFits'
    BY <2>1, <2>3, <2>6 DEF RunInv, PresentFits
  <2>10. BusyFits'
    BY <2>1, <2>3, <2>6 DEF RunInv, BusyFits, OwnerPcs, HandlerPcs, ParkedPcs
  <2>11. SignalsFit'
    BY <2>1, <2>3, <2>5, <2>6 DEF RunInv, SignalsFit, Signalled, ParkedPcs
  <2>12. AnswersFit'
    <3>1. Run[c] = 0
      BY <2>3, <2>5, FS_EmptySet DEF RunInv, AnswersFit
    <3>2. Answered' \subseteq ParkedPcs
      BY DEF Answered, ParkedPcs
    <3>3. {d \in Cpus : pc'[d] \in Answered'} = {}
      BY <3>2, <2>6
    <3> QED BY <2>1, <2>3, <3>1, <3>3, FS_EmptySet DEF AnswersFit
  <2>13. ModesFit'
    BY <2>1, <2>2, <2>3 DEF RunInv, ModesFit
  <2>14. CounterFits' /\ CountFits'
    BY <2>1, <2>3, <2>5 DEF RunInv, CounterFits, CountFits
  <2> QED BY <2>3, <2>7, <2>8, <2>9, <2>10, <2>11, <2>12, <2>13, <2>14 DEF RunInv
<1>2. CASE SmmWaitForApArrival(c) \/ (BspSync(c) /\ pc[c] = "bSync")
  <2> DEFINE S == GatherPcs \ {"bGather"}
  <2>1. PICK from \in S, to \in S :
          /\ Goto(c, from, to)
          /\ UNCHANGED <<BspIndex, Run, Present, Busy, InsideSmm, Counter, EffectiveSyncMode, loc>>
    BY <1>2 DEF SmmWaitForApArrival, FirstWait, BringIn, SecondWait, BspSync, GatherPcs, Goto
  <2>2. S \in Stages
    BY DEF Stages
  <2> QED BY <2>1, <2>2, QuietMove
<1>3. CASE BspSync(c) /\ pc[c] # "bSync"
  <2>1. /\ Goto(c, "bSyncLate", "bLockLate")
        /\ UNCHANGED <<BspIndex, Run, Present, Busy, InsideSmm, Counter, EffectiveSyncMode, loc>>
    BY <1>3 DEF BspSync, Goto
  <2> QED BY <2>1, QuietMove DEF Stages
<1>4. CASE BspSave(c)
  <2>1. /\ Goto(c, "bSave", "bSaved")
        /\ UNCHANGED <<BspIndex, Run, Present, Busy, InsideSmm, Counter, EffectiveSyncMode, loc>>
    BY <1>4 DEF BspSave
  <2> QED BY <2>1, QuietMove DEF Stages
<1>5. CASE BspReplace(c)
  <2>1. /\ Goto(c, "bReplace", "bReplaced")
        /\ UNCHANGED <<BspIndex, Run, Present, Busy, InsideSmm, Counter, EffectiveSyncMode, loc>>
    BY <1>5 DEF BspReplace
  <2> QED BY <2>1, QuietMove DEF Stages
<1>6. CASE BspLock(c)
  <2>1. PICK from \in {"bLock", "bLockLate"}, to \in {"bGather", "bPresent"} :
          /\ Goto(c, from, to)
          /\ from = "bLock" <=> to = "bGather"
          /\ Counter' = Locked
          /\ UNCHANGED <<BspIndex, Run, Present, Busy, InsideSmm, EffectiveSyncMode>>
          /\ \A d \in Cpus \ {c} : loc'[d] = loc[d]
          /\ loc'[c].mode = loc[c].mode /\ loc'[c].apCount = Counter - 1
    BY <1>6 DEF BspLock, LockdownSemaphore, TypeOK, Locals
  <2>2. from \in BspPcs /\ to \in BspPcs
    BY DEF BspPcs
  <2>3. /\ c = BspIndex /\ Leading /\ Leading' /\ At = from /\ At' = to
        /\ \A d \in Cpus : pc'[d] = IF d = c THEN to ELSE pc[d]
        /\ pc[c] = from
        /\ Joined' = Joined /\ ~Closing /\ ~Closing'
        /\ Gathers' = Gathers
        /\ Elected' /\ ClosingFits' /\ KnowsBsp'
        /\ \A d \in Cpus : pc'[d] \in EarlyPcs \cup ParkedPcs <=> pc[d] \in EarlyPcs \cup ParkedPcs
        /\ \A d \in Cpus : pc'[d] \notin BspPcs <=> pc[d] \notin BspPcs
        /\ \A d \in Cpus : pc'[d] \in EarlyPcs \cup ParkedPcs => d # c
    BY <2>1, <2>2, LeaderMove
  <2>4. /\ Asked = {} /\ Asked' = {} /\ Answered' = Answered /\ Serving' = Serving
        /\ Arriving' = Arriving /\ Open /\ ~Open'
    BY <2>1, <2>3 DEF Asked, Answered, Serving, Arriving, Open, GatherPcs, LatePcs, OwnerPcs, HandlerPcs
  <2>5. PathFits' /\ InsideFits'
    BY <2>1, <2>3 DEF RunInv, PathFits, InsideFits, InsidePcs, GatherPcs, LatePcs, OwnerPcs, HandlerPcs
  <2>6. Follows' /\ PresentFits'
    BY <2>1, <2>2, <2>3, <2>4 DEF RunInv, Follows, PresentFits, ParkedPcs, BspPcs
  <2>7. BusyFits' /\ SignalsFit'
    BY <2>1, <2>3, <2>4 DEF RunInv, BusyFits, SignalsFit, Signalled, OwnerPcs, HandlerPcs
  <2>8. AnswersFit'
    <3>1. from \notin Answered /\ to \notin Answered
      BY <1>0, <2>2 DEF ParkedPcs, BspPcs
    <3>2. {d \in Cpus : pc'[d] \in Answered} = {d \in Cpus : pc[d] \in Answered}
      BY <2>3, <3>1
    <3> QED BY <2>1, <2>3, <2>4, <3>2 DEF RunInv, AnswersFit
  <2>9. ModesFit'
    BY <2>1, <2>2, <2>3 DEF RunInv, ModesFit
  <2>10. CounterFits'
    BY <2>1, <2>3, <2>4 DEF CounterFits
  <2>11. CountFits'
    BY <2>1, <2>3, <2>4, JoinedCount DEF RunInv, CounterFits, CountFits
  <2> QED BY <2>3, <2>5, <2>6, <2>7, <2>8, <2>9, <2>10, <2>11 DEF RunInv
<1>7. CASE (BspGather(c) /\ MtrrsConfigured) \/ BspSaved(c)
  <2> DEFINE r == WaitForAllAPs(c)
  <2>1. PICK from \in {"bGather", "bSaved"}, to \in {"bSave", "bReplace"} :
          /\ Goto(c, from, to) /\ pc[c] = from /\ AllAPsSignalled(c)
          /\ from = "bGather" <=> to = "bSave"
          /\ from = "bGather" => MtrrsConfigured
          /\ Run' = ReleaseAllAPs(r)
          /\ UNCHANGED <<BspIndex, Present, Busy, InsideSmm, Counter, EffectiveSyncMode, loc>>
    BY <1>7 DEF BspGather, BspSaved, AllBackedUp, Goto
  <2>0. from \in BspPcs /\ to \in BspPcs
    BY DEF BspPcs
  <2>2. At = from /\ At' = to
    BY <2>0, <2>1, LeaderMove
  <2>3. MtrrsConfigured
    BY <2>1, <2>2 DEF RunInv, PathFits
  <2>4. Answered = Asked' /\ Answered \cap Asked = {} /\ Answered \cap Answered' = {}
    BY <2>1, <2>2, <2>3 DEF Asked, Answered, GatherPcs
  <2>5. /\ Run[c] = loc[c].apCount
        /\ \A d \in Cpus : pc[d] \in EarlyPcs \cup ParkedPcs => pc[d] \in Answered /\ d \notin Busy
    BY <2>1, AllAnswered
  <2>6. r \in [Cpus -> Int] /\ r[c] = 0 /\ \A d \in Cpus \ {c} : r[d] = Run[d]
    BY <2>5 DEF WaitForAllAPs, TypeOK, Locals
  <2>7. \A d \in Cpus : pc[d] \in EarlyPcs \cup ParkedPcs =>
            pc[d] \in Asked' /\ pc[d] \notin Asked /\ pc[d] \notin Answered' /\ d \notin Busy
    BY <2>4, <2>5
  <2> HIDE DEF r
  <2> QED BY <2>1, <2>3, <2>6, <2>7, ReleaseMove
<1>8. CASE (BspGather(c) /\ ~MtrrsConfigured) \/ BspReplaced(c)
  <2>1. PICK from \in {"bGather", "bReplaced"} :
          /\ Goto(c, from, "handler") /\ AllAPsSignalled(c)
          /\ from = "bGather" => ~MtrrsConfigured
          /\ Run' = WaitForAllAPs(c) /\ Busy' = Busy \cup {c}
          /\ UNCHANGED <<BspIndex, Present, InsideSmm, Counter, EffectiveSyncMode, loc>>
    BY <1>8 DEF BspGather, BspReplaced, AllReplaced
  <2>0. from \in BspPcs /\ "handler" \in BspPcs
    BY DEF BspPcs
  <2>2. At = from
    BY <2>0, <2>1, LeaderMove
  <2>3. Answered = {"aLoop"}
    BY <2>1, <2>2 DEF Answered, GatherPcs
  <2> QED BY <2>1, <2>3, ToHandlers
<1> QED BY <1>1, <1>2, <1>3, <1>4, <1>5, <1>6, <1>7, <1>8

\* BSPHandler after the handlers.
LEMMA AfterRun ==
    ASSUME TypeOK, SingleBsp, RunInv, NEW c \in Cpus,
           \/ BspDrain(c) \/ BspPresent(c) \/ BspLeave(c) \/ BspNotify(c) \/ BspFinished(c)
           \/ BspRestore(c) \/ BspRestored(c) \/ BspCollect(c)
    PROVE  RunInv'
<1> USE DEF slowVars, hwVars, electVars, modeVars, flagVars, cpuData, mtrrVars
<1>0. Asked \cup Answered \cup Serving \subseteq ParkedPcs
  BY DEF Asked, Answered, Serving, ParkedPcs
<1>1. CASE BspDrain(c) \/ BspPresent(c) \/ BspLeave(c)
  <2>1. PICK from \in {"bDrain", "bPresent", "bLeave"}, to \in {"bLeave", "bSyncLate", "bNotify"} :
          /\ Goto(c, from, to)
          /\ from = "bDrain" => Drained(c) /\ to = IF GatherFirst(c) THEN "bLeave" ELSE "bSyncLate"
          /\ from = "bPresent" => AllPresent(c) /\ to = "bLeave"
          /\ from = "bLeave" <=> to = "bNotify"
          /\ InsideSmm' = IF from = "bLeave" THEN FALSE ELSE InsideSmm
          /\ UNCHANGED <<BspIndex, Run, Present, Busy, Counter, EffectiveSyncMode, loc>>
    BY <1>1 DEF BspDrain, BspPresent, BspLeave
  <2>2. from \in BspPcs /\ to \in BspPcs
    BY DEF BspPcs
  <2>3. /\ c = BspIndex /\ Leading /\ Leading' /\ At = from /\ At' = to
        /\ \A d \in Cpus : pc'[d] = IF d = c THEN to ELSE pc[d]
        /\ pc[c] = from
        /\ Joined' = Joined /\ ~Closing /\ ~Closing' /\ c \in Joined
        /\ Gathers' = Gathers
        /\ Elected' /\ ClosingFits' /\ KnowsBsp'
        /\ \A d \in Cpus : pc'[d] \in EarlyPcs \cup ParkedPcs <=> pc[d] \in EarlyPcs \cup ParkedPcs
        /\ \A d \in Cpus : pc'[d] \notin BspPcs <=> pc[d] \notin BspPcs
        /\ \A d \in Cpus : pc'[d] \in EarlyPcs \cup ParkedPcs => d # c
    BY <2>1, <2>2, LeaderMove
  <2>4. Gathers = GatherFirst(c)
    BY <2>3 DEF Gathers
  <2>5. /\ Asked = {} /\ Asked' = {} /\ Answered = {} /\ Answered' = {}
        /\ Serving = IF from = "bDrain" THEN {"aLoop", "aProc"} ELSE {"aLoop"}
        /\ Serving' = {"aLoop"}
        /\ Arriving = IF from = "bPresent" \/ (from = "bDrain" /\ ~Gathers) THEN EarlyPcs \ {"aGiveUp"} ELSE {}
        /\ Arriving' = IF to = "bSyncLate" THEN EarlyPcs \ {"aGiveUp"} ELSE {}
        /\ Open' = Open
    BY <2>1, <2>3, <2>4 DEF Asked, Answered, Serving, Arriving, Open, GatherPcs, LatePcs, OwnerPcs, HandlerPcs
  <2>6. \A d \in Cpus : pc[d] \in EarlyPcs \cup ParkedPcs => d \notin Busy
    <3>1. CASE from = "bDrain"
      <4>1. \A d \in Cpus : pc[d] \in ParkedPcs => d \in Present /\ d # c
        BY <2>3 DEF RunInv, PresentFits
      <4>2. \A d \in Cpus : pc[d] \in EarlyPcs => d \notin Busy
        BY DEF RunInv, BusyFits, EarlyPcs
      <4> QED BY <3>1, <4>1, <4>2, <2>1 DEF Drained
    <3>2. CASE from # "bDrain"
      BY <3>2, <2>1, <2>3 DEF RunInv, BusyFits, OwnerPcs, HandlerPcs
    <3> QED BY <3>1, <3>2
  <2>7. from = "bPresent" => \A d \in Cpus : pc[d] \notin EarlyPcs
    <3> SUFFICES ASSUME from = "bPresent" PROVE \A d \in Cpus : pc[d] \notin EarlyPcs
      OBVIOUS
    <3>1. Present \subseteq Joined
      BY <2>3 DEF RunInv, PresentFits, Joined, ParkedPcs, ApPcs, TypeOK
    <3>2. ~Open
      BY <2>3 DEF Open, GatherPcs, OwnerPcs, HandlerPcs
    <3>3. loc[c].apCount \in Int /\ Cardinality(Joined) = loc[c].apCount + 1
      BY <2>3, <3>2 DEF RunInv, CountFits, TypeOK, Locals
    <3>4. Cardinality(Present) \in Nat /\ Cardinality(Present) <= Cardinality(Joined)
          /\ (Cardinality(Present) = Cardinality(Joined) => Present = Joined)
      BY <3>1, JoinedCount, FS_Subset, FS_CardinalityType
    <3>5. loc[c].apCount <= Cardinality(Present) - 1
      BY <2>1, <3>3, <3>4 DEF AllPresent
    <3>6. Present = Joined
      BY <3>3, <3>4, <3>5
    <3> QED BY <3>6, <2>3 DEF RunInv, PresentFits, Joined, EarlyPcs, ParkedPcs, EntryPcs, ApPcs, BspPcs
  <2>8. PathFits' /\ InsideFits'
    <3> USE DEF GatherPcs, LatePcs, OwnerPcs, HandlerPcs
    <3>1. PathFits'
      BY <2>1, <2>3, <2>4 DEF PathFits
    <3>2. CASE from = "bLeave"
      <4>1. to \notin InsidePcs /\ InsideSmm' = FALSE
        BY <3>2, <2>1 DEF InsidePcs
      <4>2. (At' \in InsidePcs) = FALSE
        BY <4>1, <2>3
      <4> QED BY <4>1, <4>2, <3>1 DEF InsideFits
    <3>3. CASE from # "bLeave"
      <4>1. from \in InsidePcs /\ to \in InsidePcs /\ InsideSmm' = InsideSmm
        BY <3>3, <2>1 DEF InsidePcs
      <4> QED BY <4>1, <3>1, <2>3 DEF RunInv, InsideFits
    <3> QED BY <3>2, <3>3
  <2>9. Follows'
    <3>1. "aLoop" \notin EarlyPcs /\ "aProc" \notin EarlyPcs
      BY DEF EarlyPcs
    <3>2. \A d \in Cpus : pc[d] \in EarlyPcs \cup ParkedPcs => pc[d] # "aProc"
      BY <2>6 DEF RunInv, BusyFits
    <3> QED BY <2>1, <2>3, <2>4, <2>5, <2>7, <3>1, <3>2 DEF RunInv, Follows
  <2>10. PresentFits'
    BY <2>1, <2>2, <2>3 DEF RunInv, PresentFits, ParkedPcs, BspPcs
  <2>11. BusyFits'
    BY <2>1, <2>3, <2>6 DEF RunInv, BusyFits
  <2>12. SignalsFit'
    BY <2>1, <2>2, <2>3, <2>5, <2>6 DEF RunInv, SignalsFit, Signalled, ParkedPcs
  <2>13. AnswersFit'
    BY <2>1, <2>3, <2>5 DEF RunInv, AnswersFit
  <2>14. ModesFit'
    BY <2>1, <2>2, <2>3 DEF RunInv, ModesFit
  <2>15. CounterFits' /\ CountFits'
    BY <2>1, <2>3, <2>5 DEF RunInv, CounterFits, CountFits
  <2> QED BY <2>3, <2>8, <2>9, <2>10, <2>11, <2>12, <2>13, <2>14, <2>15 DEF RunInv
<1>2. CASE BspNotify(c)
  <2>1. /\ Goto(c, "bNotify", "bFinished") /\ Run' = ReleaseAllAPs(Run)
        /\ UNCHANGED <<BspIndex, Present, Busy, InsideSmm, Counter, EffectiveSyncMode, loc>>
    BY <1>2 DEF BspNotify
  <2>2. "bNotify" \in BspPcs /\ "bFinished" \in BspPcs
    BY DEF BspPcs
  <2>3. At = "bNotify" /\ At' = "bFinished" /\ Leading /\ c = BspIndex
    BY <2>1, <2>2, LeaderMove
  <2>4. /\ Asked = {} /\ Answered = {} /\ Serving = {"aLoop"} /\ Arriving = {}
        /\ Asked' = {"aLoop"} /\ "aLoop" \notin Answered'
    BY <2>3 DEF Asked, Answered, Serving, Arriving, GatherPcs, LatePcs, OwnerPcs, HandlerPcs
  <2>5. Run[c] = 0 /\ Run \in [Cpus -> Int]
    BY <2>3, <2>4, FS_EmptySet DEF RunInv, AnswersFit, TypeOK
  <2>6. \A d \in Cpus : pc[d] \in EarlyPcs \cup ParkedPcs =>
            pc[d] \in Asked' /\ pc[d] \notin Asked /\ pc[d] \notin Answered' /\ d \notin Busy
    BY <2>3, <2>4 DEF RunInv, Follows, BusyFits, OwnerPcs, HandlerPcs
  <2> QED BY <2>1, <2>5, <2>6, ReleaseMove
<1>3. CASE BspFinished(c) \/ BspRestored(c)
  <2> DEFINE r == WaitForAllAPs(c)
  <2>1. PICK from \in {"bFinished", "bRestored"}, to \in {"bRestore", "bCollect"} :
          /\ Goto(c, from, to) /\ pc[c] = from /\ AllAPsSignalled(c)
          /\ from = "bFinished" => (MtrrsConfigured <=> to = "bRestore")
          /\ from = "bRestored" => to = "bCollect" /\ EffectiveSyncMode' = EffectiveSyncMode
          /\ Run' = ReleaseAllAPs(r)
          /\ Present' = IF to = "bCollect" THEN Present \ {c} ELSE Present
          /\ UNCHANGED <<BspIndex, Busy, InsideSmm, Counter, loc>>
    BY <1>3 DEF BspFinished, BspRestored, SignalReset, Goto
  <2>0. from \in BspPcs /\ to \in BspPcs
    BY DEF BspPcs
  <2>2. At = from /\ At' = to
    BY <2>0, <2>1, LeaderMove
  <2>3. from = "bRestored" => MtrrsConfigured
    BY <2>2 DEF RunInv, PathFits
  <2>4. Answered = Asked' /\ Answered \cap Asked = {} /\ Answered \cap Answered' = {}
    BY <2>1, <2>2, <2>3 DEF Asked, Answered, GatherPcs
  <2>5. /\ Run[c] = loc[c].apCount
        /\ \A d \in Cpus : pc[d] \in EarlyPcs \cup ParkedPcs => pc[d] \in Answered /\ d \notin Busy
    BY <2>1, AllAnswered
  <2>6. r \in [Cpus -> Int] /\ r[c] = 0 /\ \A d \in Cpus \ {c} : r[d] = Run[d]
    BY <2>5 DEF WaitForAllAPs, TypeOK, Locals
  <2>7. \A d \in Cpus : pc[d] \in EarlyPcs \cup ParkedPcs =>
            pc[d] \in Asked' /\ pc[d] \notin Asked /\ pc[d] \notin Answered' /\ d \notin Busy
    BY <2>4, <2>5
  <2> HIDE DEF r
  <2> QED BY <2>1, <2>6, <2>7, ReleaseMove
<1>4. CASE BspRestore(c)
  <2>1. /\ Goto(c, "bRestore", "bRestored")
        /\ UNCHANGED <<BspIndex, Run, Present, Busy, InsideSmm, Counter, EffectiveSyncMode, loc>>
    BY <1>4 DEF BspRestore
  <2> QED BY <2>1, QuietMove DEF Stages
<1>5. CASE BspCollect(c)
  <2>1. /\ Goto(c, "bCollect", "bUnelect") /\ AllAPsSignalled(c)
        /\ Run' = WaitForAllAPs(c)
        /\ UNCHANGED <<BspIndex, Present, Busy, InsideSmm, Counter, EffectiveSyncMode, loc>>
    BY <1>5 DEF BspCollect, AllReset
  <2>2. "bCollect" \in BspPcs /\ "bUnelect" \in BspPcs
    BY DEF BspPcs
  <2>3. /\ c = BspIndex /\ Leading /\ Leading' /\ At = "bCollect" /\ At' = "bUnelect"
        /\ \A d \in Cpus : pc'[d] = IF d = c THEN "bUnelect" ELSE pc[d]
        /\ pc[c] = "bCollect"
        /\ Joined' = Joined /\ ~Closing /\ ~Closing' /\ c \in Joined
        /\ Gathers' = Gathers
        /\ Elected' /\ ClosingFits' /\ KnowsBsp'
        /\ \A d \in Cpus : pc'[d] \in EarlyPcs \cup ParkedPcs <=> pc[d] \in EarlyPcs \cup ParkedPcs
        /\ \A d \in Cpus : pc'[d] \notin BspPcs <=> pc[d] \notin BspPcs
        /\ \A d \in Cpus : pc'[d] \in EarlyPcs \cup ParkedPcs => d # c
    BY <2>1, <2>2, LeaderMove
  <2>4. /\ Cardinality(Joined) \in Nat
        /\ Cardinality(Joined) # 0
    BY <2>3, JoinedCount, FS_EmptySet
  <2>5. loc[c].apCount \in Int /\ Run[c] \in Nat /\ loc[c].apCount <= Run[c]
        /\ Cardinality(Joined) = loc[c].apCount + 1 - Run[c]
    BY <2>1, <2>3 DEF RunInv, CountFits, TypeOK, Locals, AllAPsSignalled
  <2>6. Cardinality(Joined) = 1 /\ Run[c] = loc[c].apCount
    BY <2>4, <2>5
  <2>7. Joined = {c}
    BY <2>3, <2>6, JoinedCount, FS_Singleton
  <2>8. \A d \in Cpus : pc[d] \notin EarlyPcs \cup ParkedPcs
    BY <2>3, <2>7 DEF Joined, EarlyPcs, ParkedPcs, EntryPcs, ApPcs, BspPcs
  <2>9. /\ Asked = {"aReset"} /\ Asked' = {} /\ Answered' = {} /\ ~Open /\ ~Open'
    BY <2>3 DEF Asked, Answered, Open, GatherPcs, OwnerPcs, HandlerPcs
  <2>10. Run'[c] = 0 /\ \A d \in Cpus \ {c} : Run'[d] = Run[d]
    BY <2>1, <2>5, <2>6 DEF WaitForAllAPs, TypeOK
  <2>11. PathFits' /\ InsideFits'
    BY <2>1, <2>3 DEF RunInv, PathFits, InsideFits, InsidePcs, GatherPcs, LatePcs, OwnerPcs, HandlerPcs
  <2>12. Follows' /\ BusyFits'
    BY <2>3, <2>8 DEF Follows, BusyFits
  <2>13. PresentFits'
    BY <2>1, <2>3, <2>8 DEF RunInv, PresentFits, ParkedPcs
  <2>14. SignalsFit'
    BY <2>3, <2>8, <2>9, <2>10 DEF RunInv, SignalsFit, Signalled, ParkedPcs
  <2>15. AnswersFit'
    BY <2>1, <2>3, <2>9, <2>10, FS_EmptySet DEF AnswersFit
  <2>16. ModesFit'
    BY <2>1, <2>2, <2>3 DEF RunInv, ModesFit
  <2>17. CounterFits' /\ CountFits'
    BY <2>1, <2>3, <2>6, <2>9 DEF RunInv, CounterFits, CountFits
  <2> QED BY <2>3, <2>11, <2>12, <2>13, <2>14, <2>15, <2>16, <2>17 DEF RunInv
<1> QED BY <1>1, <1>2, <1>3, <1>4, <1>5

\* The end of BSPHandler: the BSP alone is left, gives BspIndex back, reopens Counter and
\* lets the others go.
LEMMA ClosingRun ==
    ASSUME TypeOK, SingleBsp, RunInv, NEW c \in Cpus,
           BspUnelect(c) \/ BspReopen(c) \/ BspUnsync(c)
    PROVE  RunInv'
<1> USE DEF slowVars, hwVars, electVars, modeVars, flagVars, cpuData, mtrrVars
<1>1. CASE BspUnelect(c)
  <2>1. /\ Goto(c, "bUnelect", "bReopen") /\ BspIndex' = NoCpu
        /\ UNCHANGED <<Run, Present, Busy, InsideSmm, Counter, EffectiveSyncMode, loc>>
    BY <1>1 DEF BspUnelect
  <2>2. /\ \A d \in Cpus : pc'[d] = IF d = c THEN "bReopen" ELSE pc[d]
        /\ pc[c] = "bUnelect" /\ c = BspIndex
    BY <2>1 DEF Goto, TypeOK, SingleBsp, BspPcs
  <2>3. Leading /\ At = "bUnelect" /\ ~Leading' /\ At' = "none"
    BY <2>1, <2>2, CpusAssumption DEF Leading, At, BspPcs
  <2>4. Joined = {c}
    <3>1. Cardinality(Joined) = 1
      BY <2>3 DEF RunInv, CountFits
    <3>2. c \in Joined
      BY <2>2 DEF Joined, BspPcs
    <3> QED BY <3>1, <3>2, JoinedCount, FS_Singleton
  <2>5. \A d \in Cpus : pc'[d] \notin JoinedPcs
    BY <2>2, <2>4 DEF Joined, JoinedPcs, EntryPcs, BspPcs, ApPcs
  <2>6. EarlyPcs \cup ParkedPcs \cup ApPcs \cup BspPcs \subseteq JoinedPcs
    BY DEF EarlyPcs, ParkedPcs, EntryPcs, BspPcs, ApPcs, JoinedPcs
  <2>7. Joined' = {}
    BY <2>5 DEF Joined, JoinedPcs
  <2>8. ~Closing /\ Closing'
    BY <2>2, CpusAssumption DEF Closing, RunInv, ClosingFits
  <2>9. Asked = {} /\ Asked' = {} /\ Answered = {} /\ ~Open /\ Open'
    BY <2>3 DEF Asked, Answered, Open, GatherPcs, OwnerPcs, HandlerPcs
  <2>10. Run[c] = 0
    BY <2>2, <2>3, <2>9, FS_EmptySet DEF RunInv, AnswersFit
  <2>11. Elected' /\ AnswersFit'
    BY <2>1, <2>3, CpusAssumption DEF Elected, AnswersFit
  <2>12. PathFits' /\ InsideFits'
    BY <2>1, <2>3 DEF RunInv, PathFits, InsideFits, InsidePcs, GatherPcs, LatePcs, OwnerPcs, HandlerPcs
  <2>13. Follows' /\ BusyFits' /\ KnowsBsp' /\ ModesFit'
    BY <2>5, <2>6 DEF Follows, BusyFits, KnowsBsp, ModesFit
  <2>14. PresentFits'
    <3>1. \A d \in Cpus : pc[d] \notin ParkedPcs /\ pc'[d] \notin ParkedPcs
      BY <2>2, <2>5, <2>6 DEF ParkedPcs
    <3>2. \A d \in Cpus : d \notin Present
      BY <2>3, <3>1 DEF RunInv, PresentFits
    <3> QED BY <2>1, <2>3, <3>1, <3>2 DEF PresentFits
  <2>15. SignalsFit'
    <3>1. \A d \in Cpus \ {c} : pc[d] \notin JoinedPcs /\ pc[d] \notin BspPcs
      BY <2>2, <2>5, <2>6
    <3>2. \A d \in Cpus : ~Signalled(d)'
      BY <2>5, <2>6, <2>9 DEF Signalled, ParkedPcs
    <3>3. \A d \in Cpus \ {c} : ~Signalled(d)
      BY <2>6, <2>9, <3>1 DEF Signalled, ParkedPcs
    <3> QED BY <2>1, <2>10, <3>1, <3>2, <3>3 DEF RunInv, SignalsFit
  <2>16. ClosingFits'
    BY <2>1, <2>2, <2>7, <2>8, <2>9 DEF RunInv, ClosingFits, CounterFits, Closing
  <2>17. CounterFits' /\ CountFits'
    BY <2>3, <2>8, <2>9 DEF CounterFits, CountFits
  <2> QED BY <2>11, <2>12, <2>13, <2>14, <2>15, <2>16, <2>17 DEF RunInv
<1>2. CASE BspReopen(c)
  <2>1. /\ Goto(c, "bReopen", "bUnsync") /\ Counter' = 0
        /\ UNCHANGED <<BspIndex, Run, Present, Busy, InsideSmm, EffectiveSyncMode, loc>>
    BY <1>2 DEF BspReopen
  <2>2. "bReopen" \notin BspPcs \cup ParkedPcs /\ "bUnsync" \notin BspPcs \cup ParkedPcs \cup EarlyPcs \cup ApPcs
    BY DEF BspPcs, ParkedPcs, EarlyPcs, ApPcs
  <2>3. /\ \A d \in Cpus : pc'[d] = IF d = c THEN "bUnsync" ELSE pc[d]
        /\ pc[c] = "bReopen"
    BY <2>1 DEF Goto, TypeOK
  <2>4. /\ BspIndex = NoCpu /\ BspIndex # c /\ Joined = {}
        /\ \A d \in Cpus \ {c} : pc[d] # "bReopen"
    BY <2>3, CpusAssumption DEF RunInv, ClosingFits
  <2>5. Joined' = {}
    BY <2>3, <2>4 DEF Joined, EntryPcs, BspPcs, ApPcs
  <2>6. At = "none" /\ At' = "none"
    BY <2>1, <2>4, CpusAssumption DEF At, Leading
  <2>7. Open' /\ ~Closing'
    BY <2>3, <2>4, <2>6 DEF Open, Closing
  <2>8. ClosingFits' /\ CounterFits' /\ CountFits'
    BY <2>1, <2>5, <2>6, <2>7, FS_EmptySet DEF ClosingFits, CounterFits, CountFits, Closing
  <2> QED BY <2>1, <2>2, <2>4, <2>8, EarlyMove DEF RunInv
<1>3. CASE BspUnsync(c)
  <2>1. /\ Goto(c, "bUnsync", "spin")
        /\ UNCHANGED <<BspIndex, Run, Present, Busy, InsideSmm, Counter, EffectiveSyncMode>>
        /\ \A d \in Cpus \ {c} : loc'[d] = loc[d]
    BY <1>3 DEF BspUnsync, TypeOK
  <2>2. /\ "bUnsync" \notin BspPcs \cup ParkedPcs \cup JoinedPcs
        /\ "spin" \notin BspPcs \cup ParkedPcs \cup EarlyPcs \cup ApPcs \cup JoinedPcs
    BY DEF BspPcs, ParkedPcs, EarlyPcs, ApPcs, JoinedPcs, EntryPcs
  <2>3. BspIndex # c
    BY <2>1 DEF RunInv, Elected, Goto, BspPcs
  <2>4. /\ At' = At /\ Leading' = Leading
        /\ Leading => loc'[BspIndex] = loc[BspIndex]
    BY <2>1, <2>2, <2>3, Bystander DEF RunInv, Leading
  <2>5. ClosingFits' /\ CounterFits' /\ CountFits'
    BY <2>1, <2>2, <2>4, SameCount
  <2> QED BY <2>1, <2>2, <2>3, <2>5, EarlyMove DEF RunInv
<1> QED BY <1>1, <1>2, <1>3

\* The services the SMI handlers call.
LEMMA HandlersRun ==
    ASSUME TypeOK, SingleBsp, RunInv, NEW c \in Cpus, SmmHandlers(c)
    PROVE  RunInv'
<1> USE DEF slowVars, hwVars, electVars, modeVars, flagVars, cpuData, mtrrVars
<1>1. ASSUME NEW a \in Cpus, SmmStartupThisAp(c, a) PROVE RunInv'
  <2>1. PICK to \in {"handler", "blocking"} :
          /\ Goto(c, "handler", to) /\ ApIsFree(c, a)
          /\ Busy' = Busy \cup {a}
          /\ Run' = [Run EXCEPT ![a] = ReleaseSemaphore(Run[a])]
          /\ UNCHANGED <<BspIndex, Present, InsideSmm, Counter, EffectiveSyncMode>>
          /\ \A d \in Cpus \ {c} : loc'[d] = loc[d]
          /\ loc'[c].mode = loc[c].mode /\ loc'[c].apCount = loc[c].apCount
    BY <1>1 DEF SmmStartupThisAp, TypeOK, Locals
  <2>2. "handler" \in BspPcs /\ to \in BspPcs
    BY DEF BspPcs
  <2>3. /\ c = BspIndex /\ Leading /\ Leading' /\ At = "handler" /\ At' = to
        /\ \A d \in Cpus : pc'[d] = IF d = c THEN to ELSE pc[d]
        /\ pc[c] = "handler"
        /\ Joined' = Joined /\ ~Closing /\ ~Closing' /\ c \in Joined
        /\ Gathers' = Gathers
        /\ Elected' /\ ClosingFits' /\ KnowsBsp'
        /\ \A d \in Cpus : pc'[d] \in EarlyPcs \cup ParkedPcs <=> pc[d] \in EarlyPcs \cup ParkedPcs
        /\ \A d \in Cpus : pc'[d] \notin BspPcs <=> pc[d] \notin BspPcs
        /\ \A d \in Cpus : pc'[d] \in EarlyPcs \cup ParkedPcs => d # c
    BY <2>1, <2>2, LeaderMove
  <2>4. /\ Asked = {} /\ Asked' = {} /\ Answered = {} /\ Answered' = {}
        /\ Serving = {"aLoop", "aProc"} /\ Serving' = Serving
        /\ Arriving' = Arriving /\ Arriving \subseteq EarlyPcs /\ Open' = Open
    BY <2>3 DEF Asked, Answered, Serving, Arriving, Open, GatherPcs, LatePcs, OwnerPcs, HandlerPcs
  <2>5. a # c /\ a \in Present /\ a \notin Busy
    BY <2>1 DEF ApIsFree
  <2>6. pc[a] = "aLoop"
    <3>1. pc[a] \in ParkedPcs
      BY <2>3, <2>5 DEF RunInv, PresentFits
    <3> QED BY <3>1, <2>4, <2>5 DEF RunInv, Follows, BusyFits, EarlyPcs, ParkedPcs
  <2>7. Run'[a] = 1 /\ \A d \in Cpus \ {a} : Run'[d] = Run[d]
    <3>1. Run[a] = 0
      BY <2>4, <2>5, <2>6 DEF RunInv, SignalsFit, Signalled, BspPcs
    <3> QED BY <3>1, <2>1 DEF ReleaseSemaphore, TypeOK
  <2>8. PathFits' /\ InsideFits'
    BY <2>1, <2>3 DEF RunInv, PathFits, InsideFits, InsidePcs, GatherPcs, LatePcs, OwnerPcs, HandlerPcs
  <2>9. Follows'
    BY <2>3, <2>4 DEF RunInv, Follows
  <2>10. PresentFits'
    BY <2>1, <2>2, <2>3 DEF RunInv, PresentFits, ParkedPcs, BspPcs
  <2>11. BusyFits'
    BY <2>1, <2>3, <2>5, <2>6 DEF RunInv, BusyFits, OwnerPcs, HandlerPcs
  <2>12. SignalsFit'
    BY <2>1, <2>2, <2>3, <2>4, <2>5, <2>6, <2>7 DEF RunInv, SignalsFit, Signalled
  <2>13. AnswersFit'
    BY <2>1, <2>3, <2>4, <2>5, <2>7 DEF RunInv, AnswersFit
  <2>14. ModesFit'
    BY <2>1, <2>2, <2>3 DEF RunInv, ModesFit
  <2>15. CounterFits' /\ CountFits'
    BY <2>1, <2>3, <2>4 DEF RunInv, CounterFits, CountFits
  <2> QED BY <2>3, <2>8, <2>9, <2>10, <2>11, <2>12, <2>13, <2>14, <2>15 DEF RunInv
<1>2. CASE BlockingDone(c) \/ SmmCpuSyncCheckApArrival(c) \/ HandlerReturns(c)
  <2>1. PICK from \in OwnerPcs, to \in OwnerPcs :
          /\ Goto(c, from, to)
          /\ UNCHANGED <<BspIndex, Run, Present, Busy, InsideSmm, Counter, EffectiveSyncMode>>
          /\ \A d \in Cpus \ {c} : loc'[d] = loc[d]
          /\ loc'[c].mode = loc[c].mode /\ loc'[c].apCount = loc[c].apCount
    BY <1>2 DEF BlockingDone, SmmCpuSyncCheckApArrival, CheckResult, FirstWait, BringIn, SecondWait,
       HandlerReturns, OwnerPcs, HandlerPcs, TypeOK, Locals
  <2>2. OwnerPcs \in Stages
    BY DEF Stages
  <2> QED BY <2>1, <2>2, QuietMove
<1>3. ASSUME NEW m, SmmSyncSetMode(c, m) PROVE RunInv'
  BY <1>3, NoMove DEF SmmSyncSetMode, ModeInEffect
<1>4. ASSUME NEW p, SmmSwitchBsp(c, p) PROVE RunInv'
  BY <1>4, NoMove DEF SmmSwitchBsp
<1>5. ASSUME NEW t, SmmCpuSync2SendSmi(c, t) PROVE RunInv'
  BY <1>5, NoMove DEF SmmCpuSync2SendSmi
<1> QED BY <1>1, <1>2, <1>3, <1>4, <1>5 DEF SmmHandlers

\* After InitializeMpSyncData() no run is under way.
LEMMA RunInit == Init => RunInv
<1> SUFFICES ASSUME Init PROVE RunInv
  OBVIOUS
<1>1. /\ \A c \in Cpus : pc[c] = "normal" /\ Run[c] = 0
      /\ BspIndex = NoCpu /\ Present = {} /\ InsideSmm = FALSE /\ Counter = 0
  BY DEF Init, InitializeMpSyncData
<1>2. At = "none" /\ ~Leading
  BY <1>1, CpusAssumption DEF At, Leading
<1>3. Open /\ ~Closing /\ Joined = {} /\ Asked = {}
  BY <1>1, <1>2 DEF Open, Closing, Joined, EntryPcs, BspPcs, ApPcs, Asked
<1>4. Elected /\ AnswersFit /\ PathFits
  BY <1>1, <1>2, CpusAssumption DEF Elected, AnswersFit, PathFits, GatherPcs, LatePcs
<1>5. InsideFits
  <2>1. (At \in InsidePcs) = FALSE
    BY <1>2 DEF InsidePcs, GatherPcs, LatePcs, OwnerPcs, HandlerPcs
  <2> QED BY <1>1, <2>1 DEF InsideFits
<1>6. Follows /\ BusyFits /\ KnowsBsp /\ ModesFit
  BY <1>1 DEF Follows, BusyFits, KnowsBsp, ModesFit, EarlyPcs, ParkedPcs, ApPcs, BspPcs
<1>7. PresentFits /\ SignalsFit
  BY <1>1, <1>2, <1>3 DEF PresentFits, SignalsFit, Signalled, ParkedPcs
<1>8. ClosingFits /\ CounterFits /\ CountFits
  BY <1>1, <1>2, <1>3, FS_EmptySet DEF ClosingFits, CounterFits, CountFits
<1> QED BY <1>4, <1>5, <1>6, <1>7, <1>8 DEF RunInv

\* Every step of every CPU keeps the invariant.
LEMMA RunStep == CleanGiveUp /\ TypeOK /\ SingleBsp /\ RunInv /\ [Next]_vars => RunInv'
<1> SUFFICES ASSUME CleanGiveUp, TypeOK, SingleBsp, RunInv, [Next]_vars PROVE RunInv'
  OBVIOUS
<1> USE DEF slowVars, hwVars, electVars, modeVars, flagVars, cpuData, mtrrVars
<1>1. CASE RaiseSmi
  BY <1>1, NoMove DEF RaiseSmi
<1>2. CASE UNCHANGED vars
  BY <1>2, NoMove DEF vars
<1>3. ASSUME NEW c \in Cpus, BSPHandler(c) PROVE RunInv'
  BY <1>3, BeforeRun, AfterRun, ClosingRun DEF BSPHandler
<1>4. ASSUME NEW c \in Cpus, APHandler(c) PROVE RunInv'
  BY <1>4, ArrivalRun, ParkedRun DEF APHandler
<1> QED BY <1>1, <1>2, <1>3, <1>4, RendezvousRun, HandlersRun DEF Next

-----------------------------------------------------------------------------
\* The state of the run is consistent at all times: the BSP's place in BSPHandler decides
\* where each AP may be in APHandler, which signals are under way on the Run semaphores
\* and what Counter, Present, Busy and InsideSmm hold.
THEOREM RunCorrect ==
    ASSUME CleanGiveUp
    PROVE  Spec => []RunInv
BY RunInit, RunStep, TypeCorrect, OnlyOneBsp, PTL DEF Spec

\* From LockdownSemaphore() until the BSP reopens the run, Counter stays (UINT32)-1:
\* neither a late check-in nor an AP that gives up changes it.
THEOREM ClosedRunStaysClosed ==
    ASSUME CleanGiveUp
    PROVE  Spec => []LockHolds
<1>1. ASSUME SingleBsp, RunInv PROVE LockHolds
  <2> SUFFICES ASSUME NEW c \in Cpus, pc[c] \in LockedPcs PROVE Counter = Locked
    BY DEF LockHolds
  <2>1. CASE pc[c] = "bReopen"
    BY <1>1, <2>1 DEF RunInv, ClosingFits
  <2>2. CASE pc[c] # "bReopen"
    <3>1. pc[c] \in BspPcs
      BY <2>2 DEF LockedPcs, BspPcs
    <3>2. BspIndex = c /\ At = pc[c]
      BY <1>1, <3>1 DEF SingleBsp, At, Leading
    <3>3. ~Open
      BY <2>2, <3>2 DEF Open, LockedPcs, GatherPcs, OwnerPcs, HandlerPcs
    <3>4. ~Closing
      BY <1>1, <3>2, CpusAssumption DEF RunInv, Closing, ClosingFits
    <3> QED BY <1>1, <3>3, <3>4 DEF RunInv, CounterFits
  <2> QED BY <2>1, <2>2
<1> QED BY <1>1, RunCorrect, OnlyOneBsp, PTL

\* The ApCount that BSPHandler reads from Counter is the number of APs in the run, so
\* no WaitForAllAPs(ApCount) waits for a CPU that has left.
THEOREM WaitsForWhoIsThere ==
    ASSUME CleanGiveUp
    PROVE  Spec => []ApCountIsExact
<1>1. ASSUME SingleBsp, RunInv PROVE ApCountIsExact
  <2> SUFFICES ASSUME NEW b \in Cpus,
                      pc[b] \in {"bGather", "bSave", "bSaved", "bReplace", "bReplaced",
                                 "bPresent", "bNotify"}
               PROVE  Cardinality(Joined) = loc[b].apCount + 1
    BY DEF ApCountIsExact
  <2>1. BspIndex = b /\ At = pc[b]
    BY <1>1 DEF SingleBsp, At, Leading, BspPcs
  <2>2. ~Open
    BY <2>1 DEF Open, GatherPcs, OwnerPcs, HandlerPcs
  <2> QED BY <1>1, <2>1, <2>2 DEF RunInv, CountFits
<1> QED BY <1>1, RunCorrect, OnlyOneBsp, PTL

\* An AP about to mark itself Present in APHandler finds a BSP other than itself: the
\* ASSERT (BspIndex != CpuIndex) holds, and CpuData[BspIndex] is the BSP's.
THEOREM JoiningApFindsItsBsp ==
    ASSUME CleanGiveUp
    PROVE  Spec => []ApFindsBsp
<1>1. ASSUME TypeOK, RunInv PROVE ApFindsBsp
  <2> SUFFICES ASSUME NEW c \in Cpus, pc[c] = "aEnter" PROVE BspIndex \in Cpus \ {c}
    BY DEF ApFindsBsp
  <2>1. "aEnter" \in Arriving
    BY <1>1, EarlyStays DEF EarlyPcs
  <2>2. At # "none"
    BY <2>1 DEF Arriving, GatherPcs, LatePcs, OwnerPcs, HandlerPcs
  <2> QED BY <2>2 DEF At, Leading, BspPcs
<1> QED BY <1>1, RunCorrect, TypeCorrect, PTL

\* The ASSERT (Run == 0) at the end of SmiRendezvous(): every signal of a run is taken
\* in it.
THEOREM NoSignalIsLeft ==
    ASSUME CleanGiveUp
    PROVE  Spec => []RunIsZeroOutside
<1>1. ASSUME RunInv PROVE RunIsZeroOutside
  <2> SUFFICES ASSUME NEW c \in Cpus, pc[c] \in {"normal", "checkin", "spin"} PROVE Run[c] = 0
    BY DEF RunIsZeroOutside
  <2>1. pc[c] \notin BspPcs /\ ~Signalled(c)
    BY DEF BspPcs, Signalled, Asked
  <2> QED BY <1>1, <2>1 DEF RunInv, SignalsFit
<1> QED BY <1>1, RunCorrect, PTL

\* All CPUs of a run follow the same sync mode, though each reads EffectiveSyncMode at
\* a time of its own and a handler may ask for another.
THEOREM OneModePerRun ==
    ASSUME CleanGiveUp
    PROVE  Spec => []ModeAgreement
<1>1. ASSUME TypeOK, SingleBsp, RunInv PROVE ModeAgreement
  <2> SUFFICES ASSUME NEW b \in Cpus, NEW c \in Cpus, pc[b] \in BspPcs, c \in Present
               PROVE  loc[c].mode = loc[b].mode
    BY DEF ModeAgreement
  <2>1. BspIndex = b
    BY <1>1 DEF SingleBsp
  <2>2. pc[c] \in ApPcs \cup BspPcs
    BY <1>1, <2>1 DEF RunInv, PresentFits, ParkedPcs, ApPcs
  <2> QED BY <1>1, <2>1, <2>2 DEF RunInv, ModesFit
<1> QED BY <1>1, RunCorrect, OnlyOneBsp, TypeCorrect, PTL

-----------------------------------------------------------------------------
\* EFI_SUCCESS of CheckApArrival() stands as long as nobody leaves the run.
ReadyFits == \A b, c \in Cpus : pc[b] = "cReady" => pc[c] \in JoinedPcs

\* A step that neither answers EFI_SUCCESS nor leaves SMM keeps the answer true.
LEMMA ReadyMove ==
    ASSUME TypeOK, ReadyFits, NEW c \in Cpus, NEW from, NEW to, Goto(c, from, to),
           to # "cReady", from \in JoinedPcs => to \in JoinedPcs
    PROVE  ReadyFits'
BY DEF ReadyFits, Goto, TypeOK

\* A CPU leaves the run only where the BSP is not in the handlers.
LEMMA LeaveMove ==
    ASSUME TypeOK, SingleBsp, NEW c \in Cpus, NEW from, NEW to, Goto(c, from, to),
           to # "cReady", At # "cReady"
    PROVE  ReadyFits'
<1>1. \A b \in Cpus : pc[b] # "cReady"
  BY DEF SingleBsp, At, Leading, BspPcs
<1> QED BY <1>1 DEF ReadyFits, Goto, TypeOK

\* All processors have checked in or are Present.
LEMMA AllJoined ==
    ASSUME TypeOK, SingleBsp, RunInv, Leading, AllCpusInSmm
    PROVE  \A c \in Cpus : pc[c] \in JoinedPcs
<1>1. IsFiniteSet(Cpus) /\ NumberOfCpus \in Nat /\ Joined \subseteq Cpus
  BY CpusAssumption, FS_CardinalityType DEF NumberOfCpus, Joined
<1>2. CASE Counter = NumberOfCpus
  <2>1. ~Closing
    BY CpusAssumption DEF RunInv, ClosingFits, Closing, Leading
  <2>2. Cardinality(Joined) = NumberOfCpus
    BY <1>1, <1>2, <2>1 DEF RunInv, CounterFits, Locked
  <2>3. Joined = Cpus
    BY <1>1, <2>2, FS_Subset DEF NumberOfCpus
  <2> QED BY <2>3 DEF Joined, JoinedPcs
<1>3. CASE Present = Cpus
  <2>1. \A c \in Cpus : pc[c] \in ParkedPcs \cup BspPcs
    BY <1>3 DEF RunInv, PresentFits, Leading
  <2> QED BY <2>1 DEF JoinedPcs, ParkedPcs, ApPcs
<1> QED BY <1>2, <1>3 DEF AllCpusInSmm

\* The answer of CheckApArrival() stays true while the handler acts on it.
LEMMA ReadyStep == TypeOK /\ SingleBsp /\ RunInv /\ ReadyFits /\ [Next]_vars => ReadyFits'
<1> SUFFICES ASSUME TypeOK, SingleBsp, RunInv, ReadyFits, [Next]_vars PROVE ReadyFits'
  OBVIOUS
<1> USE DEF JoinedPcs, EntryPcs, BspPcs, ApPcs
<1>1. CASE RaiseSmi \/ UNCHANGED vars
  BY <1>1 DEF ReadyFits, RaiseSmi, vars
<1>2. ASSUME NEW c \in Cpus, SmiRendezvous(c) PROVE ReadyFits'
  <2>1. PICK from \in {"normal", "checkin", "elect", "cas", "role", "spin"}, to \in Pcs :
           /\ Goto(c, from, to) /\ to # "cReady"
           /\ from \in JoinedPcs => to \in JoinedPcs
    BY <1>2 DEF SmiRendezvous, EnterSmi, CheckIn, Elect, CasBsp, TakeRole, ExitSmi, Pcs, TailPcs
  <2> QED BY <2>1, ReadyMove
<1>3. ASSUME NEW c \in Cpus, BSPHandler(c) PROVE ReadyFits'
  <2>1. CASE BspUnelect(c)
    <3>1. Goto(c, "bUnelect", "bReopen")
      BY <2>1 DEF BspUnelect
    <3>2. At # "cReady"
      BY <3>1 DEF SingleBsp, At, Leading, Goto
    <3> QED BY <3>1, <3>2, LeaveMove
  <2>2. CASE BspStart(c) \/ SmmWaitForApArrival(c) \/ BspSync(c) \/ BspLock(c)
    BY <2>2, ReadyMove DEF BspStart, SmmWaitForApArrival, FirstWait, BringIn, SecondWait, BspSync, BspLock
  <2>3. CASE BspGather(c) \/ BspSave(c) \/ BspSaved(c) \/ BspReplace(c) \/ BspReplaced(c)
    BY <2>3, ReadyMove DEF BspGather, BspSave, BspSaved, BspReplace, BspReplaced
  <2>4. CASE BspDrain(c) \/ BspPresent(c) \/ BspLeave(c) \/ BspNotify(c) \/ BspFinished(c)
    BY <2>4, ReadyMove DEF BspDrain, BspPresent, BspLeave, BspNotify, BspFinished, SignalReset
  <2>5. CASE BspRestore(c) \/ BspRestored(c) \/ BspCollect(c)
    BY <2>5, ReadyMove DEF BspRestore, BspRestored, SignalReset, BspCollect
  <2>6. CASE BspReopen(c) \/ BspUnsync(c)
    BY <2>6, ReadyMove DEF BspReopen, BspUnsync
  <2> QED BY <1>3, <2>1, <2>2, <2>3, <2>4, <2>5, <2>6 DEF BSPHandler
<1>4. ASSUME NEW c \in Cpus, APHandler(c) PROVE ReadyFits'
  <2>1. CASE ApGiveUp(c)
    <3>1. Goto(c, "aGiveUp", "spin") /\ pc[c] = "aGiveUp"
      BY <2>1 DEF ApGiveUp, Goto
    <3>2. At # "cReady"
      BY <3>1, EarlyStays DEF EarlyPcs, Arriving, GatherPcs, LatePcs, OwnerPcs, HandlerPcs
    <3> QED BY <3>1, <3>2, LeaveMove
  <2>2. CASE ApReset(c)
    <3>1. Goto(c, "aReset", "spin") /\ pc[c] = "aReset" /\ Run[c] # 0
      BY <2>2 DEF ApReset, Goto, Handshake
    <3>2. At # "cReady"
      BY <3>1, Woken DEF ParkedPcs, Asked
    <3> QED BY <3>1, <3>2, LeaveMove
  <2>3. CASE ApSeesBsp(c) \/ ApTimeout(c) \/ ApEnter(c)
    BY <2>3, ReadyMove DEF ApSeesBsp, ApTimeout, ApEnter
  <2>4. CASE ApSave(c) \/ ApReplace(c) \/ ApWake(c) \/ ApProcedureDone(c) \/ ApRestore(c)
    BY <2>4, ReadyMove DEF ApSave, ApReplace, ApWake, ApProcedureDone, ApRestore
  <2> QED BY <1>4, <2>1, <2>2, <2>3, <2>4 DEF APHandler
<1>5. ASSUME NEW c \in Cpus, SmmHandlers(c) PROVE ReadyFits'
  <2>1. ASSUME NEW a \in Cpus, SmmStartupThisAp(c, a) PROVE ReadyFits'
    BY <2>1, ReadyMove DEF SmmStartupThisAp
  <2>2. CASE BlockingDone(c) \/ HandlerReturns(c)
    BY <2>2, ReadyMove DEF BlockingDone, HandlerReturns
  <2>3. CASE \/ \E m \in Modes \cup {"Max"} : SmmSyncSetMode(c, m)
             \/ \E p \in Cpus : SmmSwitchBsp(c, p)
             \/ \E t \in SUBSET Cpus : SmmCpuSync2SendSmi(c, t)
    BY <2>3 DEF ReadyFits, SmmSyncSetMode, SmmSwitchBsp, SmmCpuSync2SendSmi
  <2>4. CASE SmmCpuSyncCheckApArrival(c)
    <3>1. PICK from \in OwnerPcs, to \in OwnerPcs :
            /\ Goto(c, from, to) /\ pc[c] = from
            /\ to = "cReady" => AllCpusInSmm
      BY <2>4 DEF SmmCpuSyncCheckApArrival, CheckResult, FirstWait, BringIn, SecondWait, AllCpusInSmm,
         OwnerPcs, HandlerPcs, Goto
    <3>2. from \in BspPcs /\ to \in BspPcs
      BY DEF OwnerPcs, HandlerPcs
    <3>3. CASE to # "cReady"
      BY <3>1, <3>2, <3>3, ReadyMove
    <3>4. CASE to = "cReady"
      <4>1. Leading
        BY <3>1, <3>2 DEF SingleBsp, Leading
      <4>2. \A d \in Cpus : pc[d] \in JoinedPcs
        BY <4>1, <3>1, <3>4, AllJoined
      <4> QED BY <4>2, <3>1, <3>2 DEF ReadyFits, Goto, TypeOK
    <3> QED BY <3>3, <3>4
  <2> QED BY <1>5, <2>1, <2>2, <2>3, <2>4 DEF SmmHandlers
<1> QED BY <1>1, <1>2, <1>3, <1>4, <1>5 DEF Next

\* When SmmCpuSyncCheckApArrival() answers EFI_SUCCESS, no AP executes normal-mode code
\* before it enters SMM.
THEOREM ReadyIsTrue ==
    ASSUME CleanGiveUp
    PROVE  Spec => []ReadyMeansAllIn
<1>1. Init => ReadyFits
  BY DEF Init, ReadyFits
<1>2. ReadyFits => ReadyMeansAllIn
  BY DEF ReadyFits, ReadyMeansAllIn, JoinedPcs, EntryPcs, BspPcs, ApPcs
<1> QED BY <1>1, <1>2, ReadyStep, RunCorrect, TypeCorrect, OnlyOneBsp, PTL DEF Spec

-----------------------------------------------------------------------------
\* A pending BSP switch binds whoever has passed the test of SwitchBsp and CandidateBsp.
SwitchFits ==
    \A c \in Cpus : SwitchBsp /\ (pc[c] = "cas" \/ (pc[c] = "role" /\ BspIndex = c))
        => c \in CandidateBsp

\* A step that neither elects nor changes the candidates keeps SwitchFits.
LEMMA SwitchMove ==
    ASSUME TypeOK, SwitchFits, NEW c \in Cpus, NEW from, NEW to, Goto(c, from, to),
           to \notin {"cas", "role"}, UNCHANGED <<BspIndex, SwitchBsp, CandidateBsp>>
    PROVE  SwitchFits'
BY DEF SwitchFits, Goto, TypeOK

\* Every step keeps SwitchFits; SmmCpuUpdate() may make new candidates only because
\* everybody in the run is parked by then.
LEMMA SwitchStep == TypeOK /\ SingleBsp /\ RunInv /\ SwitchFits /\ [Next]_vars => SwitchFits'
<1> SUFFICES ASSUME TypeOK, SingleBsp, RunInv, SwitchFits, [Next]_vars PROVE SwitchFits'
  OBVIOUS
<1> USE DEF slowVars, hwVars, electVars, modeVars
<1>1. CASE RaiseSmi \/ UNCHANGED vars
  BY <1>1 DEF SwitchFits, RaiseSmi, vars
<1>2. ASSUME NEW c \in Cpus, SmiRendezvous(c) PROVE SwitchFits'
  <2>1. CASE EnterSmi(c) \/ CheckIn(c) \/ ExitSmi(c)
    BY <2>1, SwitchMove DEF EnterSmi, CheckIn, ExitSmi
  <2>2. CASE Elect(c)
    BY <2>2 DEF Elect, MayElect, SwitchFits, Goto, TypeOK, RunInv, Elected, BspPcs
  <2>3. CASE CasBsp(c)
    BY <2>3 DEF CasBsp, CompareExchangeBsp, SwitchFits, Goto, TypeOK
  <2>4. CASE TakeRole(c)
    BY <2>4 DEF TakeRole, SwitchFits, Goto, TypeOK
  <2> QED BY <1>2, <2>1, <2>2, <2>3, <2>4 DEF SmiRendezvous
<1>3. ASSUME NEW c \in Cpus, BSPHandler(c) PROVE SwitchFits'
  <2>1. CASE \E from : SignalReset(c, from) /\ AllAPsSignalled(c) /\ BspIndex' = BspIndex
                          /\ from \in {"bFinished", "bRestored"}
    \* Everybody in the run is parked: nobody has passed the test for the next election.
    <3>1. PICK from \in {"bFinished", "bRestored"} :
             /\ Goto(c, from, "bCollect") /\ pc[c] = from /\ AllAPsSignalled(c)
             /\ BspIndex' = BspIndex
      BY <2>1 DEF SignalReset, Goto
    <3>2. \A d \in Cpus : pc[d] \in EarlyPcs \cup ParkedPcs => pc[d] \in Answered
      BY <3>1, AllAnswered
    <3>3. \A d \in Cpus : pc[d] \notin {"cas", "role"}
      BY <3>2 DEF EarlyPcs, Answered
    <3> QED BY <3>1, <3>3 DEF SwitchFits, Goto, TypeOK
  <2>2. CASE BspStart(c) \/ SmmWaitForApArrival(c) \/ BspSync(c) \/ BspLock(c)
    BY <2>2, SwitchMove DEF BspStart, SmmWaitForApArrival, FirstWait, BringIn, SecondWait, BspSync, BspLock
  <2>3. CASE BspGather(c) \/ BspSave(c) \/ BspSaved(c) \/ BspReplace(c) \/ BspReplaced(c)
    BY <2>3, SwitchMove DEF BspGather, BspSave, BspSaved, BspReplace, BspReplaced
  <2>4. CASE BspDrain(c) \/ BspPresent(c) \/ BspLeave(c) \/ BspNotify(c)
    BY <2>4, SwitchMove DEF BspDrain, BspPresent, BspLeave, BspNotify
  <2>5. CASE BspFinished(c)
    BY <2>1, <2>5, SwitchMove DEF BspFinished
  <2>6. CASE BspRestore(c) \/ BspCollect(c)
    BY <2>6, SwitchMove DEF BspRestore, BspCollect
  <2>7. CASE BspRestored(c)
    BY <2>1, <2>7 DEF BspRestored
  <2>8. CASE BspUnelect(c)
    BY <2>8, CpusAssumption DEF BspUnelect, SwitchFits, Goto, TypeOK
  <2>9. CASE BspReopen(c) \/ BspUnsync(c)
    BY <2>9, SwitchMove DEF BspReopen, BspUnsync
  <2> QED BY <1>3, <2>2, <2>3, <2>4, <2>5, <2>6, <2>7, <2>8, <2>9 DEF BSPHandler
<1>4. ASSUME NEW c \in Cpus, APHandler(c) PROVE SwitchFits'
  <2>1. CASE ApSeesBsp(c) \/ ApTimeout(c) \/ ApGiveUp(c) \/ ApEnter(c)
    BY <2>1, SwitchMove DEF ApSeesBsp, ApTimeout, ApGiveUp, ApEnter
  <2>2. CASE ApSave(c) \/ ApReplace(c) \/ ApWake(c)
    BY <2>2, SwitchMove DEF ApSave, ApReplace, ApWake
  <2>3. CASE ApProcedureDone(c) \/ ApRestore(c) \/ ApReset(c)
    BY <2>3, SwitchMove DEF ApProcedureDone, ApRestore, ApReset
  <2> QED BY <1>4, <2>1, <2>2, <2>3 DEF APHandler
<1>5. ASSUME NEW c \in Cpus, SmmHandlers(c) PROVE SwitchFits'
  <2>1. ASSUME NEW a \in Cpus, SmmStartupThisAp(c, a) PROVE SwitchFits'
    BY <2>1, SwitchMove DEF SmmStartupThisAp
  <2>2. CASE BlockingDone(c) \/ HandlerReturns(c) \/ SmmCpuSyncCheckApArrival(c)
    BY <2>2, SwitchMove DEF BlockingDone, HandlerReturns, SmmCpuSyncCheckApArrival, CheckResult,
       FirstWait, BringIn, SecondWait
  <2>3. CASE \/ \E m \in Modes \cup {"Max"} : SmmSyncSetMode(c, m)
             \/ \E p \in Cpus : SmmSwitchBsp(c, p)
             \/ \E t \in SUBSET Cpus : SmmCpuSync2SendSmi(c, t)
    BY <2>3 DEF SwitchFits, SmmSyncSetMode, SmmSwitchBsp, SmmCpuSync2SendSmi
  <2> QED BY <1>5, <2>1, <2>2, <2>3 DEF SmmHandlers
<1> QED BY <1>1, <1>2, <1>3, <1>4, <1>5 DEF Next

\* After SmmSwitchBsp() only a candidate is elected, though SmiRendezvous() tests
\* SwitchBsp and CandidateBsp before its compare-exchange on BspIndex.
THEOREM SwitchIsHonoured ==
    ASSUME CleanGiveUp
    PROVE  Spec => []SwitchHonoured
<1>1. Init => SwitchFits
  BY DEF Init, SwitchFits
<1>2. SwitchFits => SwitchHonoured
  BY DEF SwitchFits, SwitchHonoured
<1> QED BY <1>1, <1>2, SwitchStep, RunCorrect, TypeCorrect, OnlyOneBsp, PTL DEF Spec
=====
