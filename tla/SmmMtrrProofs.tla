-------------------------- MODULE SmmMtrrProofs --------------------------
(***************************************************************************)
(* The MTRRs in an SMI run of SmmRendezvous, and what the gathering of the *)
(* CPUs is for.  The theorems that say what CPUs outside SMM do need       *)
(* LongTimeouts besides CleanGiveUp: a BSP whose timer ran out while a CPU *)
(* still executes the last lines of the previous run would go on without   *)
(* it, and that CPU may yet leave SMM.                                     *)
(***************************************************************************)
EXTENDS SmmRunProofs

\* From the first CPU that may program SMM MTRRs to the last that restores the OS's.
ProgrammedPcs == {"bReplace", "bReplaced", "bLeave", "bNotify", "bFinished", "bRestore", "bRestored"}
                 \cup OwnerPcs
Programmed == MtrrsConfigured /\ At \in ProgrammedPcs

\* Every core's MTRRs are the OS's or the SMM ones ...
MtrrTypes == \A k \in Cores : mtrr[k] \in {"os", "smm"}
\* ... and the OS's unless the run has programmed them.
OsOutside == ~Programmed => \A k \in Cores : mtrr[k] = "os"

\* CPUs that have their backup.
BackedUp(c) ==
    \/ pc[c] \in {"aReplace", "aRestore"}
    \/ MtrrsConfigured /\ pc[c] \in {"aLoop", "aProc"}
    \/ MtrrsConfigured /\ c = BspIndex /\ At \in {"bSaved"} \cup (ProgrammedPcs \ {"bRestored"})
BackupsFit == \A c \in Cpus : BackedUp(c) => saved[c] = "os"

\* CPUs that have programmed their core's MTRRs.
Replaced(c) ==
    /\ MtrrsConfigured
    /\ \/ At \in {"bReplace", "bReplaced"} /\ pc[c] = "aLoop"
       \/ At = "bReplaced" /\ c = BspIndex
       \/ At \in OwnerPcs \cup {"bLeave", "bNotify", "bFinished"} /\ c \in Present
ReplacedFits == \A c \in Cpus : Replaced(c) => mtrr[CoreOf[c]] = "smm"

\* CPUs that have yet to restore their core's MTRRs.
ToRestore(c) ==
    IF At \in {"bRestore", "bRestored"}
    THEN pc[c] = "aRestore" \/ (c = BspIndex /\ At = "bRestore")
    ELSE c \in Present
RestoreFits ==
    Programmed => \A k \in Cores : mtrr[k] = "smm" => \E c \in Cpus : CoreOf[c] = k /\ ToRestore(c)

\* The inductive invariant of the MTRRs.
MtrrInv ==
    MtrrTypes /\ OsOutside /\ BackupIsOs /\ BackupsFit /\ ReplacedFits /\ RestoreFits

-----------------------------------------------------------------------------
\* The BSP gathers first and is past the first wait for the APs.
Gathered == Leading /\ Gathers /\ At \notin {"bStart", "bArrive1"}

\* Nobody can slip out of a gathered run: no old BSP is about to clear AllCpusInSync,
\* nobody stands at the exit with it cleared, and who is outside has an SMI latched.
GatheredFits ==
    Gathered =>
        /\ \A c \in Cpus : pc[c] # "bUnsync"
        /\ \A c \in Cpus : pc[c] = "spin" => AllCpusInSync
        /\ At \notin {"bIpi", "bArrive2", "bSync"} => AllCpusInSync
        /\ At # "bIpi" => \A c \in Cpus : pc[c] = "normal" => c \in smi

-----------------------------------------------------------------------------
\* Without MTRR programming no CPU is at a place that reads or writes MTRRs.
LEMMA MtrrsOff ==
    ASSUME RunInv, ~MtrrsConfigured
    PROVE  /\ \A c \in Cpus : pc[c] \notin {"aSave", "aReplace", "aRestore"}
           /\ At \notin {"bSave", "bSaved", "bReplace", "bReplaced", "bRestore", "bRestored"}
<1>1. At \notin {"bSave", "bSaved", "bReplace", "bReplaced", "bRestore", "bRestored"}
  BY DEF RunInv, PathFits
<1>2. {"aSave", "aReplace", "aRestore"} \cap (Arriving \cup Asked \cup Answered \cup Serving) = {}
  BY <1>1 DEF Arriving, Asked, Answered, Serving, EarlyPcs, GatherPcs, LatePcs, OwnerPcs, HandlerPcs
<1> QED BY <1>1, <1>2 DEF RunInv, Follows, ParkedPcs

\* Places at which the invariant says something about an AP, or about the run.
ApMtrrPcs == {"aReplace", "aRestore", "aLoop", "aProc"}
RunMtrrPcs == ProgrammedPcs \cup {"bSaved"}

\* A step that programs no MTRRs and takes no backup.
LEMMA MtrrSame ==
    ASSUME MtrrInv, mtrr' = mtrr, Programmed' = Programmed,
           \A d \in Cpus : saved'[d] = saved[d] \/ (saved'[d] = "none" /\ ~BackedUp(d)'),
           \A d \in Cpus : BackedUp(d)' => BackedUp(d),
           \A d \in Cpus : Replaced(d)' => Replaced(d),
           Programmed => \A d \in Cpus : ToRestore(d) => ToRestore(d)'
    PROVE  MtrrInv'
<1>1. MtrrTypes' /\ OsOutside' /\ BackupIsOs'
  BY DEF MtrrInv, MtrrTypes, OsOutside, BackupIsOs
<1>2. BackupsFit'
  BY DEF MtrrInv, BackupsFit
<1>3. ReplacedFits'
  BY DEF MtrrInv, ReplacedFits
<1>4. RestoreFits'
  BY DEF MtrrInv, RestoreFits
<1> QED BY <1>1, <1>2, <1>3, <1>4 DEF MtrrInv

\* A step away from the MTRRs.
LEMMA MtrrNeutral ==
    ASSUME TypeOK, MtrrInv, NEW c \in Cpus, NEW from, NEW to, Goto(c, from, to),
           from \notin ApMtrrPcs, to \notin ApMtrrPcs, mtrr' = mtrr,
           \/ At \notin RunMtrrPcs /\ At' \notin RunMtrrPcs
           \/ At' = At /\ UNCHANGED <<BspIndex, Present>>,
           \/ saved' = saved
           \/ saved' = [saved EXCEPT ![c] = "none"] /\ (BspIndex = c => At \notin RunMtrrPcs)
    PROVE  MtrrInv'
<1>1. /\ \A d \in Cpus : pc'[d] = IF d = c THEN to ELSE pc[d]
      /\ pc[c] = from
  BY DEF Goto, TypeOK
<1>2. \A d \in Cpus : pc'[d] \in ApMtrrPcs <=> pc[d] \in ApMtrrPcs
  BY <1>1
<1>3. \A d \in Cpus : pc'[d] = pc[d] \/ (d = c /\ pc'[d] \notin ApMtrrPcs /\ pc[d] \notin ApMtrrPcs)
  BY <1>1
<1>4. ProgrammedPcs \subseteq RunMtrrPcs /\ "bSaved" \in RunMtrrPcs
  BY DEF RunMtrrPcs
<1>5. Programmed' = Programmed
  BY <1>4 DEF Programmed
<1>6. \A d \in Cpus : BackedUp(d)' => BackedUp(d)
  BY <1>3, <1>4 DEF BackedUp, ApMtrrPcs
<1>7. \A d \in Cpus : Replaced(d)' => Replaced(d)
  <2>1. {"bReplace", "bReplaced", "bLeave", "bNotify", "bFinished"} \cup OwnerPcs \subseteq RunMtrrPcs
    BY DEF RunMtrrPcs, ProgrammedPcs
  <2> QED BY <1>3, <2>1 DEF Replaced, ApMtrrPcs
<1>8. Programmed => \A d \in Cpus : ToRestore(d) => ToRestore(d)'
  BY <1>3, <1>4 DEF ToRestore, Programmed, ApMtrrPcs
<1>9. \A d \in Cpus : saved'[d] = saved[d] \/ (saved'[d] = "none" /\ ~BackedUp(d)')
  <2>1. CASE saved' = saved
    BY <2>1
  <2>2. CASE saved' # saved
    <3>1. saved' = [saved EXCEPT ![c] = "none"] /\ (BspIndex = c => At \notin RunMtrrPcs)
      BY <2>2
    <3>2. ~BackedUp(c)
      BY <1>1, <1>4, <3>1 DEF BackedUp, ApMtrrPcs
    <3>3. saved \in [Cpus -> {"none", "os", "smm"}]
      BY DEF TypeOK
    <3> QED BY <1>6, <3>1, <3>2, <3>3
  <2> QED BY <2>1, <2>2
<1> QED BY <1>5, <1>6, <1>7, <1>8, <1>9, MtrrSame

\* With MTRRs left alone there is nothing to show.
LEMMA MtrrOffStep ==
    ASSUME TypeOK, RunInv, RunInv', MtrrInv, ~MtrrsConfigured, mtrr' = mtrr,
           \A d \in Cpus : saved'[d] = saved[d] \/ saved'[d] = "none"
    PROVE  MtrrInv'
<1>1. \A d \in Cpus : ~BackedUp(d)'
  <2>1. \A d \in Cpus : pc'[d] \notin {"aSave", "aReplace", "aRestore"}
    <3>1. (At \notin {"bSave", "bSaved", "bReplace", "bReplaced", "bRestore", "bRestored"})'
      BY DEF RunInv, PathFits
    <3>2. ({"aSave", "aReplace", "aRestore"} \cap (Arriving \cup Asked \cup Answered \cup Serving) = {})'
      BY <3>1 DEF Arriving, Asked, Answered, Serving, EarlyPcs, GatherPcs, LatePcs, OwnerPcs, HandlerPcs
    <3> QED BY <3>2 DEF RunInv, Follows, ParkedPcs
  <2> QED BY <2>1 DEF BackedUp
<1>2. ~Programmed /\ Programmed' = Programmed
  BY DEF Programmed
<1>3. \A d \in Cpus : ~Replaced(d)'
  BY DEF Replaced
<1>4. \A d \in Cpus : BackedUp(d)' => BackedUp(d)
  BY <1>1
<1>5. \A d \in Cpus : Replaced(d)' => Replaced(d)
  BY <1>3
<1>6. \A d \in Cpus : saved'[d] = saved[d] \/ (saved'[d] = "none" /\ ~BackedUp(d)')
  BY <1>1
<1>7. Programmed => \A d \in Cpus : ToRestore(d) => ToRestore(d)'
  BY <1>2
<1> QED BY <1>2, <1>4, <1>5, <1>6, <1>7, MtrrSame

\* SmiRendezvous leaves the MTRRs alone, and forgets the backup as it ends.
LEMMA RendezvousMtrr ==
    ASSUME TypeOK, SingleBsp, RunInv, MtrrInv, NEW c \in Cpus, SmiRendezvous(c)
    PROVE  MtrrInv'
<1> USE DEF slowVars, hwVars, electVars, modeVars, flagVars, cpuData, mtrrVars
<1>0. "none" \notin RunMtrrPcs /\ "bStart" \notin RunMtrrPcs
  BY DEF RunMtrrPcs, ProgrammedPcs, OwnerPcs, HandlerPcs
<1>1. CASE EnterSmi(c) \/ CheckIn(c) \/ Elect(c) \/ ExitSmi(c) \/ (CasBsp(c) /\ BspIndex # NoCpu)
           \/ (TakeRole(c) /\ BspIndex # c)
  <2>1. PICK from \in EntryPcs \cup {"normal", "spin"}, to \in EntryPcs \cup {"normal", "spin", "aTimer1"} :
          /\ Goto(c, from, to)
          /\ UNCHANGED <<BspIndex, Present, mtrr>>
          /\ saved' = saved \/ saved' = [saved EXCEPT ![c] = "none"]
    BY <1>1 DEF EnterSmi, CheckIn, Elect, ExitSmi, CasBsp, CompareExchangeBsp, TakeRole, EntryPcs
  <2>2. /\ from \notin BspPcs \cup ApMtrrPcs
        /\ to \notin BspPcs \cup ApMtrrPcs
    BY DEF BspPcs, ApMtrrPcs, EntryPcs
  <2>3. At' = At /\ (BspIndex = c => At = "none")
    BY <2>1, <2>2, Bystander DEF RunInv, At
  <2> QED BY <1>0, <2>1, <2>2, <2>3, MtrrNeutral
<1>2. CASE (CasBsp(c) /\ BspIndex = NoCpu) \/ (TakeRole(c) /\ BspIndex = c)
  <2>1. PICK from \in {"cas", "role"}, to \in {"role", "bStart"} :
          /\ Goto(c, from, to) /\ UNCHANGED <<mtrr, saved>> /\ BspIndex' = c
          /\ BspIndex = NoCpu \/ (BspIndex = c /\ from = "role")
    BY <1>2 DEF CasBsp, CompareExchangeBsp, TakeRole
  <2>2. from \notin ApMtrrPcs /\ to \notin ApMtrrPcs
    BY DEF ApMtrrPcs
  <2>3. At = "none" /\ At' \in {"none", "bStart"}
    BY <2>1, CpusAssumption DEF At, Leading, Goto, TypeOK, BspPcs
  <2> QED BY <1>0, <2>1, <2>2, <2>3, MtrrNeutral
<1> QED BY <1>1, <1>2 DEF SmiRendezvous

\* APHandler: a backup is taken before any core is programmed, and every core that is
\* programmed has a CPU in the run that will restore it.
LEMMA ApMtrr ==
    ASSUME MtrrsConfigured, TypeOK, SingleBsp, RunInv, MtrrInv, NEW c \in Cpus, APHandler(c)
    PROVE  MtrrInv'
<1> USE DEF slowVars, hwVars, electVars, modeVars, flagVars, cpuData, mtrrVars
<1>1. CASE ApSeesBsp(c) \/ ApTimeout(c) \/ ApGiveUp(c)
  <2>1. PICK from \in {"aTimer1", "aTimer2", "aGiveUp"}, to \in {"aEnter", "aTimer2", "aGiveUp", "spin"} :
          Goto(c, from, to) /\ UNCHANGED <<BspIndex, Present, mtrr, saved>>
    BY <1>1 DEF ApSeesBsp, ApTimeout, ApGiveUp
  <2>2. /\ from \notin BspPcs \cup ApMtrrPcs
        /\ to \notin BspPcs \cup ApMtrrPcs
    BY DEF BspPcs, ApMtrrPcs
  <2>3. At' = At
    BY <2>1, <2>2, Bystander DEF RunInv
  <2> QED BY <2>1, <2>2, <2>3, MtrrNeutral
<1>2. CASE ApEnter(c)
  <2>1. Goto(c, "aEnter", "aSave") /\ pc[c] = "aEnter" /\ UNCHANGED <<BspIndex, mtrr, saved>>
    BY <1>2 DEF ApEnter, Goto
  <2>2. /\ "aEnter" \notin BspPcs \cup ApMtrrPcs
        /\ "aSave" \notin BspPcs \cup ApMtrrPcs
    BY DEF BspPcs, ApMtrrPcs
  <2>3. At' = At
    BY <2>1, <2>2, Bystander DEF RunInv
  <2>4. "aEnter" \in Arriving
    BY <2>1, EarlyStays DEF EarlyPcs
  <2>5. At \in GatherPcs \cup LatePcs
    BY <2>4 DEF Arriving, Gathers, GatherFirst, GatherPcs, LatePcs, OwnerPcs, HandlerPcs
  <2>6. At \notin RunMtrrPcs
    BY <2>5 DEF GatherPcs, LatePcs, RunMtrrPcs, ProgrammedPcs, OwnerPcs, HandlerPcs
  <2> QED BY <2>1, <2>2, <2>3, <2>6, MtrrNeutral
<1>3. CASE ApReset(c)
  <2>1. /\ Goto(c, "aReset", "spin") /\ pc[c] = "aReset" /\ Run[c] # 0
        /\ UNCHANGED <<BspIndex, mtrr, saved>>
    BY <1>3 DEF ApReset, Goto, Handshake
  <2>2. /\ "aReset" \notin BspPcs \cup ApMtrrPcs
        /\ "spin" \notin BspPcs \cup ApMtrrPcs
    BY DEF BspPcs, ApMtrrPcs
  <2>3. At' = At
    BY <2>1, <2>2, Bystander DEF RunInv
  <2>4. At = "bCollect"
    BY <2>1, Woken DEF ParkedPcs, Asked
  <2>5. At \notin RunMtrrPcs
    BY <2>4 DEF RunMtrrPcs, ProgrammedPcs, OwnerPcs, HandlerPcs
  <2> QED BY <2>1, <2>2, <2>3, <2>5, MtrrNeutral
<1>4. CASE ApWake(c) \/ ApProcedureDone(c)
  <2>1. PICK from \in {"aLoop", "aProc"}, to \in {"aLoop", "aProc", "aRestore"} :
          /\ Goto(c, from, to) /\ pc[c] = from
          /\ from = "aLoop" => Run[c] # 0
          /\ from = "aProc" => to = "aLoop"
          /\ UNCHANGED <<BspIndex, Present, mtrr, saved>>
    BY <1>4 DEF ApWake, ApProcedureDone, Goto, Handshake
  <2>2. from \notin BspPcs /\ to \notin BspPcs
    BY DEF BspPcs
  <2>3. /\ At' = At
        /\ \A d \in Cpus : pc'[d] = IF d = c THEN to ELSE pc[d]
    BY <2>1, <2>2, Bystander DEF RunInv
  <2>4. At \notin {"bReplace", "bReplaced", "bRestore", "bRestored"}
    <3>1. CASE from = "aLoop"
      BY <3>1, <2>1, Woken DEF ParkedPcs, Asked, OwnerPcs, HandlerPcs
    <3>2. CASE from = "aProc"
      BY <3>2, <2>1 DEF RunInv, BusyFits, ParkedPcs, OwnerPcs, HandlerPcs
    <3> QED BY <3>1, <3>2
  <2>5. Programmed' = Programmed
    BY <2>3 DEF Programmed
  <2>6. \A d \in Cpus : BackedUp(d)' => BackedUp(d)
    BY <2>1, <2>3 DEF BackedUp
  <2>7. \A d \in Cpus : Replaced(d)' => Replaced(d)
    BY <2>1, <2>3, <2>4 DEF Replaced
  <2>8. Programmed => \A d \in Cpus : ToRestore(d) => ToRestore(d)'
    BY <2>1, <2>3, <2>4 DEF ToRestore
  <2> QED BY <2>1, <2>5, <2>6, <2>7, <2>8, MtrrSame
<1>5. CASE ApSave(c)
  <2>1. /\ Goto(c, "aSave", "aReplace") /\ pc[c] = "aSave" /\ Run[c] # 0
        /\ UNCHANGED <<BspIndex, Present, mtrr>>
        /\ saved' = [saved EXCEPT ![c] = mtrr[CoreOf[c]]]
    BY <1>5 DEF ApSave, Goto, Handshake, MtrrGetAllMtrrs
  <2>2. /\ At' = At
        /\ \A d \in Cpus : pc'[d] = IF d = c THEN "aReplace" ELSE pc[d]
    BY <2>1, Bystander DEF RunInv, BspPcs
  <2>3. At \in {"bSave", "bSaved"}
    BY <2>1, Woken DEF ParkedPcs, Asked
  <2>4. ~Programmed /\ ~Programmed'
    BY <2>2, <2>3 DEF Programmed, ProgrammedPcs, OwnerPcs, HandlerPcs
  <2>5. saved'[c] = "os" /\ \A d \in Cpus \ {c} : saved'[d] = saved[d]
    BY <2>1, <2>4, CoresAssumption DEF MtrrInv, OsOutside, TypeOK
  <2>6. \A d \in Cpus \ {c} : BackedUp(d)' => BackedUp(d)
    BY <2>1, <2>2 DEF BackedUp
  <2>7. \A d \in Cpus : ~Replaced(d)'
    BY <2>2, <2>3 DEF Replaced, OwnerPcs, HandlerPcs
  <2>8. MtrrTypes' /\ OsOutside' /\ RestoreFits'
    BY <2>1, <2>4 DEF MtrrInv, MtrrTypes, OsOutside, RestoreFits
  <2>9. BackupIsOs' /\ BackupsFit'
    BY <2>5, <2>6 DEF MtrrInv, BackupIsOs, BackupsFit
  <2>10. ReplacedFits'
    BY <2>7 DEF ReplacedFits
  <2> QED BY <2>8, <2>9, <2>10 DEF MtrrInv
<1>6. CASE ApReplace(c)
  <2>1. /\ Goto(c, "aReplace", "aLoop") /\ pc[c] = "aReplace" /\ Run[c] # 0
        /\ UNCHANGED <<BspIndex, Present, saved>>
        /\ mtrr' = [mtrr EXCEPT ![CoreOf[c]] = "smm"]
    BY <1>6 DEF ApReplace, Goto, Handshake, ReplaceOSMtrrs
  <2>2. /\ At' = At
        /\ \A d \in Cpus : pc'[d] = IF d = c THEN "aLoop" ELSE pc[d]
    BY <2>1, Bystander DEF RunInv, BspPcs
  <2>3. At \in {"bReplace", "bReplaced"}
    BY <2>1, Woken DEF ParkedPcs, Asked
  <2>4. Programmed /\ Programmed'
    BY <2>2, <2>3 DEF Programmed, ProgrammedPcs
  <2>5. \A k \in Cores : mtrr'[k] = IF k = CoreOf[c] THEN "smm" ELSE mtrr[k]
    BY <2>1 DEF TypeOK
  <2>6. c \in Present
    BY <2>1 DEF RunInv, PresentFits, ParkedPcs
  <2>7. \A d \in Cpus : ToRestore(d)' <=> d \in Present
    BY <2>1, <2>2, <2>3 DEF ToRestore
  <2>8. \A d \in Cpus : ToRestore(d) <=> d \in Present
    BY <2>3 DEF ToRestore
  <2>9. RestoreFits'
    BY <2>4, <2>5, <2>6, <2>7, <2>8 DEF MtrrInv, RestoreFits
  <2>10. \A d \in Cpus \ {c} : Replaced(d)' => Replaced(d)
    BY <2>1, <2>2, <2>3 DEF Replaced
  <2>11. ReplacedFits'
    BY <2>5, <2>10, CoresAssumption DEF MtrrInv, ReplacedFits
  <2>12. \A d \in Cpus : BackedUp(d)' => BackedUp(d)
    BY <2>1, <2>2 DEF BackedUp
  <2>13. MtrrTypes' /\ OsOutside' /\ BackupIsOs' /\ BackupsFit'
    BY <2>1, <2>4, <2>5, <2>12 DEF MtrrInv, MtrrTypes, OsOutside, BackupIsOs, BackupsFit
  <2> QED BY <2>9, <2>11, <2>13 DEF MtrrInv
<1>7. CASE ApRestore(c)
  <2>1. /\ Goto(c, "aRestore", "aReset") /\ pc[c] = "aRestore" /\ Run[c] # 0
        /\ UNCHANGED <<BspIndex, Present, saved>>
        /\ mtrr' = [mtrr EXCEPT ![CoreOf[c]] = saved[c]]
    BY <1>7 DEF ApRestore, Goto, Handshake, MtrrSetAllMtrrs
  <2>2. /\ At' = At
        /\ \A d \in Cpus : pc'[d] = IF d = c THEN "aReset" ELSE pc[d]
    BY <2>1, Bystander DEF RunInv, BspPcs
  <2>3. At \in {"bRestore", "bRestored"}
    BY <2>1, Woken DEF ParkedPcs, Asked
  <2>4. Programmed /\ Programmed'
    BY <2>2, <2>3 DEF Programmed, ProgrammedPcs
  <2>5. saved[c] = "os"
    BY <2>1 DEF MtrrInv, BackupsFit, BackedUp
  <2>6. \A k \in Cores : mtrr'[k] = IF k = CoreOf[c] THEN "os" ELSE mtrr[k]
    BY <2>1, <2>5 DEF TypeOK
  <2>7. \A d \in Cpus \ {c} : ToRestore(d) => ToRestore(d)'
    BY <2>1, <2>2, <2>3 DEF ToRestore
  <2>8. RestoreFits'
    BY <2>4, <2>6, <2>7 DEF MtrrInv, RestoreFits
  <2>9. \A d \in Cpus : ~Replaced(d)'
    BY <2>2, <2>3 DEF Replaced, OwnerPcs, HandlerPcs
  <2>10. \A d \in Cpus : BackedUp(d)' => BackedUp(d)
    BY <2>1, <2>2 DEF BackedUp
  <2>11. MtrrTypes' /\ OsOutside' /\ BackupIsOs' /\ BackupsFit' /\ ReplacedFits'
    BY <2>1, <2>4, <2>6, <2>9, <2>10 DEF MtrrInv, MtrrTypes, OsOutside, BackupIsOs, BackupsFit, ReplacedFits
  <2> QED BY <2>8, <2>11 DEF MtrrInv
<1> QED BY <1>1, <1>2, <1>3, <1>4, <1>5, <1>6, <1>7 DEF APHandler

\* Between the first handler and the restoration the BSP moves without touching MTRRs.
ServicePcs == OwnerPcs \cup {"bLeave", "bNotify", "bFinished"}

\* A step of the BSP that leaves the MTRRs, the backups and Present alone, between
\* places that mean the same for the MTRRs.
LEMMA MtrrService ==
    ASSUME TypeOK, SingleBsp, RunInv, MtrrInv, NEW c \in Cpus, NEW from \in ServicePcs,
           NEW to \in ServicePcs, Goto(c, from, to), UNCHANGED <<BspIndex, Present, mtrr, saved>>,
           \A d \in Cpus \ {c} : loc'[d] = loc[d], loc'[c].mode = loc[c].mode
    PROVE  MtrrInv'
<1>1. from \in BspPcs /\ to \in BspPcs
  BY DEF ServicePcs, OwnerPcs, HandlerPcs, BspPcs
<1>2. /\ c = BspIndex /\ At = from /\ At' = to
      /\ \A d \in Cpus : pc'[d] = IF d = c THEN to ELSE pc[d]
      /\ pc[c] = from
  BY <1>1, LeaderMove
<1>3. /\ ServicePcs \subseteq ProgrammedPcs
      /\ ServicePcs \cap {"bReplace", "bReplaced", "bRestore", "bRestored", "bSaved"} = {}
      /\ ServicePcs \cap ApMtrrPcs = {}
  BY DEF ServicePcs, ProgrammedPcs, OwnerPcs, HandlerPcs, ApMtrrPcs
<1>4. Programmed' = Programmed
  BY <1>2, <1>3 DEF Programmed
<1>5. \A d \in Cpus : BackedUp(d)' => BackedUp(d)
  BY <1>2, <1>3 DEF BackedUp, ApMtrrPcs
<1>6. \A d \in Cpus : Replaced(d)' => Replaced(d)
  BY <1>2, <1>3 DEF Replaced, ServicePcs
<1>7. \A d \in Cpus : ToRestore(d) => ToRestore(d)'
  BY <1>2, <1>3 DEF ToRestore
<1> QED BY <1>4, <1>5, <1>6, <1>7, MtrrSame

\* BSPHandler: the BSP programs MTRRs once all backups are taken, starts the handlers once
\* all cores are programmed, and ends its run once all cores are restored.
LEMMA BspMtrr ==
    ASSUME MtrrsConfigured, TypeOK, SingleBsp, RunInv, MtrrInv, NEW c \in Cpus, BSPHandler(c)
    PROVE  MtrrInv'
<1> USE DEF slowVars, hwVars, electVars, modeVars, flagVars, cpuData, mtrrVars
<1>1. CASE \/ BspStart(c) \/ SmmWaitForApArrival(c) \/ BspSync(c) \/ BspLock(c) \/ BspGather(c)
           \/ BspCollect(c)
  <2> DEFINE S == {"bStart", "bArrive1", "bIpi", "bArrive2", "bSync", "bLock", "bGather", "bSave",
                   "bSyncLate", "bLockLate", "bPresent", "bCollect", "bUnelect"}
  <2>1. PICK from \in S, to \in S : 
          /\ Goto(c, from, to) /\ UNCHANGED <<BspIndex, mtrr, saved>>
          /\ \A d \in Cpus \ {c} : loc'[d] = loc[d]
          /\ loc'[c].mode = loc[c].mode
    BY <1>1 DEF BspStart, GatherFirst, SmmWaitForApArrival, FirstWait, BringIn, SecondWait, BspSync, BspLock,
       BspGather, BspCollect, TypeOK, Locals
  <2>2. /\ S \subseteq BspPcs /\ S \cap (ApMtrrPcs \cup RunMtrrPcs) = {}
    BY DEF BspPcs, ApMtrrPcs, RunMtrrPcs, ProgrammedPcs, OwnerPcs, HandlerPcs
  <2>3. At = from /\ At' = to
    <3>1. from \in BspPcs /\ to \in BspPcs
      BY <2>2
    <3> QED BY <2>1, <3>1, LeaderMove
  <2> QED BY <2>1, <2>2, <2>3, MtrrNeutral
<1>2. CASE BspUnelect(c) \/ BspReopen(c) \/ BspUnsync(c)
  <2>1. PICK from \in {"bUnelect", "bReopen", "bUnsync"}, to \in {"bReopen", "bUnsync", "spin"} :
          /\ Goto(c, from, to) /\ UNCHANGED <<Present, mtrr, saved>> /\ pc[c] = from
          /\ from = "bUnelect" => BspIndex' = NoCpu
          /\ from # "bUnelect" => BspIndex' = BspIndex
    BY <1>2 DEF BspUnelect, BspReopen, BspUnsync, Goto
  <2>2. from \notin ApMtrrPcs /\ to \notin ApMtrrPcs
    BY DEF ApMtrrPcs
  <2>3. CASE from = "bUnelect"
    <3>1. At = "bUnelect" /\ At' = "none"
      BY <2>1, <2>3, CpusAssumption DEF SingleBsp, At, Leading, BspPcs
    <3>2. At \notin RunMtrrPcs /\ At' \notin RunMtrrPcs
      BY <3>1 DEF RunMtrrPcs, ProgrammedPcs, OwnerPcs, HandlerPcs
    <3> QED BY <2>1, <2>2, <3>2, MtrrNeutral
  <2>4. CASE from # "bUnelect"
    <3>1. At' = At
      BY <2>1, <2>4, Bystander DEF RunInv, BspPcs
    <3> QED BY <2>1, <2>2, <2>4, <3>1, MtrrNeutral
  <2> QED BY <2>3, <2>4
<1>3. CASE BspSave(c)
  <2>1. /\ Goto(c, "bSave", "bSaved") /\ UNCHANGED <<BspIndex, Present, mtrr, loc>>
        /\ saved' = [saved EXCEPT ![c] = mtrr[CoreOf[c]]]
    BY <1>3 DEF BspSave, MtrrGetAllMtrrs
  <2>2. "bSave" \in BspPcs /\ "bSaved" \in BspPcs
    BY DEF BspPcs
  <2>3. /\ c = BspIndex /\ At = "bSave" /\ At' = "bSaved"
        /\ \A d \in Cpus : pc'[d] = IF d = c THEN "bSaved" ELSE pc[d]
    BY <2>1, <2>2, LeaderMove
  <2>4. ~Programmed /\ ~Programmed'
    BY <2>3 DEF Programmed, ProgrammedPcs, OwnerPcs, HandlerPcs
  <2>5. saved'[c] = "os" /\ \A d \in Cpus \ {c} : saved'[d] = saved[d]
    BY <2>1, <2>4, CoresAssumption DEF MtrrInv, OsOutside, TypeOK
  <2>6. \A d \in Cpus \ {c} : BackedUp(d)' => BackedUp(d)
    BY <2>1, <2>3 DEF BackedUp
  <2>7. \A d \in Cpus : ~Replaced(d)'
    BY <2>3 DEF Replaced, OwnerPcs, HandlerPcs
  <2>8. MtrrTypes' /\ OsOutside' /\ RestoreFits'
    BY <2>1, <2>4 DEF MtrrInv, MtrrTypes, OsOutside, RestoreFits
  <2>9. BackupIsOs' /\ BackupsFit' /\ ReplacedFits'
    BY <2>5, <2>6, <2>7 DEF MtrrInv, BackupIsOs, BackupsFit, ReplacedFits
  <2> QED BY <2>8, <2>9 DEF MtrrInv
<1>4. CASE BspSaved(c)
  <2>1. /\ Goto(c, "bSaved", "bReplace") /\ pc[c] = "bSaved" /\ AllAPsSignalled(c)
        /\ UNCHANGED <<BspIndex, Present, mtrr, saved, loc>>
    BY <1>4 DEF BspSaved, AllBackedUp, Goto
  <2>2. "bSaved" \in BspPcs /\ "bReplace" \in BspPcs
    BY DEF BspPcs
  <2>3. /\ c = BspIndex /\ At = "bSaved" /\ At' = "bReplace"
        /\ \A d \in Cpus : pc'[d] = IF d = c THEN "bReplace" ELSE pc[d]
    BY <2>1, <2>2, LeaderMove
  <2>4. ~Programmed /\ Programmed'
    BY <2>3 DEF Programmed, ProgrammedPcs, OwnerPcs, HandlerPcs
  <2>5. \A d \in Cpus : pc'[d] # "aLoop"
    <3>1. \A d \in Cpus : pc[d] \in EarlyPcs \cup ParkedPcs => pc[d] \in Answered
      BY <2>1, AllAnswered
    <3>2. Answered = {"aReplace"}
      BY <2>3 DEF Answered, GatherPcs
    <3> QED BY <2>3, <3>1, <3>2 DEF ParkedPcs
  <2>6. \A d \in Cpus : BackedUp(d)' => BackedUp(d)
    BY <2>1, <2>3 DEF BackedUp
  <2>7. \A d \in Cpus : ~Replaced(d)'
    BY <2>3, <2>5 DEF Replaced, OwnerPcs, HandlerPcs
  <2>8. \A k \in Cores : mtrr'[k] = "os"
    BY <2>1, <2>4 DEF MtrrInv, OsOutside
  <2>9. MtrrTypes' /\ OsOutside' /\ RestoreFits'
    BY <2>8 DEF MtrrTypes, OsOutside, RestoreFits
  <2>10. BackupIsOs' /\ BackupsFit' /\ ReplacedFits'
    BY <2>1, <2>6, <2>7 DEF MtrrInv, BackupIsOs, BackupsFit, ReplacedFits
  <2> QED BY <2>9, <2>10 DEF MtrrInv
<1>5. CASE BspReplace(c)
  <2>1. /\ Goto(c, "bReplace", "bReplaced") /\ UNCHANGED <<BspIndex, Present, saved, loc>>
        /\ mtrr' = [mtrr EXCEPT ![CoreOf[c]] = "smm"]
    BY <1>5 DEF BspReplace, ReplaceOSMtrrs
  <2>2. "bReplace" \in BspPcs /\ "bReplaced" \in BspPcs
    BY DEF BspPcs
  <2>3. /\ c = BspIndex /\ At = "bReplace" /\ At' = "bReplaced" /\ Leading
        /\ \A d \in Cpus : pc'[d] = IF d = c THEN "bReplaced" ELSE pc[d]
    BY <2>1, <2>2, LeaderMove
  <2>4. Programmed /\ Programmed'
    BY <2>3 DEF Programmed, ProgrammedPcs
  <2>5. \A k \in Cores : mtrr'[k] = IF k = CoreOf[c] THEN "smm" ELSE mtrr[k]
    BY <2>1 DEF TypeOK
  <2>6. c \in Present
    BY <2>3 DEF RunInv, PresentFits
  <2>7. \A d \in Cpus : (ToRestore(d)' <=> d \in Present) /\ (ToRestore(d) <=> d \in Present)
    BY <2>1, <2>3 DEF ToRestore
  <2>8. RestoreFits'
    BY <2>4, <2>5, <2>6, <2>7 DEF MtrrInv, RestoreFits
  <2>9. \A d \in Cpus \ {c} : Replaced(d)' => Replaced(d)
    BY <2>1, <2>3 DEF Replaced, OwnerPcs, HandlerPcs
  <2>10. ReplacedFits'
    BY <2>5, <2>9, CoresAssumption DEF MtrrInv, ReplacedFits
  <2>11. \A d \in Cpus : BackedUp(d)' => BackedUp(d)
    BY <2>1, <2>3 DEF BackedUp, ProgrammedPcs
  <2>12. MtrrTypes' /\ OsOutside' /\ BackupIsOs' /\ BackupsFit'
    BY <2>1, <2>4, <2>5, <2>11 DEF MtrrInv, MtrrTypes, OsOutside, BackupIsOs, BackupsFit
  <2> QED BY <2>8, <2>10, <2>12 DEF MtrrInv
<1>6. CASE BspReplaced(c)
  <2>1. /\ Goto(c, "bReplaced", "handler") /\ pc[c] = "bReplaced" /\ AllAPsSignalled(c)
        /\ UNCHANGED <<BspIndex, Present, mtrr, saved, loc>>
    BY <1>6 DEF BspReplaced, AllReplaced, Goto
  <2>2. "bReplaced" \in BspPcs /\ "handler" \in BspPcs
    BY DEF BspPcs
  <2>3. /\ c = BspIndex /\ At = "bReplaced" /\ At' = "handler" /\ Leading
        /\ \A d \in Cpus : pc'[d] = IF d = c THEN "handler" ELSE pc[d]
    BY <2>1, <2>2, LeaderMove
  <2>4. Programmed' = Programmed
    BY <2>3 DEF Programmed, ProgrammedPcs, OwnerPcs, HandlerPcs
  <2>5. \A d \in Present : Replaced(d)
    <3>1. \A d \in Cpus : pc[d] \in EarlyPcs \cup ParkedPcs => pc[d] \in Answered
      BY <2>1, AllAnswered
    <3>2. Answered = {"aLoop"}
      BY <2>3 DEF Answered, GatherPcs
    <3> QED BY <2>3, <3>1, <3>2 DEF RunInv, PresentFits, Replaced, TypeOK
  <2>6. \A d \in Cpus : BackedUp(d)' => BackedUp(d)
    BY <2>1, <2>3 DEF BackedUp, ProgrammedPcs, OwnerPcs, HandlerPcs
  <2>7. \A d \in Cpus : Replaced(d)' => Replaced(d)
    BY <2>1, <2>3, <2>5 DEF Replaced
  <2>8. \A d \in Cpus : ToRestore(d) => ToRestore(d)'
    BY <2>1, <2>3 DEF ToRestore
  <2> QED BY <2>1, <2>4, <2>6, <2>7, <2>8, MtrrSame
<1>7. CASE BspPresent(c)
  <2>1. pc[c] = "bPresent"
    BY <1>7 DEF BspPresent, Goto
  <2>2. At = "bPresent"
    BY <2>1 DEF SingleBsp, At, Leading, BspPcs
  <2> QED BY <2>2 DEF RunInv, PathFits, LatePcs, Gathers, GatherFirst
<1>8. CASE BspDrain(c) \/ BspLeave(c) \/ BspNotify(c)
  <2>1. PICK from \in ServicePcs, to \in ServicePcs :
          Goto(c, from, to) /\ UNCHANGED <<BspIndex, Present, mtrr, saved, loc>>
    BY <1>8 DEF BspDrain, BspLeave, BspNotify, GatherFirst, ServicePcs, OwnerPcs
  <2> QED BY <2>1, MtrrService
<1>9. CASE BspFinished(c)
  <2>1. /\ Goto(c, "bFinished", "bRestore") /\ pc[c] = "bFinished" /\ AllAPsSignalled(c)
        /\ UNCHANGED <<BspIndex, Present, mtrr, saved, loc>>
    BY <1>9 DEF BspFinished, Goto
  <2>2. "bFinished" \in BspPcs /\ "bRestore" \in BspPcs
    BY DEF BspPcs
  <2>3. /\ c = BspIndex /\ At = "bFinished" /\ At' = "bRestore" /\ Leading
        /\ \A d \in Cpus : pc'[d] = IF d = c THEN "bRestore" ELSE pc[d]
    BY <2>1, <2>2, LeaderMove
  <2>4. Programmed' = Programmed
    BY <2>3 DEF Programmed, ProgrammedPcs
  <2>5. \A d \in Present : d = c \/ pc[d] = "aRestore"
    <3>1. \A d \in Cpus : pc[d] \in EarlyPcs \cup ParkedPcs => pc[d] \in Answered
      BY <2>1, AllAnswered
    <3>2. Answered = {"aRestore"}
      BY <2>3 DEF Answered, GatherPcs
    <3> QED BY <2>3, <3>1, <3>2 DEF RunInv, PresentFits, TypeOK
  <2>6. \A d \in Cpus : BackedUp(d)' => BackedUp(d)
    BY <2>1, <2>3 DEF BackedUp, ProgrammedPcs
  <2>7. \A d \in Cpus : Replaced(d)' => Replaced(d)
    BY <2>3 DEF Replaced, OwnerPcs, HandlerPcs
  <2>8. \A d \in Cpus : ToRestore(d) => ToRestore(d)'
    BY <2>1, <2>3, <2>5 DEF ToRestore
  <2> QED BY <2>1, <2>4, <2>6, <2>7, <2>8, MtrrSame
<1>10. CASE BspRestore(c)
  <2>1. /\ Goto(c, "bRestore", "bRestored") /\ UNCHANGED <<BspIndex, Present, saved, loc>>
        /\ mtrr' = [mtrr EXCEPT ![CoreOf[c]] = saved[c]]
    BY <1>10 DEF BspRestore, MtrrSetAllMtrrs
  <2>2. "bRestore" \in BspPcs /\ "bRestored" \in BspPcs
    BY DEF BspPcs
  <2>3. /\ c = BspIndex /\ At = "bRestore" /\ At' = "bRestored"
        /\ \A d \in Cpus : pc'[d] = IF d = c THEN "bRestored" ELSE pc[d]
    BY <2>1, <2>2, LeaderMove
  <2>4. Programmed /\ Programmed'
    BY <2>3 DEF Programmed, ProgrammedPcs
  <2>5. saved[c] = "os"
    BY <2>3 DEF MtrrInv, BackupsFit, BackedUp, ProgrammedPcs
  <2>6. \A k \in Cores : mtrr'[k] = IF k = CoreOf[c] THEN "os" ELSE mtrr[k]
    BY <2>1, <2>5 DEF TypeOK
  <2>7. \A d \in Cpus \ {c} : ToRestore(d) => ToRestore(d)'
    BY <2>1, <2>3 DEF ToRestore
  <2>8. RestoreFits'
    BY <2>4, <2>6, <2>7 DEF MtrrInv, RestoreFits
  <2>9. \A d \in Cpus : ~Replaced(d)'
    BY <2>3 DEF Replaced, OwnerPcs, HandlerPcs
  <2>10. \A d \in Cpus : BackedUp(d)' => BackedUp(d)
    BY <2>1, <2>3 DEF BackedUp, ProgrammedPcs
  <2>11. MtrrTypes' /\ OsOutside' /\ BackupIsOs' /\ BackupsFit' /\ ReplacedFits'
    BY <2>1, <2>4, <2>6, <2>9, <2>10 DEF MtrrInv, MtrrTypes, OsOutside, BackupIsOs, BackupsFit, ReplacedFits
  <2> QED BY <2>8, <2>11 DEF MtrrInv
<1>11. CASE BspRestored(c)
  <2>1. /\ Goto(c, "bRestored", "bCollect") /\ pc[c] = "bRestored" /\ AllAPsSignalled(c)
        /\ UNCHANGED <<BspIndex, mtrr, saved, loc>>
    BY <1>11 DEF BspRestored, SignalReset, Goto
  <2>2. "bRestored" \in BspPcs /\ "bCollect" \in BspPcs
    BY DEF BspPcs
  <2>3. /\ c = BspIndex /\ At = "bRestored" /\ At' = "bCollect" /\ Leading
        /\ \A d \in Cpus : pc'[d] = IF d = c THEN "bCollect" ELSE pc[d]
    BY <2>1, <2>2, LeaderMove
  <2>4. Programmed /\ ~Programmed'
    BY <2>3 DEF Programmed, ProgrammedPcs, OwnerPcs, HandlerPcs
  <2>5. \A d \in Cpus : ~ToRestore(d)
    <3>1. \A d \in Cpus : pc[d] \in EarlyPcs \cup ParkedPcs => pc[d] \in Answered
      BY <2>1, AllAnswered
    <3>2. Answered = {"aReset"}
      BY <2>3 DEF Answered, GatherPcs
    <3> QED BY <2>3, <3>1, <3>2 DEF ToRestore, ParkedPcs
  <2>6. \A k \in Cores : mtrr'[k] = "os"
    BY <2>1, <2>4, <2>5 DEF MtrrInv, RestoreFits, MtrrTypes
  <2>7. \A d \in Cpus : BackedUp(d)' => BackedUp(d)
    BY <2>1, <2>3 DEF BackedUp, ProgrammedPcs, OwnerPcs, HandlerPcs
  <2>8. \A d \in Cpus : ~Replaced(d)'
    BY <2>3 DEF Replaced, OwnerPcs, HandlerPcs
  <2>9. MtrrTypes' /\ OsOutside' /\ RestoreFits'
    BY <2>4, <2>6 DEF MtrrTypes, OsOutside, RestoreFits
  <2>10. BackupIsOs' /\ BackupsFit' /\ ReplacedFits'
    BY <2>1, <2>7, <2>8 DEF MtrrInv, BackupIsOs, BackupsFit, ReplacedFits
  <2> QED BY <2>9, <2>10 DEF MtrrInv
<1> QED BY <1>1, <1>2, <1>3, <1>4, <1>5, <1>6, <1>7, <1>8, <1>9, <1>10, <1>11 DEF BSPHandler

\* The services the SMI handlers call leave the MTRRs alone.
LEMMA HandlersMtrr ==
    ASSUME TypeOK, SingleBsp, RunInv, MtrrInv, NEW c \in Cpus, SmmHandlers(c)
    PROVE  MtrrInv'
<1> USE DEF slowVars, hwVars, electVars, modeVars, flagVars, cpuData, mtrrVars
<1>1. CASE \/ \E a \in Cpus : SmmStartupThisAp(c, a)
           \/ BlockingDone(c) \/ SmmCpuSyncCheckApArrival(c) \/ HandlerReturns(c)
  <2>1. PICK from \in OwnerPcs, to \in OwnerPcs :
          /\ Goto(c, from, to) /\ UNCHANGED <<BspIndex, Present, mtrr, saved>>
          /\ \A d \in Cpus \ {c} : loc'[d] = loc[d]
          /\ loc'[c].mode = loc[c].mode
    BY <1>1 DEF SmmStartupThisAp, BlockingDone, SmmCpuSyncCheckApArrival, CheckResult, FirstWait, BringIn,
       SecondWait, HandlerReturns, OwnerPcs, HandlerPcs, TypeOK, Locals
  <2> QED BY <2>1, MtrrService DEF ServicePcs
<1>2. CASE \/ \E m \in Modes \cup {"Max"} : SmmSyncSetMode(c, m)
           \/ \E p \in Cpus : SmmSwitchBsp(c, p)
           \/ \E t \in SUBSET Cpus : SmmCpuSync2SendSmi(c, t)
  BY <1>2 DEF SmmSyncSetMode, SmmSwitchBsp, SmmCpuSync2SendSmi, MtrrInv, MtrrTypes, OsOutside, BackupIsOs,
     BackupsFit, BackedUp, ReplacedFits, Replaced, RestoreFits, ToRestore, Programmed, At, Leading
<1> QED BY <1>1, <1>2 DEF SmmHandlers

\* Without MTRR programming no step writes an MTRR.
LEMMA MtrrsLeftAlone ==
    ASSUME TypeOK, SingleBsp, RunInv, ~MtrrsConfigured, NEW c \in Cpus, BSPHandler(c) \/ APHandler(c)
    PROVE  UNCHANGED mtrrVars
<1>1. /\ pc[c] \notin {"aSave", "aReplace", "aRestore"}
      /\ pc[c] \notin {"bSave", "bSaved", "bReplace", "bReplaced", "bRestore", "bRestored"}
  <2>1. pc[c] \in BspPcs => At = pc[c]
    BY DEF SingleBsp, At, Leading
  <2> QED BY <2>1, MtrrsOff DEF BspPcs
<1>2. CASE BSPHandler(c)
  BY <1>1, <1>2 DEF Goto, BSPHandler, BspStart, SmmWaitForApArrival, BspSync, BspLock, BspGather, BspSave, BspSaved,
     BspReplace, BspReplaced, BspDrain, BspPresent, BspLeave, BspNotify, BspFinished, BspRestore,
     BspRestored, BspCollect, BspUnelect, BspReopen, BspUnsync
<1>3. CASE APHandler(c)
  BY <1>1, <1>3 DEF Goto, APHandler, ApSeesBsp, ApTimeout, ApGiveUp, ApEnter, ApSave, ApReplace, ApWake,
     ApProcedureDone, ApRestore, ApReset
<1> QED BY <1>2, <1>3

\* Every step keeps the invariant.
LEMMA MtrrStep ==
    ASSUME TypeOK, SingleBsp, RunInv, RunInv', MtrrInv, [Next]_vars
    PROVE  MtrrInv'
<1>1. CASE RaiseSmi \/ UNCHANGED vars
  BY <1>1 DEF RaiseSmi, vars, slowVars, electVars, mtrrVars, cpuData, MtrrInv, MtrrTypes, OsOutside, BackupIsOs,
     BackupsFit, BackedUp, ReplacedFits, Replaced, RestoreFits, ToRestore, Programmed, At, Leading
<1>2. ASSUME NEW c \in Cpus, BSPHandler(c) \/ APHandler(c) PROVE MtrrInv'
  <2>1. CASE MtrrsConfigured
    BY <1>2, <2>1, BspMtrr, ApMtrr
  <2>2. CASE ~MtrrsConfigured
    <3>1. mtrr' = mtrr /\ saved' = saved
      BY <1>2, <2>2, MtrrsLeftAlone DEF mtrrVars
    <3> QED BY <2>2, <3>1, MtrrOffStep
  <2> QED BY <2>1, <2>2
<1> QED BY <1>1, <1>2, RendezvousMtrr, HandlersMtrr DEF Next

\* From the first ReplaceOSMtrrs() of a run to the last MtrrSetAllMtrrs(), each CPU has
\* the OS's MTRRs in its backup and each core still has a CPU that will restore them;
\* outside, every core holds the OS's.
THEOREM MtrrsCorrect ==
    ASSUME CleanGiveUp
    PROVE  Spec => []MtrrInv
<1>1. Init => MtrrInv
  <2> SUFFICES ASSUME Init PROVE MtrrInv
    OBVIOUS
  <2>1. /\ \A k \in Cores : mtrr[k] = "os"
        /\ \A c \in Cpus : saved[c] = "none" /\ pc[c] = "normal"
        /\ BspIndex = NoCpu
    BY DEF Init, InitializeMpSyncData
  <2>2. At = "none"
    BY <2>1, CpusAssumption DEF At, Leading
  <2>3. ~Programmed /\ \A c \in Cpus : ~BackedUp(c) /\ ~Replaced(c)
    BY <2>1, <2>2 DEF Programmed, BackedUp, Replaced, ProgrammedPcs, OwnerPcs, HandlerPcs
  <2> QED BY <2>1, <2>3 DEF MtrrInv, MtrrTypes, OsOutside, BackupIsOs, BackupsFit, ReplacedFits, RestoreFits
<1>2. TypeOK /\ SingleBsp /\ RunInv /\ RunInv' /\ MtrrInv /\ [Next]_vars => MtrrInv'
  BY MtrrStep
<1> QED BY <1>1, <1>2, RunCorrect, TypeCorrect, OnlyOneBsp, PTL DEF Spec

\* No CPU backs up MTRRs that its HT sibling has already programmed for SMM.
THEOREM BackupsAreTheOs ==
    ASSUME CleanGiveUp
    PROVE  Spec => []BackupIsOs
<1>1. MtrrInv => BackupIsOs
  BY DEF MtrrInv
<1> QED BY <1>1, MtrrsCorrect, PTL

\* SMI handlers and scheduled procedures run with SMM MTRRs on every core of the run.
THEOREM HandlersRunWithSmmMtrrs ==
    ASSUME CleanGiveUp
    PROVE  Spec => []HandlersSeeSmmMtrrs
<1>1. ASSUME TypeOK, SingleBsp, RunInv, MtrrInv PROVE HandlersSeeSmmMtrrs
  <2> SUFFICES ASSUME MtrrsConfigured, NEW b \in Cpus, pc[b] \in HandlerPcs \cup {"aProc"},
                      NEW c \in Present
               PROVE  mtrr[CoreOf[c]] = "smm"
    BY DEF HandlersSeeSmmMtrrs
  <2>1. At \in OwnerPcs
    <3>1. CASE pc[b] \in HandlerPcs
      <4>1. pc[b] \in BspPcs /\ pc[b] \in OwnerPcs
        BY <3>1 DEF HandlerPcs, BspPcs, OwnerPcs
      <4> QED BY <1>1, <4>1 DEF SingleBsp, At, Leading
    <3>2. CASE pc[b] = "aProc"
      BY <1>1, <3>2 DEF RunInv, BusyFits, ParkedPcs
    <3> QED BY <3>1, <3>2
  <2>2. c \in Cpus /\ Replaced(c)
    BY <1>1, <2>1 DEF Replaced, TypeOK
  <2> QED BY <1>1, <2>2 DEF MtrrInv, ReplacedFits
<1> QED BY <1>1, MtrrsCorrect, RunCorrect, TypeCorrect, OnlyOneBsp, PTL

-----------------------------------------------------------------------------
\* A step of a CPU outside BSPHandler, which neither leaves SMM nor opens the way out.
LEMMA GatheredAside ==
    ASSUME TypeOK, RunInv, GatheredFits, NEW c \in Cpus, NEW from, NEW to, Goto(c, from, to),
           from \notin BspPcs, to \notin BspPcs \cup {"normal", "bUnsync"},
           UNCHANGED <<BspIndex, AllCpusInSync>>, \A d \in Cpus \ {c} : loc'[d] = loc[d],
           \A d \in Cpus \ {c} : d \in smi => d \in smi',
           to = "spin" /\ Gathered => AllCpusInSync
    PROVE  GatheredFits'
<1>1. /\ Leading' = Leading /\ (Leading => c # BspIndex) /\ At' = At
      /\ \A d \in Cpus : pc'[d] = IF d = c THEN to ELSE pc[d]
  BY Bystander DEF RunInv
<1>2. Gathered' = Gathered
  BY <1>1 DEF Gathered, Gathers, GatherFirst, Leading
<1> QED BY <1>1, <1>2 DEF GatheredFits

\* A step of the BSP once AllCpusInSync is set.
LEMMA GatheredLead ==
    ASSUME TypeOK, SingleBsp, RunInv, GatheredFits, NEW c \in Cpus, NEW from \in BspPcs,
           NEW to \in BspPcs, Goto(c, from, to),
           from \notin {"bStart", "bArrive1", "bIpi", "bArrive2", "bSync"}, to # "bIpi",
           UNCHANGED <<BspIndex, AllCpusInSync>>, smi \subseteq smi',
           \A d \in Cpus \ {c} : loc'[d] = loc[d], loc'[c].mode = loc[c].mode
    PROVE  GatheredFits'
<1>1. /\ c = BspIndex /\ Leading /\ Leading' /\ At = from /\ At' = to
      /\ \A d \in Cpus : pc'[d] = IF d = c THEN to ELSE pc[d]
      /\ Gathers' = Gathers
  BY LeaderMove
<1>2. Gathered' => Gathered
  BY <1>1 DEF Gathered
<1>3. to \notin {"bUnsync", "spin", "normal"}
  BY DEF BspPcs
<1> QED BY <1>1, <1>2, <1>3 DEF GatheredFits

\* Nobody is outside when Counter has reached the number of processors.
LEMMA NobodyOutside ==
    ASSUME TypeOK, SingleBsp, RunInv, Leading, Open, Counter \notin 0 .. NumberOfCpus - 1
    PROVE  \A c \in Cpus : pc[c] \in JoinedPcs
<1>1. IsFiniteSet(Cpus) /\ NumberOfCpus \in Nat /\ Joined \subseteq Cpus
  BY CpusAssumption, FS_CardinalityType DEF NumberOfCpus, Joined
<1>2. ~Closing
  BY CpusAssumption DEF RunInv, ClosingFits, Closing, Leading
<1>3. Counter = Cardinality(Joined) /\ Counter \in Nat
  BY <1>2, JoinedCount DEF RunInv, CounterFits
<1>4. Cardinality(Joined) <= NumberOfCpus
  BY <1>1, FS_Subset DEF NumberOfCpus
<1>5. Counter = NumberOfCpus
  BY <1>1, <1>3, <1>4
<1> QED BY <1>5, AllJoined DEF AllCpusInSmm

\* Who enters SMM, checks in, is refused or elected, or exits, keeps it gathered.
LEMMA RendezvousGathered ==
    ASSUME TypeOK, SingleBsp, RunInv, GatheredFits, NEW c \in Cpus, SmiRendezvous(c)
    PROVE  GatheredFits'
<1> USE DEF slowVars, hwVars, electVars, modeVars, flagVars, cpuData, mtrrVars, BspPcs
<1>1. CASE EnterSmi(c)
  BY <1>1, GatheredAside DEF EnterSmi, TypeOK
<1>2. CASE CheckIn(c)
  <2>1. PICK to \in {"spin", "aTimer1", "elect"} :
          /\ Goto(c, "checkin", to) /\ UNCHANGED <<BspIndex, AllCpusInSync, smi>>
          /\ \A d \in Cpus \ {c} : loc'[d] = loc[d]
          /\ to = "spin" => Counter = -1
    BY <1>2 DEF CheckIn, ReleaseSemaphore, TypeOK
  <2>2. ASSUME Counter = -1, Gathered PROVE AllCpusInSync
    <3>1. ~Closing
      BY <2>2, CpusAssumption DEF RunInv, ClosingFits, Closing, Gathered, Leading
    <3>2. ~Open
      BY <2>2, <3>1, JoinedCount DEF RunInv, CounterFits
    <3>3. At \notin {"bIpi", "bArrive2", "bSync"}
      BY <3>2 DEF Open, GatherPcs
    <3> QED BY <2>2, <3>3 DEF GatheredFits
  <2> QED BY <2>1, <2>2, GatheredAside
<1>3. CASE Elect(c) \/ (CasBsp(c) /\ BspIndex # NoCpu)
  BY <1>3, GatheredAside DEF Elect, CasBsp, CompareExchangeBsp
<1>4. CASE CasBsp(c) /\ BspIndex = NoCpu
  BY <1>4 DEF CasBsp, CompareExchangeBsp, GatheredFits, Gathered, Leading, Goto, TypeOK
<1>5. CASE TakeRole(c) /\ BspIndex # c
  BY <1>5, GatheredAside DEF TakeRole, TypeOK
<1>6. CASE TakeRole(c) /\ BspIndex = c
  <2>1. At' = "bStart"
    BY <1>6 DEF TakeRole, Goto, TypeOK, At, Leading
  <2> QED BY <2>1 DEF GatheredFits, Gathered
<1>7. CASE ExitSmi(c)
  <2>1. /\ Goto(c, "spin", "normal") /\ UNCHANGED <<BspIndex, loc>> /\ ~AllCpusInSync
    BY <1>7 DEF ExitSmi, BspSignalsExit
  <2>2. Leading' = Leading /\ At' = At /\ pc[c] = "spin"
    BY <2>1, Bystander DEF RunInv
  <2>3. Gathered' = Gathered
    BY <2>1, <2>2 DEF Gathered, Gathers, GatherFirst
  <2> QED BY <2>1, <2>2, <2>3 DEF GatheredFits
<1> QED BY <1>1, <1>2, <1>3, <1>4, <1>5, <1>6, <1>7 DEF SmiRendezvous

\* An AP keeps it gathered: none gives up once the BSP is inside, and one that resets
\* finds AllCpusInSync set.
LEMMA ApGathered ==
    ASSUME TypeOK, SingleBsp, RunInv, GatheredFits, NEW c \in Cpus, APHandler(c)
    PROVE  GatheredFits'
<1> USE DEF slowVars, hwVars, electVars, modeVars, flagVars, cpuData, mtrrVars, BspPcs
<1>1. CASE ApGiveUp(c)
  <2>1. /\ Goto(c, "aGiveUp", "spin") /\ pc[c] = "aGiveUp" /\ UNCHANGED <<BspIndex, AllCpusInSync, smi>>
        /\ \A d \in Cpus \ {c} : loc'[d] = loc[d]
    BY <1>1 DEF ApGiveUp, Goto, TypeOK
  <2>2. At \in {"none", "bStart"}
    BY <2>1, EarlyStays DEF EarlyPcs, Arriving, GatherPcs, LatePcs, OwnerPcs, HandlerPcs
  <2>3. ~Gathered
    BY <2>2 DEF Gathered, At, Leading
  <2> QED BY <2>1, <2>3, GatheredAside
<1>2. CASE ApReset(c)
  <2>1. /\ Goto(c, "aReset", "spin") /\ pc[c] = "aReset" /\ Run[c] # 0
        /\ UNCHANGED <<BspIndex, AllCpusInSync, smi>>
        /\ \A d \in Cpus \ {c} : loc'[d] = loc[d]
    BY <1>2 DEF ApReset, Goto, Handshake, TypeOK
  <2>2. At = "bCollect"
    BY <2>1, Woken DEF ParkedPcs, Asked
  <2> QED BY <2>1, <2>2, GatheredAside DEF GatheredFits
<1>3. CASE ApSeesBsp(c) \/ ApTimeout(c) \/ ApEnter(c)
  BY <1>3, GatheredAside DEF ApSeesBsp, ApTimeout, ApEnter, TypeOK
<1>4. CASE ApSave(c) \/ ApReplace(c) \/ ApWake(c) \/ ApProcedureDone(c) \/ ApRestore(c)
  BY <1>4, GatheredAside DEF ApSave, ApReplace, ApWake, ApProcedureDone, ApRestore
<1> QED BY <1>1, <1>2, <1>3, <1>4 DEF APHandler

\* The BSP keeps it gathered: it goes on from the first wait when all CPUs are in or its
\* timer has outlasted everybody who still moves, and sends an SMI to the rest.
LEMMA BspGathered ==
    ASSUME LongTimeouts, TypeOK, SingleBsp, RunInv, GatheredFits, NEW c \in Cpus, BSPHandler(c)
    PROVE  GatheredFits'
<1> USE DEF slowVars, hwVars, electVars, modeVars, flagVars, cpuData, mtrrVars
<1>1. CASE BspStart(c)
  <2>1. PICK to \in {"bArrive1", "handler"} :
          /\ Goto(c, "bStart", to) /\ UNCHANGED <<BspIndex, loc>>
          /\ to = "handler" => ~GatherFirst(c)
    BY <1>1 DEF BspStart
  <2>2. "bStart" \in BspPcs /\ to \in BspPcs
    BY DEF BspPcs
  <2>3. c = BspIndex /\ At' = to /\ Gathers' = Gathers
    BY <2>1, <2>2, LeaderMove
  <2> QED BY <2>1, <2>3 DEF GatheredFits, Gathered, Gathers
<1>2. CASE SmmWaitForApArrival(c)
  <2>1. PICK from \in {"bArrive1", "bIpi", "bArrive2"}, to \in {"bIpi", "bArrive2", "bSync"} :
          /\ Goto(c, from, to) /\ pc[c] = from
          /\ UNCHANGED <<BspIndex, AllCpusInSync, loc>>
          /\ from = "bArrive1" => to = "bIpi" /\ (AllCpusInSmm \/ IsSyncTimerTimeout(c))
          /\ from = "bArrive2" => to = "bSync" /\ smi' = smi
          /\ from = "bIpi" => \/ smi' = smi \cup (Cpus \ Present)
                             \/ Counter \notin 0 .. NumberOfCpus - 1
          /\ from = "bIpi" => to # "bIpi"
    BY <1>2 DEF SmmWaitForApArrival, FirstWait, BringIn, SendSmiIpis, SecondWait, Goto
  <2>2. from \in BspPcs /\ to \in BspPcs
    BY DEF BspPcs
  <2>3. /\ c = BspIndex /\ Leading /\ Leading' /\ At = from /\ At' = to
        /\ \A d \in Cpus : pc'[d] = IF d = c THEN to ELSE pc[d]
        /\ Gathers' = Gathers
    BY <2>1, <2>2, LeaderMove
  <2>4. Gathers
    BY <2>3 DEF RunInv, PathFits, GatherPcs
  <2>5. CASE from = "bArrive1"
    <3>1. CASE AllCpusInSmm
      <4>1. \A d \in Cpus : pc[d] \in JoinedPcs
        BY <2>3, <3>1, AllJoined
      <4>2. \A d \in Cpus : pc'[d] \notin {"bUnsync", "spin"}
        BY <2>3, <4>1 DEF JoinedPcs, EntryPcs, BspPcs, ApPcs
      <4> QED BY <2>1, <2>3, <2>5, <4>2 DEF GatheredFits
    <3>2. CASE IsSyncTimerTimeout(c)
      <4>1. \A d \in Cpus \ {c} : Waiting(d)
        BY <3>2 DEF IsSyncTimerTimeout
      <4>2. \A d \in Cpus : pc'[d] # "bUnsync" /\ (pc'[d] = "spin" => AllCpusInSync)
        BY <2>1, <2>3, <4>1 DEF Waiting
      <4> QED BY <2>1, <2>3, <2>5, <4>2 DEF GatheredFits
    <3> QED BY <2>1, <2>5, <3>1, <3>2
  <2>6. CASE from = "bIpi"
    <3>0. Gathered
      BY <2>3, <2>4, <2>6 DEF Gathered
    <3>1. \A d \in Cpus : pc'[d] = "normal" => d \in smi'
      <4>1. CASE smi' = smi \cup (Cpus \ Present)
        <5>1. \A d \in Cpus : pc'[d] = "normal" => d \notin Present
          BY <2>1, <2>3 DEF RunInv, PresentFits, ParkedPcs
        <5> QED BY <4>1, <5>1
      <4>2. CASE Counter \notin 0 .. NumberOfCpus - 1
        <5>1. Open
          BY <2>3, <2>6 DEF Open, GatherPcs
        <5>2. \A d \in Cpus : pc[d] \in JoinedPcs
          BY <2>3, <4>2, <5>1, NobodyOutside
        <5> QED BY <2>1, <2>3, <5>2 DEF JoinedPcs, EntryPcs, BspPcs, ApPcs
      <4> QED BY <2>1, <2>6, <4>1, <4>2
    <3>2. \A d \in Cpus : pc'[d] # "bUnsync" /\ (pc'[d] = "spin" => AllCpusInSync)
      BY <2>3, <3>0 DEF GatheredFits
    <3> QED BY <2>1, <2>3, <2>6, <3>1, <3>2 DEF GatheredFits
  <2>7. CASE from = "bArrive2"
    <3>0. Gathered
      BY <2>3, <2>4, <2>7 DEF Gathered
    <3> QED BY <2>1, <2>3, <2>7, <3>0 DEF GatheredFits
  <2> QED BY <2>5, <2>6, <2>7
<1>3. CASE BspSync(c)
  <2>1. PICK from \in {"bSync", "bSyncLate"}, to \in {"bLock", "bLockLate"} :
          /\ Goto(c, from, to) /\ UNCHANGED <<BspIndex, smi, loc>> /\ AllCpusInSync' = TRUE
          /\ from = "bSyncLate" => to = "bLockLate"
    BY <1>3 DEF BspSync
  <2>2. from \in BspPcs /\ to \in BspPcs
    BY DEF BspPcs
  <2>3. /\ c = BspIndex /\ Leading /\ At = from /\ At' = to
        /\ \A d \in Cpus : pc'[d] = IF d = c THEN to ELSE pc[d]
        /\ Gathers' = Gathers
    BY <2>1, <2>2, LeaderMove
  <2>4. Gathered' => Gathered
    BY <2>3 DEF Gathered
  <2> QED BY <2>1, <2>3, <2>4 DEF GatheredFits
<1>4. CASE BspLock(c)
  <2>1. PICK from \in {"bLock", "bLockLate"}, to \in {"bGather", "bPresent"} :
          /\ Goto(c, from, to) /\ UNCHANGED <<BspIndex, AllCpusInSync, smi>>
          /\ \A d \in Cpus \ {c} : loc'[d] = loc[d]
          /\ loc'[c].mode = loc[c].mode
    BY <1>4 DEF BspLock, TypeOK, Locals
  <2>2. from \in BspPcs /\ to \in BspPcs
    BY DEF BspPcs
  <2> QED BY <2>1, <2>2, GatheredLead
<1>5. CASE \/ BspGather(c) \/ BspSave(c) \/ BspSaved(c) \/ BspReplace(c) \/ BspReplaced(c)
           \/ BspDrain(c) \/ BspPresent(c) \/ BspLeave(c) \/ BspNotify(c) \/ BspFinished(c)
           \/ BspRestore(c) \/ BspRestored(c) \/ BspCollect(c)
  <2>1. PICK from \in BspPcs, to \in BspPcs :
          /\ Goto(c, from, to) /\ UNCHANGED <<BspIndex, AllCpusInSync, smi, loc>>
          /\ from \notin {"bStart", "bArrive1", "bIpi", "bArrive2", "bSync"} /\ to # "bIpi"
    <3>1. CASE BspGather(c) \/ BspSave(c) \/ BspSaved(c) \/ BspReplace(c) \/ BspReplaced(c)
      BY <3>1 DEF BspGather, BspSave, BspSaved, BspReplace, BspReplaced, BspPcs
    <3>2. CASE BspDrain(c) \/ BspPresent(c) \/ BspLeave(c) \/ BspNotify(c) \/ BspFinished(c)
      BY <3>2 DEF BspDrain, BspPresent, BspLeave, BspNotify, BspFinished, SignalReset, BspPcs
    <3>3. CASE BspRestore(c) \/ BspRestored(c) \/ BspCollect(c)
      BY <3>3 DEF BspRestore, BspRestored, SignalReset, BspCollect, BspPcs
    <3> QED BY <1>5, <3>1, <3>2, <3>3
  <2> QED BY <2>1, GatheredLead
<1>6. CASE BspUnelect(c)
  <2>1. ~Leading'
    BY <1>6, CpusAssumption DEF BspUnelect, Leading
  <2> QED BY <2>1 DEF GatheredFits, Gathered
<1>7. CASE BspReopen(c)
  <2>1. Goto(c, "bReopen", "bUnsync") /\ UNCHANGED BspIndex
    BY <1>7 DEF BspReopen
  <2>2. BspIndex = NoCpu
    BY <2>1 DEF RunInv, ClosingFits, Goto
  <2>3. ~Leading'
    BY <2>1, <2>2, CpusAssumption DEF Leading
  <2> QED BY <2>3 DEF GatheredFits, Gathered
<1>8. CASE BspUnsync(c)
  <2>1. /\ Goto(c, "bUnsync", "spin") /\ pc[c] = "bUnsync" /\ UNCHANGED BspIndex
        /\ \A d \in Cpus \ {c} : loc'[d] = loc[d]
    BY <1>8 DEF BspUnsync, Goto, TypeOK
  <2>2. /\ Leading' = Leading /\ (Leading => c # BspIndex) /\ At' = At
    BY <2>1, Bystander DEF RunInv, BspPcs
  <2>3. Gathered' = Gathered
    BY <2>1, <2>2 DEF Gathered, Gathers, GatherFirst, Leading
  <2>4. ~Gathered
    BY <2>1 DEF GatheredFits
  <2> QED BY <2>3, <2>4 DEF GatheredFits
<1> QED BY <1>1, <1>2, <1>3, <1>4, <1>5, <1>6, <1>7, <1>8 DEF BSPHandler

\* The services leave AllCpusInSync and the latched SMIs of the others alone.
LEMMA HandlersGathered ==
    ASSUME TypeOK, SingleBsp, RunInv, GatheredFits, NEW c \in Cpus, SmmHandlers(c)
    PROVE  GatheredFits'
<1> USE DEF slowVars, hwVars, electVars, modeVars, flagVars, cpuData, mtrrVars
<1>1. CASE \/ \E a \in Cpus : SmmStartupThisAp(c, a)
           \/ BlockingDone(c) \/ SmmCpuSyncCheckApArrival(c) \/ HandlerReturns(c)
  <2>1. PICK from \in OwnerPcs, to \in OwnerPcs :
          /\ Goto(c, from, to) /\ UNCHANGED <<BspIndex, AllCpusInSync>> /\ smi \subseteq smi'
          /\ \A d \in Cpus \ {c} : loc'[d] = loc[d]
          /\ loc'[c].mode = loc[c].mode
    BY <1>1 DEF SmmStartupThisAp, BlockingDone, SmmCpuSyncCheckApArrival, CheckResult, FirstWait, BringIn,
       SendSmiIpis, SecondWait, HandlerReturns, OwnerPcs, HandlerPcs, TypeOK, Locals
  <2>2. /\ from \in BspPcs /\ to \in BspPcs /\ to # "bIpi"
        /\ from \notin {"bStart", "bArrive1", "bIpi", "bArrive2", "bSync"}
    BY DEF OwnerPcs, HandlerPcs, BspPcs
  <2> QED BY <2>1, <2>2, GatheredLead
<1>2. CASE \/ \E m \in Modes \cup {"Max"} : SmmSyncSetMode(c, m)
           \/ \E p \in Cpus : SmmSwitchBsp(c, p)
           \/ \E t \in SUBSET Cpus : SmmCpuSync2SendSmi(c, t)
  <2>1. UNCHANGED <<pc, loc, BspIndex, AllCpusInSync>> /\ smi \subseteq smi'
    BY <1>2 DEF SmmSyncSetMode, SmmSwitchBsp, SmmCpuSync2SendSmi
  <2> QED BY <2>1 DEF GatheredFits, Gathered, Gathers, GatherFirst, At, Leading
<1> QED BY <1>1, <1>2 DEF SmmHandlers

\* Every step of a system with long enough timeouts keeps a gathered run gathered.
LEMMA GatheredStep ==
    ASSUME LongTimeouts, TypeOK, SingleBsp, RunInv, GatheredFits, [Next]_vars
    PROVE  GatheredFits'
<1>1. CASE RaiseSmi \/ UNCHANGED vars
  <2>1. UNCHANGED <<pc, loc, BspIndex, AllCpusInSync>> /\ smi \subseteq smi'
    BY <1>1 DEF RaiseSmi, vars, slowVars, hwVars, electVars, flagVars, TypeOK
  <2> QED BY <2>1 DEF GatheredFits, Gathered, Gathers, GatherFirst, At, Leading
<1> QED BY <1>1, RendezvousGathered, BspGathered, ApGathered, HandlersGathered DEF Next

\* With LongTimeouts, what SmmWaitForApArrival() achieves lasts until the BSP gives
\* BspIndex back.
THEOREM GatheredCorrect ==
    ASSUME CleanGiveUp, LongTimeouts
    PROVE  Spec => []GatheredFits
<1>1. Init => GatheredFits
  BY CpusAssumption DEF Init, InitializeMpSyncData, GatheredFits, Gathered, Leading
<1>2. TypeOK /\ SingleBsp /\ RunInv /\ GatheredFits /\ [Next]_vars => GatheredFits'
  BY GatheredStep
<1> QED BY <1>1, <1>2, RunCorrect, TypeCorrect, OnlyOneBsp, PTL DEF Spec

\* A BSP in the handlers of a gathered run has gathered.
LEMMA InHandlers ==
    ASSUME SingleBsp, NEW b \in Cpus, pc[b] \in HandlerPcs, GatherFirst(b)
    PROVE  /\ Gathered /\ b = BspIndex /\ At = pc[b]
           /\ At \notin {"bIpi", "bArrive2", "bSync"}
<1>1. pc[b] \in BspPcs /\ pc[b] \notin {"bStart", "bArrive1", "bIpi", "bArrive2", "bSync"}
  BY DEF HandlerPcs, BspPcs
<1>2. b = BspIndex
  BY <1>1 DEF SingleBsp
<1>3. Leading /\ At = pc[b] /\ Gathers
  BY <1>1, <1>2 DEF At, Leading, Gathers
<1> QED BY <1>1, <1>2, <1>3 DEF Gathered

\* While the SMI handlers of a gathered run are at work, no CPU executes normal-mode
\* code: what SmmWaitForApArrival() is for.
THEOREM NoNormalModeCodeBesideHandlers ==
    ASSUME CleanGiveUp, LongTimeouts
    PROVE  Spec => []NoNormalModeCode
<1>1. ASSUME SingleBsp, GatheredFits PROVE NoNormalModeCode
  BY <1>1, InHandlers DEF NoNormalModeCode, GatheredFits
<1> QED BY <1>1, GatheredCorrect, OnlyOneBsp, PTL

\* A CPU executing normal-mode code has the OS's MTRRs, though an HT sibling in SMM may
\* share them.
THEOREM OsRunsWithItsMtrrs ==
    ASSUME CleanGiveUp, LongTimeouts
    PROVE  Spec => []OsSeesOsMtrrs
<1>1. ASSUME TypeOK, MtrrInv, GatheredFits PROVE OsSeesOsMtrrs
  <2> SUFFICES ASSUME NEW c \in Cpus, pc[c] = "normal", c \notin smi
               PROVE  mtrr[CoreOf[c]] = "os"
    BY DEF OsSeesOsMtrrs
  <2>1. CASE Programmed
    <3>1. Leading /\ At \notin {"bStart", "bArrive1", "bIpi"}
      BY <2>1 DEF Programmed, ProgrammedPcs, OwnerPcs, HandlerPcs, At
    <3>2. Gathers
      BY <2>1 DEF Programmed, Gathers, GatherFirst
    <3> QED BY <1>1, <3>1, <3>2 DEF GatheredFits, Gathered
  <2>2. CASE ~Programmed
    BY <1>1, <2>2, CoresAssumption DEF MtrrInv, OsOutside
  <2> QED BY <2>1, <2>2
<1> QED BY <1>1, GatheredCorrect, MtrrsCorrect, TypeCorrect, PTL

\* Only ExitSmi leads from the last loop of SmiRendezvous() to normal mode.
LEMMA OnlyExit ==
    ASSUME TypeOK, [Next]_vars, NEW c \in Cpus, pc[c] = "spin", pc'[c] = "normal"
    PROVE  ~AllCpusInSync
<1>1. ~UNCHANGED pc
  BY DEF TypeOK
<1>2. PICK d \in Cpus : SmiRendezvous(d) \/ BSPHandler(d) \/ APHandler(d) \/ SmmHandlers(d)
  BY <1>1 DEF Next, RaiseSmi, vars
<1>3. ASSUME NEW from, NEW to, Goto(d, from, to) PROVE d = c /\ from = "spin" /\ to = "normal"
  BY <1>3 DEF Goto, TypeOK
<1>4. CASE SmiRendezvous(d)
  BY <1>3, <1>4 DEF SmiRendezvous, EnterSmi, CheckIn, Elect, CasBsp, TakeRole, ExitSmi, BspSignalsExit
<1>5. CASE BSPHandler(d)
  BY <1>3, <1>5 DEF BSPHandler, BspStart, SmmWaitForApArrival, FirstWait, BringIn, SecondWait, BspSync, BspLock,
     BspGather, BspSave, BspSaved, BspReplace, BspReplaced, BspDrain, BspPresent, BspLeave, BspNotify,
     BspFinished, SignalReset, BspRestore, BspRestored, BspCollect, BspUnelect, BspReopen, BspUnsync
<1>6. CASE APHandler(d)
  BY <1>3, <1>6 DEF APHandler, ApSeesBsp, ApTimeout, ApGiveUp, ApEnter, ApSave, ApReplace, ApWake,
     ApProcedureDone, ApRestore, ApReset
<1>7. CASE SmmHandlers(d)
  BY <1>1, <1>3, <1>7 DEF SmmHandlers, SmmStartupThisAp, BlockingDone, SmmSyncSetMode, SmmSwitchBsp,
     SmmCpuSync2SendSmi, SmmCpuSyncCheckApArrival, FirstWait, BringIn, SecondWait, HandlerReturns
<1> QED BY <1>2, <1>4, <1>5, <1>6, <1>7

\* No CPU runs PlatformSmmExitProcessing() while the handlers of a gathered run are at
\* work.
THEOREM NobodyExitsUnderTheHandlers ==
    ASSUME CleanGiveUp, LongTimeouts
    PROVE  Spec => QuietExit
<1>1. TypeOK /\ SingleBsp /\ GatheredFits /\ [Next]_vars =>
        [(\E c \in Cpus : pc[c] = "spin" /\ pc'[c] = "normal")
            => ~ \E b \in Cpus : pc[b] \in HandlerPcs /\ GatherFirst(b)]_vars
  <2> SUFFICES ASSUME TypeOK, SingleBsp, GatheredFits, [Next]_vars,
                      NEW c \in Cpus, pc[c] = "spin", pc'[c] = "normal",
                      NEW b \in Cpus, pc[b] \in HandlerPcs, GatherFirst(b)
               PROVE  FALSE
    OBVIOUS
  <2>1. ~AllCpusInSync
    BY OnlyExit
  <2>2. Gathered /\ At \notin {"bIpi", "bArrive2", "bSync"}
    BY InHandlers
  <2> QED BY <2>1, <2>2 DEF GatheredFits
<1> QED BY <1>1, GatheredCorrect, TypeCorrect, OnlyOneBsp, PTL DEF Spec, QuietExit
=====
