------------------------ MODULE OhciTransfersProofs ------------------------
(***************************************************************************)
(* Proofs about OhciTransfers.  StructInv says who owns each descriptor;   *)
(* the types, what the HC finds on its lists when a frame begins and the   *)
(* polling rate follow from it.  ToggleInv adds what the descriptors say   *)
(* of toggles.                                                             *)
(***************************************************************************)
EXTENDS OhciTransfers, WellFoundedInduction, NaturalsInduction, FiniteSetTheorems,
        SequenceTheorems, TLAPS

TdSet == [cc : Codes, toggle : Toggles]
Nodes == (0 .. 5) \X Nat
EdSet == [ep : Endpoints \cup {NoEndpoint}, interval : 1 .. 255, node : Nodes,
          tds : Seq(TdSet), next : Nat, Halted : BOOLEAN, ToggleCarry : Toggles,
          allocated : BOOLEAN]
CallSet == [fn : {"none", "sync", "bulkStop", "bulk", "bulkFree", "freeContext", "freeEd",
                  "enable"},
            ed : Nat, ep : Endpoints \cup {NoEndpoint}, toggle : Toggles]

\* The types of the variables, and which EDs and transfers the lists hold.
Types ==
    /\ Ed \in Seq(EdSet)
    /\ InterruptSchedule \subseteq DOMAIN Ed
    /\ InterruptContextList \subseteq InterruptSchedule
    /\ PeriodicEnable \in BOOLEAN
    /\ BulkHead \in Nat
    /\ DataToggle \in [Endpoints -> Toggles]
    /\ deviceToggle \in [Endpoints -> Toggles]
    /\ call \in CallSet
    /\ Entry \in InterruptContextList \cup {NULL}

\* The first TD that has not gone well.
First(ed) == IF ed.Halted THEN ed.next - 1 ELSE ed.next

\* The TDs before the first bad one went well, the ones from next on were not
\* executed, and between the two is, when the ED is halted, the one that failed.
Progress(ed) ==
    /\ ed.next \in 1 .. Len(ed.tds) + 1
    /\ ed.Halted => ed.next > 1 /\ ed.tds[ed.next - 1].cc \in {"STALL", "ERROR"}
    /\ \A i \in 1 .. Len(ed.tds) :
         /\ i < First(ed) => ed.tds[i].cc = "NO_ERROR"
         /\ i >= ed.next => ed.tds[i].cc = "TOBE_PROCESSED"

\* The list an ED hangs on is a list of its depth, and that depth is visited at
\* least once in an interval.
InTree(ed) ==
    /\ 2^(5 - ed.node[1]) <= ed.interval
    /\ ed.node[2] < 2^(5 - ed.node[1])

\* Both for every ED.
EdsFit == \A n \in DOMAIN Ed : Progress(Ed[n]) /\ InTree(Ed[n])

\* An endpoint has one transfer at a time.
OneEach ==
    \A m, n \in DOMAIN Ed : Ed[m].ep = Ed[n].ep => m = n \/ Ed[n].ep = NoEndpoint

\* The ED of the synchronous call, and the ED a cancel is about to free.
InSync(n) == call.fn \in {"sync", "bulk", "bulkFree"} /\ n = call.ed
InCancel(n) == call.fn \in {"freeContext", "freeEd"} /\ Ed[n].ep = call.ep

\* Every ED in use is in the list of asynchronous transfers, or belongs to the
\* synchronous call, or to the cancel; what is scheduled is in use; what is in the
\* list has its TDs.
Places ==
    /\ \A n \in DOMAIN Ed :
         Ed[n].ep # NoEndpoint => n \in InterruptContextList \/ InSync(n) \/ InCancel(n)
    /\ \A n \in InterruptSchedule : Ed[n].ep \in InterruptEndpoints
    /\ \A n \in InterruptContextList : Ed[n].allocated /\ Len(Ed[n].tds) > 0

\* What each place of the caller says of the descriptors and the enable bits.
CallFits ==
    /\ call.fn = "none" => call = NoCall
    /\ call.fn \in {"sync", "bulk", "bulkFree"} =>
         /\ call.ed \in DOMAIN Ed \ InterruptContextList
         /\ Ed[call.ed].ep = call.ep
         /\ Ed[call.ed].allocated
         /\ Len(Ed[call.ed].tds) > 0
    /\ call.fn \in {"sync", "freeContext", "freeEd", "enable"} => call.ep \in InterruptEndpoints
    /\ call.fn = "sync" => call.ed \in InterruptSchedule
    /\ call.fn \in {"bulkStop", "bulk", "bulkFree"} => call.ep \in BulkEndpoints
    /\ call.fn = "freeEd" => \A n \in InterruptContextList : Ed[n].ep # call.ep
    /\ BulkHead = IF call.fn \in {"bulk", "bulkFree"} THEN call.ed ELSE NULL
    /\ PeriodicEnable <=> ~AtNotify
    /\ AtNotify => Entry = NULL

\* The inductive invariant of the descriptors.
StructInv == Types /\ EdsFit /\ OneEach /\ Places /\ CallFits

\* The toggle of the next packet.
ToggleOf(ed) == IF First(ed) > Len(ed.tds) THEN ed.ToggleCarry ELSE ed.tds[First(ed)].toggle

\* The toggle with which a transfer ends.
LastToggle(ed) ==
    IF First(ed) > Len(ed.tds) THEN ed.ToggleCarry ELSE 1 - ed.tds[Len(ed.tds)].toggle

\* The toggles of the TDs to come alternate.
Alternates(ed) ==
    \A i \in 1 .. Len(ed.tds) - 1 :
        i >= First(ed) => ed.tds[i + 1].toggle = 1 - ed.tds[i].toggle

\* The TDs of an endpoint not lost wait for what its device sends; an
\* asynchronous transfer has one TD, and that holds the toggle to return.
EdToggle ==
    \A n \in DOMAIN Ed :
        /\ Alternates(Ed[n])
        /\ Ed[n].ep \in Endpoints \ Lost /\ Ed[n].allocated =>
             ToggleOf(Ed[n]) = deviceToggle[Ed[n].ep]
        /\ n \in InterruptContextList =>
             Len(Ed[n].tds) = 1 /\ Ed[n].tds[1].toggle = ToggleOf(Ed[n])

\* Without a transfer, the caller's toggle is the device's.
IdleToggle ==
    \A e \in Endpoints \ Lost :
        \/ DataToggle[e] = deviceToggle[e]
        \/ \E n \in InterruptContextList : Ed[n].ep = e
        \/ call.fn \in {"sync", "bulk"} /\ call.ep = e

\* During a synchronous call the caller's toggle is already where the transfer will
\* end, and the toggle it began with is kept.
CallToggle ==
    call.fn \in {"sync", "bulk"} =>
        /\ DataToggle[call.ep] = LastToggle(Ed[call.ed])
        /\ First(Ed[call.ed]) = 1 => Ed[call.ed].tds[1].toggle = call.toggle

\* An ED with nothing for the HC to do.
Quiet(ed) == ed.Halted \/ ed.next > Len(ed.tds)

\* What a call has done with and not yet freed keeps the HC busy on lost endpoints
\* only.
LeftOver ==
    \A n \in DOMAIN Ed \ InterruptContextList :
        Ed[n].ep \in Endpoints \ Lost /\ Ed[n].allocated =>
            (call.fn \in {"sync", "bulk"} /\ n = call.ed) \/ Quiet(Ed[n])

\* The inductive invariant of the toggles, relative to StructInv.
ToggleInv == EdToggle /\ IdleToggle /\ CallToggle /\ LeftOver

-----------------------------------------------------------------------------
(***************************************************************************)
(* Operators.                                                              *)
(***************************************************************************)
LEMMA MinIs ==
    ASSUME NEW S, S \subseteq Int, NEW x \in S, \A y \in S : x <= y
    PROVE  Min(S) = x
<1>1. \E z \in S : \A y \in S : z <= y
  OBVIOUS
<1>2. Min(S) \in S /\ \A y \in S : Min(S) <= y
  BY <1>1, Zenon DEF Min
<1>3. Min(S) \in Int /\ x \in Int /\ Min(S) <= x /\ x <= Min(S)
  BY <1>2
<1> QED BY <1>3

\* A largest element is the maximum.
LEMMA MaxIs ==
    ASSUME NEW S, S \subseteq Int, NEW x \in S, \A y \in S : y <= x
    PROVE  Max(S) = x
<1>1. \E z \in S : \A y \in S : z >= y
  OBVIOUS
<1>2. Max(S) \in S /\ \A y \in S : Max(S) >= y
  BY <1>1, Zenon DEF Max
<1>3. Max(S) \in Int /\ x \in Int /\ Max(S) <= x /\ x <= Max(S)
  BY <1>2
<1> QED BY <1>3

\* A nonempty set of natural numbers has a minimum.
LEMMA MinOfNats ==
    ASSUME NEW S, S \subseteq Nat, S # {}
    PROVE  Min(S) \in S /\ \A y \in S : Min(S) <= y
<1>1. PICK x \in S : \A y \in S : <<y, x>> \notin OpToRel(<, Nat)
  BY WFMin, NatLessThanWellFounded
<1>2. \A y \in S : ~(y < x)
  BY <1>1 DEF OpToRel
<1>3. S \subseteq Int
  OBVIOUS
<1>4. \A y \in S : x <= y
  BY <1>2
<1> QED BY <1>3, <1>4, MinIs

\* Domain and elements of a sequence.
LEMMA Domains ==
    ASSUME NEW S, NEW s \in Seq(S)
    PROVE  /\ DOMAIN s = 1 .. Len(s)
           /\ Len(s) \in Nat
           /\ \A i \in DOMAIN s : s[i] \in S
BY LenProperties, ElementOfSeq

\* A function on 1 .. k is a sequence.
LEMMA IsSeq ==
    ASSUME NEW S, NEW k \in Nat, NEW f \in [1 .. k -> S]
    PROVE  f \in Seq(S) /\ Len(f) = k
OBVIOUS

\* The data TDs of a transfer are active TDs.
LEMMA DataTdsType ==
    ASSUME NEW t \in Toggles, NEW p \in Nat
    PROVE  /\ DataTds(t, p) \in Seq(TdSet)
           /\ Len(DataTds(t, p)) = p
           /\ \A i \in 1 .. p : /\ DataTds(t, p)[i].cc = "TOBE_PROCESSED"
                                /\ DataTds(t, p)[i].toggle = (t + i - 1) % 2
<1>1. \A i \in 1 .. p : (t + i - 1) % 2 \in Toggles
  BY DEF Toggles
<1>2. DataTds(t, p) \in [1 .. p -> TdSet]
  BY <1>1 DEF DataTds, TdSet, Codes
<1>3. DataTds(t, p) \in Seq(TdSet) /\ Len(DataTds(t, p)) = p
  BY <1>2, IsSeq
<1> QED BY <1>3 DEF DataTds

\* Toggles alternate, and the one after the last is what the caller keeps.
LEMMA DataTdsAlternate ==
    ASSUME NEW t \in Toggles, NEW p \in Nat \ {0}
    PROVE  /\ DataTds(t, p)[1].toggle = t
           /\ \A i \in 1 .. p - 1 :
                DataTds(t, p)[i + 1].toggle = 1 - DataTds(t, p)[i].toggle
           /\ (t + p) % 2 = 1 - DataTds(t, p)[p].toggle
           /\ (t + p) % 2 \in Toggles
<1>1. \A j \in Int : (j + 1) % 2 = 1 - (j % 2)
  OBVIOUS
<1>2. t % 2 = t
  BY DEF Toggles
<1>3. t \in Int /\ p \in 1 .. p /\ 1 \in 1 .. p
  BY DEF Toggles
<1>4. \A i \in 1 .. p : DataTds(t, p)[i].toggle = (t + i - 1) % 2
  BY DataTdsType
<1>5. DataTds(t, p)[1].toggle = t
  BY <1>2, <1>3, <1>4
<1>6. ASSUME NEW i \in 1 .. p - 1
      PROVE  DataTds(t, p)[i + 1].toggle = 1 - DataTds(t, p)[i].toggle
  <2>1. t + i - 1 \in Int /\ (t + i - 1) + 1 = t + (i + 1) - 1 /\ i + 1 \in 1 .. p /\ i \in 1 .. p
    BY <1>3
  <2> QED BY <1>1, <1>4, <2>1
<1>7. (t + p) % 2 = 1 - DataTds(t, p)[p].toggle
  <2>1. t + p - 1 \in Int /\ (t + p - 1) + 1 = t + p
    BY <1>3
  <2> QED BY <1>1, <1>3, <1>4, <2>1
<1>8. (t + p) % 2 \in Toggles
  BY <1>3 DEF Toggles
<1> QED BY <1>5, <1>6, <1>7, <1>8

\* The types of an ED and its TDs.
LEMMA EdFacts ==
    ASSUME Types, NEW n \in DOMAIN Ed
    PROVE  /\ Ed[n] \in EdSet
           /\ Ed[n].tds \in Seq(TdSet)
           /\ DOMAIN Ed[n].tds = 1 .. Len(Ed[n].tds)
           /\ Len(Ed[n].tds) \in Nat
           /\ \A i \in 1 .. Len(Ed[n].tds) : Ed[n].tds[i] \in TdSet
           /\ Ed[n].next \in Nat
           /\ n \in Nat
           /\ DOMAIN Ed = 1 .. Len(Ed)
<1>1. DOMAIN Ed = 1 .. Len(Ed) /\ Len(Ed) \in Nat /\ Ed[n] \in EdSet
  BY Domains DEF Types
<1>2. Ed[n].tds \in Seq(TdSet) /\ Ed[n].next \in Nat
  BY <1>1 DEF EdSet
<1> QED BY <1>1, <1>2, Domains

\* OhciCheckTDsResults() returns the code of the first bad TD.
LEMMA ResultIs ==
    ASSUME Types, NEW n \in DOMAIN Ed, Progress(Ed[n])
    PROVE  /\ First(Ed[n]) \in 1 .. Len(Ed[n].tds) + 1
           /\ Result(n) = IF First(Ed[n]) > Len(Ed[n].tds) THEN "NO_ERROR"
                          ELSE Ed[n].tds[First(Ed[n])].cc
           /\ First(Ed[n]) <= Len(Ed[n].tds) =>
                IF Ed[n].Halted THEN Ed[n].tds[First(Ed[n])].cc \in {"STALL", "ERROR"}
                ELSE Ed[n].tds[First(Ed[n])].cc = "TOBE_PROCESSED"
           /\ First(Ed[n]) > Len(Ed[n].tds) => ~Ed[n].Halted
<1> DEFINE r == Ed[n]
           tds == Ed[n].tds
           bad == {i \in DOMAIN tds : tds[i].cc # "NO_ERROR"}
<1>1. /\ tds \in Seq(TdSet) /\ DOMAIN tds = 1 .. Len(tds) /\ Len(tds) \in Nat /\ r.next \in Nat
      /\ r \in EdSet
  BY EdFacts
<1>2. r.Halted \in BOOLEAN
  BY <1>1 DEF EdSet
<1>3. First(r) \in 1 .. Len(tds) + 1
  BY <1>1, <1>2 DEF Progress, First
<1>4. First(r) <= Len(tds) =>
        IF r.Halted THEN tds[First(r)].cc \in {"STALL", "ERROR"}
        ELSE tds[First(r)].cc = "TOBE_PROCESSED"
  BY <1>1, <1>2 DEF Progress, First
<1>5. \A i \in 1 .. Len(tds) : i < First(r) => tds[i].cc = "NO_ERROR"
  BY DEF Progress
<1>6. First(r) > Len(tds) => ~r.Halted
  BY <1>1, <1>2 DEF Progress, First
<1>7. Result(n) = IF bad = {} THEN "NO_ERROR" ELSE tds[Min(bad)].cc
  BY DEF Result
<1>8. CASE First(r) > Len(tds)
  <2>1. bad = {}
    BY <1>1, <1>3, <1>5, <1>8
  <2> QED BY <1>3, <1>4, <1>6, <1>7, <1>8, <2>1
<1>9. CASE First(r) <= Len(tds)
  <2>1. First(r) \in bad
    BY <1>1, <1>3, <1>4, <1>9
  <2>2. \A y \in bad : First(r) <= y
    BY <1>1, <1>3, <1>5
  <2>3. bad \subseteq Int
    BY <1>1
  <2>4. Min(bad) = First(r)
    BY <2>1, <2>2, <2>3, MinIs
  <2>5. ~(First(r) > Len(tds))
    BY <1>1, <1>3, <1>9
  <2> QED BY <1>3, <1>4, <1>6, <1>7, <1>9, <2>1, <2>4, <2>5
<1> QED BY <1>1, <1>3, <1>8, <1>9

\* What the HC does when it retires a TD, field by field.
LEMMA RetiredFits ==
    ASSUME Types, NEW n \in DOMAIN Ed, Progress(Ed[n]), ~Ed[n].Halted,
           Ed[n].next \in DOMAIN Ed[n].tds, NEW cc \in {"NO_ERROR", "STALL", "ERROR"}
    PROVE  /\ Retired(n, cc) \in EdSet
           /\ Progress(Retired(n, cc))
           /\ Retired(n, cc).ep = Ed[n].ep
           /\ Retired(n, cc).node = Ed[n].node
           /\ Retired(n, cc).interval = Ed[n].interval
           /\ Retired(n, cc).allocated = Ed[n].allocated
           /\ Len(Retired(n, cc).tds) = Len(Ed[n].tds)
           /\ First(Retired(n, cc)) = IF cc = "NO_ERROR" THEN Ed[n].next + 1 ELSE Ed[n].next
           /\ \A i \in 1 .. Len(Ed[n].tds) :
                i # Ed[n].next => Retired(n, cc).tds[i] = Ed[n].tds[i]
           /\ Retired(n, cc).tds[Ed[n].next].toggle = Retired(n, cc).ToggleCarry
           /\ Retired(n, cc).ToggleCarry =
                IF cc = "NO_ERROR" THEN 1 - Ed[n].tds[Ed[n].next].toggle
                ELSE Ed[n].tds[Ed[n].next].toggle
<1> DEFINE r == Ed[n]
           k == Ed[n].next
           new == [cc |-> cc,
                   toggle |-> IF cc = "NO_ERROR" THEN 1 - r.tds[k].toggle ELSE r.tds[k].toggle]
           tds == [r.tds EXCEPT ![k] = new]
           R == Retired(n, cc)
<1>1. /\ r \in EdSet /\ r.tds \in Seq(TdSet) /\ DOMAIN r.tds = 1 .. Len(r.tds) /\ Len(r.tds) \in Nat
      /\ k \in Nat /\ r.tds[k] \in TdSet /\ k \in 1 .. Len(r.tds)
  BY EdFacts
<1>2. new \in TdSet
  BY <1>1 DEF TdSet, Toggles, Codes
<1>3. R = [r EXCEPT !.tds = tds, !.next = k + 1, !.ToggleCarry = new.toggle,
                    !.Halted = cc # "NO_ERROR"]
  BY <1>1 DEF Retired, EdSet
<1> HIDE DEF new, R
<1>4. /\ tds \in Seq(TdSet)
      /\ Len(tds) = Len(r.tds)
      /\ tds[k] = new
      /\ \A i \in 1 .. Len(r.tds) : i # k => tds[i] = r.tds[i]
  BY <1>1, <1>2
<1> HIDE DEF tds
<1>5. new.toggle \in Toggles /\ new.cc = cc /\ k + 1 \in Nat
  BY <1>1, <1>2 DEF TdSet, new
<1>6. ASSUME cc = "NO_ERROR" PROVE R \in EdSet /\ ~R.Halted
  <2>1. R = [r EXCEPT !.tds = tds, !.next = k + 1, !.ToggleCarry = new.toggle, !.Halted = FALSE]
    BY <1>3, <1>6
  <2>2. R \in EdSet
    BY <1>1, <1>4, <1>5, <2>1 DEF EdSet
  <2>3. ~R.Halted
    BY <1>1, <2>1 DEF EdSet
  <2> QED BY <2>2, <2>3
<1>7. ASSUME cc # "NO_ERROR" PROVE R \in EdSet /\ R.Halted
  <2>1. R = [r EXCEPT !.tds = tds, !.next = k + 1, !.ToggleCarry = new.toggle, !.Halted = TRUE]
    BY <1>3, <1>7
  <2>2. R \in EdSet
    BY <1>1, <1>4, <1>5, <2>1 DEF EdSet
  <2>3. R.Halted
    BY <1>1, <2>1 DEF EdSet
  <2> QED BY <2>2, <2>3
<1>8. R \in EdSet /\ (R.Halted <=> cc # "NO_ERROR")
  BY <1>6, <1>7
<1>9. /\ R.tds = tds /\ R.next = k + 1 /\ R.ToggleCarry = new.toggle
      /\ R.ep = r.ep /\ R.node = r.node /\ R.interval = r.interval /\ R.allocated = r.allocated
  BY <1>1, <1>3 DEF EdSet
<1>10. First(R) = IF cc = "NO_ERROR" THEN k + 1 ELSE k
  BY <1>1, <1>8, <1>9 DEF First
<1>11. First(r) = k
  BY DEF First
<1>12. Progress(R)
  <2>1. R.next \in 1 .. Len(R.tds) + 1
    BY <1>1, <1>4, <1>9
  <2>2. R.Halted => R.next > 1 /\ R.tds[R.next - 1].cc \in {"STALL", "ERROR"}
    BY <1>1, <1>4, <1>5, <1>9, <1>8
  <2>3. ASSUME NEW i \in 1 .. Len(R.tds)
        PROVE  /\ i < First(R) => R.tds[i].cc = "NO_ERROR"
               /\ i >= R.next => R.tds[i].cc = "TOBE_PROCESSED"
    <3>1. i \in 1 .. Len(r.tds)
      BY <1>4, <1>9
    <3>2. i < k => r.tds[i].cc = "NO_ERROR"
      BY <3>1, <1>11 DEF Progress
    <3>3. i >= k => r.tds[i].cc = "TOBE_PROCESSED"
      BY <3>1 DEF Progress
    <3> QED BY <1>1, <1>4, <1>5, <1>9, <1>10, <3>1, <3>2, <3>3
  <2> QED BY <2>1, <2>2, <2>3 DEF Progress
<1> QED BY <1>4, <1>8, <1>9, <1>10, <1>12 DEF R, new

\* What OhciCreateED() and OhciCreateTD() build for a transfer.
FreshEd(N, e, interval, node, t, p) ==
    /\ N \in EdSet
    /\ N.ep = e
    /\ N.interval = interval
    /\ N.node = node
    /\ N.tds = DataTds(t, p)
    /\ N.allocated
    /\ Len(N.tds) = p
    /\ Progress(N)
    /\ First(N) = 1

\* A new ED starts with its first TD, all active.
LEMMA NewEdFits ==
    ASSUME NEW e \in Endpoints, NEW interval \in 1 .. 255, NEW node \in Nodes,
           NEW t \in Toggles, NEW p \in Nat \ {0}
    PROVE  FreshEd(NewEd(e, interval, node, t, p), e, interval, node, t, p)
<1> DEFINE N == NewEd(e, interval, node, t, p)
           tds == DataTds(t, p)
<1>1. tds \in Seq(TdSet) /\ Len(tds) = p /\ \A i \in 1 .. p : tds[i].cc = "TOBE_PROCESSED"
  BY DataTdsType
<1> HIDE DEF tds
<1>2. N = [NoEd EXCEPT !.ep = e, !.interval = interval, !.node = node, !.tds = tds,
                       !.allocated = TRUE]
  BY DEF NewEd, tds
<1> HIDE DEF N
<1>3. N \in EdSet
  BY <1>1, <1>2 DEF EdSet, NoEd, Toggles, Nodes
<1>4. N.ep = e /\ N.interval = interval /\ N.node = node /\ N.tds = tds /\ N.next = 1
  BY <1>2 DEF NoEd
<1>5. N.allocated /\ ~N.Halted
  BY <1>2 DEF NoEd
<1>6. First(N) = 1
  BY <1>4, <1>5 DEF First
<1>7. Progress(N)
  BY <1>1, <1>4, <1>5, <1>6 DEF Progress
<1>8. FreshEd(N, e, interval, node, t, p)
  BY <1>1, <1>3, <1>4, <1>5, <1>6, <1>7 DEF FreshEd, tds
<1> QED BY <1>8 DEF N

\* The house keeper leaves a re-activated ED as a new one.
LEMMA RearmedFits ==
    ASSUME Types, NEW n \in DOMAIN Ed
    PROVE  /\ Rearmed(n) \in EdSet
           /\ Progress(Rearmed(n))
           /\ Rearmed(n).ep = Ed[n].ep
           /\ Rearmed(n).node = Ed[n].node
           /\ Rearmed(n).interval = Ed[n].interval
           /\ Rearmed(n).allocated = Ed[n].allocated
           /\ Rearmed(n).tds = DataTds(Ed[n].ToggleCarry, Len(Ed[n].tds))
           /\ Len(Rearmed(n).tds) = Len(Ed[n].tds)
           /\ First(Rearmed(n)) = 1
<1> DEFINE r == Ed[n]
           tds == DataTds(Ed[n].ToggleCarry, Len(Ed[n].tds))
           R == Rearmed(n)
<1>1. r \in EdSet /\ r.ToggleCarry \in Toggles /\ Len(r.tds) \in Nat
  BY EdFacts DEF EdSet
<1>2. /\ tds \in Seq(TdSet) /\ Len(tds) = Len(r.tds)
      /\ \A i \in 1 .. Len(r.tds) : tds[i].cc = "TOBE_PROCESSED"
  BY <1>1, DataTdsType
<1>3. R = [r EXCEPT !.tds = tds, !.next = 1, !.Halted = FALSE, !.ToggleCarry = 0]
  BY DEF Rearmed
<1> HIDE DEF R, tds
<1>4. /\ R.tds = tds /\ R.next = 1 /\ R.Halted = FALSE
      /\ R.ep = r.ep /\ R.node = r.node /\ R.interval = r.interval /\ R.allocated = r.allocated
  BY <1>1, <1>3 DEF EdSet
<1>5. R \in EdSet
  BY <1>1, <1>2, <1>3 DEF EdSet, Toggles
<1>6. First(R) = 1
  BY <1>4 DEF First
<1>7. Progress(R)
  BY <1>1, <1>2, <1>4, <1>6 DEF Progress
<1> QED BY <1>2, <1>4, <1>5, <1>6, <1>7 DEF R, tds

\* A freed ED.
LEMMA NoEdFits ==
    /\ NoEd \in EdSet
    /\ Progress(NoEd)
    /\ InTree(NoEd)
    /\ NoEd.ep = NoEndpoint
    /\ Len(NoEd.tds) = 0
<1>1. << >> \in Seq(TdSet) /\ Len(<< >>) = 0
  OBVIOUS
<1>2. NoEd \in EdSet
  BY <1>1 DEF NoEd, EdSet, Toggles, Nodes
<1>3. Progress(NoEd)
  BY DEF NoEd, Progress, First
<1>4. InTree(NoEd)
  BY DEF NoEd, InTree
<1> QED BY <1>1, <1>2, <1>3, <1>4 DEF NoEd

-----------------------------------------------------------------------------
(***************************************************************************)
(* The tree of interrupt lists.                                            *)
(***************************************************************************)
LEMMA Powers == /\ 2^0 = 1 /\ 2^1 = 2 /\ 2^2 = 4 /\ 2^3 = 8 /\ 2^4 = 16 /\ 2^5 = 32
OBVIOUS

\* A depth has 1 to 32 lists.
LEMMA PowersOfDepths ==
    ASSUME NEW d \in 0 .. 5
    PROVE  2^(5 - d) \in 1 .. 32
<1>1. CASE d = 0
  BY <1>1, Powers
<1>2. CASE d = 1
  BY <1>2, Powers
<1>3. CASE d = 2
  BY <1>3, Powers
<1>4. CASE d = 3
  BY <1>4, Powers
<1>5. CASE d = 4
  BY <1>5, Powers
<1>6. CASE d = 5
  BY <1>6, Powers
<1> QED BY <1>1, <1>2, <1>3, <1>4, <1>5, <1>6

\* The depth OhciInterruptTransfer() computes for an interval is not too deep for it.
LEMMA DepthIs ==
    ASSUME NEW interval \in 1 .. 255
    PROVE  Depth(interval) \in 0 .. 5 /\ 2^(5 - Depth(interval)) <= interval
<1> DEFINE K == {k \in 0 .. 5 : 2^k <= interval}
<1>1. ASSUME NEW m \in K, \A y \in K : y <= m
      PROVE  Depth(interval) = 5 - m /\ 5 - Depth(interval) = m
  <2>1. K \subseteq Int /\ m \in Int
    OBVIOUS
  <2>2. Max(K) = m
    BY <1>1, <2>1, MaxIs
  <2>3. Depth(interval) = 5 - Max(K)
    BY DEF Depth
  <2> QED BY <2>1, <2>2, <2>3
<1>2. \E m \in K : \A y \in K : y <= m
  <2>1. /\ 0 \in K
        /\ \A y \in K : y \in {0, 1, 2, 3, 4, 5}
    BY Powers
  <2> HIDE DEF K
  <2>2. CASE 5 \in K
    BY <2>1, <2>2
  <2>3. CASE 5 \notin K /\ 4 \in K
    BY <2>1, <2>3
  <2>4. CASE 5 \notin K /\ 4 \notin K /\ 3 \in K
    BY <2>1, <2>4
  <2>5. CASE 5 \notin K /\ 4 \notin K /\ 3 \notin K
    BY <2>1, <2>5
  <2> QED BY <2>2, <2>3, <2>4, <2>5
<1>3. PICK m \in K : \A y \in K : y <= m
  BY <1>2
<1>4. Depth(interval) = 5 - m /\ 5 - Depth(interval) = m
  BY <1>1, <1>3
<1> QED BY <1>3, <1>4

\* OhciFindMinInterruptEDList() returns a list of the depth it was asked for.
LEMMA FindMinList ==
    ASSUME Types, NEW d \in 0 .. 5, NEW linked \in SUBSET DOMAIN Ed
    PROVE  /\ OhciFindMinInterruptEDList(d, linked) \in Nodes
           /\ OhciFindMinInterruptEDList(d, linked)[1] = d
           /\ OhciFindMinInterruptEDList(d, linked)[2] < 2^(5 - d)
<1> DEFINE Indices == 0 .. 2^(5 - d) - 1
           Count(i) == CountEdNum(d, i, linked)
           Counts == {CountEdNum(d, i, linked) : i \in Indices}
           least == Min(Counts)
           Least == {i \in Indices : CountEdNum(d, i, linked) = least}
           found == Min(Least)
<1>1. 2^(5 - d) \in 1 .. 32
  BY PowersOfDepths
<1>2. IsFiniteSet(linked)
  <2>1. DOMAIN Ed = 1 .. Len(Ed) /\ Len(Ed) \in Nat
    BY Domains DEF Types
  <2>2. IsFiniteSet(1 .. Len(Ed))
    BY <2>1, FS_Interval
  <2> QED BY <2>1, <2>2, FS_Subset
<1>3. \A i \in Indices : Count(i) \in Nat
  <2> TAKE i \in Indices
  <2> DEFINE passing == {n \in linked : Passes(d, i, Ed[n].node)}
  <2>1. passing \subseteq linked
    OBVIOUS
  <2>2. IsFiniteSet(passing)
    BY <1>2, <2>1, FS_Subset
  <2>3. Cardinality(passing) \in Nat
    BY <2>2, FS_CardinalityType
  <2>4. Count(i) = (6 - d) + Cardinality(passing)
    BY DEF CountEdNum
  <2> QED BY <2>3, <2>4
<1>4. Counts \subseteq Nat /\ Counts # {}
  <2>1. 0 \in Indices
    BY <1>1
  <2> QED BY <1>3, <2>1
<1>5. least \in Counts
  BY <1>4, MinOfNats
<1>6. Least \subseteq Nat /\ Least # {}
  <2>1. PICK i \in Indices : least = CountEdNum(d, i, linked)
    BY <1>5, Zenon
  <2>2. i \in Least
    BY <2>1, Zenon
  <2>3. Least \subseteq Indices
    BY Zenon
  <2>4. Indices \subseteq Nat
    BY <1>1
  <2> HIDE DEF Least, Indices
  <2> QED BY <2>2, <2>3, <2>4
<1>7. found \in Least
  BY <1>6, MinOfNats
<1>8. OhciFindMinInterruptEDList(d, linked) = <<d, found>>
  BY DEF OhciFindMinInterruptEDList
<1> HIDE DEF found
<1>9. found \in Nat /\ found < 2^(5 - d)
  BY <1>1, <1>7
<1> QED BY <1>8, <1>9 DEF Nodes

\* The 32 frames, one by one.
LEMMA Frames ==
    \A f \in 0 .. 31 :
        f \in {0, 1, 2, 3, 4, 5, 6, 7, 8, 9, 10, 11, 12, 13, 14, 15, 16, 17, 18, 19,
               20, 21, 22, 23, 24, 25, 26, 27, 28, 29, 30, 31}
BY SMTT(30)

\* The order of the leaves reverses the five bits of a frame number: it is its own
\* inverse.
LEMMA LeafIsInvolution ==
    \A f \in 0 .. 31 : Leaf[f + 1] \in 0 .. 31 /\ Leaf[Leaf[f + 1] + 1] = f
BY Frames, SMTT(60) DEF Leaf

\* The leaf of a frame.
LEMMA LeafOfIs == \A f \in 0 .. 31 : LeafOf[f] = Leaf[f + 1]
<1> SUFFICES ASSUME NEW f \in 0 .. 31 PROVE LeafOf[f] = Leaf[f + 1]
  OBVIOUS
<1> DEFINE i == CHOOSE i \in 1 .. 32 : Leaf[i] = f
<1>1. Leaf[f + 1] + 1 \in 1 .. 32 /\ Leaf[Leaf[f + 1] + 1] = f
  BY LeafIsInvolution, SMTT(30)
<1>2. i \in 1 .. 32 /\ Leaf[i] = f
  BY <1>1, Zenon
<1>3. LeafOf[f] = i - 1
  BY DEF LeafOf
<1> HIDE DEF i
<1>4. i - 1 \in 0 .. 31 /\ (i - 1) + 1 = i
  BY <1>2
<1>5. Leaf[Leaf[(i - 1) + 1] + 1] = i - 1
  BY <1>4, LeafIsInvolution
<1>6. Leaf[f + 1] = i - 1
  BY <1>2, <1>4, <1>5
<1> QED BY <1>3, <1>6

\* The lists at depth d are visited in the order of the low 5 - d bits of the frame
\* number, reversed.
LEMMA LeafOrder ==
    ASSUME NEW d \in 0 .. 5
    PROVE  /\ \A f \in 0 .. 31 : Leaf[f + 1] \div 2^d = Leaf[(f % 2^(5 - d)) + 1] \div 2^d
           /\ \A i \in 0 .. 2^(5 - d) - 1 :
                /\ i * 2^d \in 0 .. 31
                /\ Leaf[i * 2^d + 1] \in 0 .. 2^(5 - d) - 1
                /\ (i * 2^d) \div 2^d = i
<1>1. d \in {0, 1, 2, 3, 4, 5}
  OBVIOUS
<1>2. CASE d = 0
  <2>1. 2^d = 1 /\ 2^(5 - d) = 32
    BY <1>2, Powers
  <2>2. \A f \in 0 .. 31 : Leaf[f + 1] \div 1 = Leaf[(f % 32) + 1] \div 1
    BY Frames, SMTT(60) DEF Leaf
  <2>3. \A i \in 0 .. 31 : i \in 0 .. 31
    OBVIOUS
  <2>4. \A i \in 0 .. 31 :
          /\ i * 1 \in 0 .. 31
          /\ Leaf[i * 1 + 1] \in 0 .. 31
          /\ (i * 1) \div 1 = i
    BY <2>3, Frames, SMTT(60) DEF Leaf
  <2> QED BY <2>1, <2>2, <2>4
<1>3. CASE d = 1
  <2>1. 2^d = 2 /\ 2^(5 - d) = 16
    BY <1>3, Powers
  <2>2. \A f \in 0 .. 31 : Leaf[f + 1] \div 2 = Leaf[(f % 16) + 1] \div 2
    BY Frames, SMTT(60) DEF Leaf
  <2>3. \A i \in 0 .. 15 : i \in 0 .. 31
    OBVIOUS
  <2>4. \A i \in 0 .. 15 :
          /\ i * 2 \in 0 .. 31
          /\ Leaf[i * 2 + 1] \in 0 .. 15
          /\ (i * 2) \div 2 = i
    BY <2>3, Frames, SMTT(60) DEF Leaf
  <2> QED BY <2>1, <2>2, <2>4
<1>4. CASE d = 2
  <2>1. 2^d = 4 /\ 2^(5 - d) = 8
    BY <1>4, Powers
  <2>2. \A f \in 0 .. 31 : Leaf[f + 1] \div 4 = Leaf[(f % 8) + 1] \div 4
    BY Frames, SMTT(60) DEF Leaf
  <2>3. \A i \in 0 .. 7 : i \in 0 .. 31
    OBVIOUS
  <2>4. \A i \in 0 .. 7 :
          /\ i * 4 \in 0 .. 31
          /\ Leaf[i * 4 + 1] \in 0 .. 7
          /\ (i * 4) \div 4 = i
    BY <2>3, Frames, SMTT(60) DEF Leaf
  <2> QED BY <2>1, <2>2, <2>4
<1>5. CASE d = 3
  <2>1. 2^d = 8 /\ 2^(5 - d) = 4
    BY <1>5, Powers
  <2>2. \A f \in 0 .. 31 : Leaf[f + 1] \div 8 = Leaf[(f % 4) + 1] \div 8
    BY Frames, SMTT(60) DEF Leaf
  <2>3. \A i \in 0 .. 3 : i \in 0 .. 31
    OBVIOUS
  <2>4. \A i \in 0 .. 3 :
          /\ i * 8 \in 0 .. 31
          /\ Leaf[i * 8 + 1] \in 0 .. 3
          /\ (i * 8) \div 8 = i
    BY <2>3, Frames, SMTT(60) DEF Leaf
  <2> QED BY <2>1, <2>2, <2>4
<1>6. CASE d = 4
  <2>1. 2^d = 16 /\ 2^(5 - d) = 2
    BY <1>6, Powers
  <2>2. \A f \in 0 .. 31 : Leaf[f + 1] \div 16 = Leaf[(f % 2) + 1] \div 16
    BY Frames, SMTT(60) DEF Leaf
  <2>3. \A i \in 0 .. 1 : i \in 0 .. 31
    OBVIOUS
  <2>4. \A i \in 0 .. 1 :
          /\ i * 16 \in 0 .. 31
          /\ Leaf[i * 16 + 1] \in 0 .. 1
          /\ (i * 16) \div 16 = i
    BY <2>3, Frames, SMTT(60) DEF Leaf
  <2> QED BY <2>1, <2>2, <2>4
<1>7. CASE d = 5
  <2>1. 2^d = 32 /\ 2^(5 - d) = 1
    BY <1>7, Powers
  <2>2. \A f \in 0 .. 31 : Leaf[f + 1] \div 32 = Leaf[(f % 1) + 1] \div 32
    BY Frames, SMTT(60) DEF Leaf
  <2>3. \A i \in 0 .. 0 : i \in 0 .. 31
    OBVIOUS
  <2>4. \A i \in 0 .. 0 :
          /\ i * 32 \in 0 .. 31
          /\ Leaf[i * 32 + 1] \in 0 .. 0
          /\ (i * 32) \div 32 = i
    BY <2>3, Frames, SMTT(60) DEF Leaf
  <2> QED BY <2>1, <2>2, <2>4
<1> QED BY <1>1, <1>2, <1>3, <1>4, <1>5, <1>6, <1>7

\* In any 2^(5 - d) successive frames there is one with the given low bits.
LEMMA FrameWithBits ==
    ASSUME NEW d \in 0 .. 5, NEW r \in 0 .. 2^(5 - d) - 1, NEW start \in 0 .. 31
    PROVE  \E k \in 0 .. 2^(5 - d) - 1 :
              /\ (start + k) % 32 \in 0 .. 31
              /\ ((start + k) % 32) % 2^(5 - d) = r
<1>1. CASE d = 0
  <2>1. 2^(5 - d) = 32
    BY <1>1, Powers
  <2> DEFINE k == (r - start) % 32
  <2>2. k \in 0 .. 31 /\ (start + k) % 32 \in 0 .. 31 /\ ((start + k) % 32) % 32 = r
    BY <2>1
  <2> HIDE DEF k
  <2>3. /\ k \in 0 .. 2^(5 - d) - 1
        /\ (start + k) % 32 \in 0 .. 31
        /\ ((start + k) % 32) % 2^(5 - d) = r
    BY <2>1, <2>2
  <2> QED BY <2>3, Zenon
<1>2. CASE d = 1
  <2>1. 2^(5 - d) = 16
    BY <1>2, Powers
  <2> DEFINE k == (r - start) % 16
  <2>2. k \in 0 .. 15 /\ (start + k) % 32 \in 0 .. 31 /\ ((start + k) % 32) % 16 = r
    BY <2>1
  <2> HIDE DEF k
  <2>3. /\ k \in 0 .. 2^(5 - d) - 1
        /\ (start + k) % 32 \in 0 .. 31
        /\ ((start + k) % 32) % 2^(5 - d) = r
    BY <2>1, <2>2
  <2> QED BY <2>3, Zenon
<1>3. CASE d = 2
  <2>1. 2^(5 - d) = 8
    BY <1>3, Powers
  <2> DEFINE k == (r - start) % 8
  <2>2. k \in 0 .. 7 /\ (start + k) % 32 \in 0 .. 31 /\ ((start + k) % 32) % 8 = r
    BY <2>1
  <2> HIDE DEF k
  <2>3. /\ k \in 0 .. 2^(5 - d) - 1
        /\ (start + k) % 32 \in 0 .. 31
        /\ ((start + k) % 32) % 2^(5 - d) = r
    BY <2>1, <2>2
  <2> QED BY <2>3, Zenon
<1>4. CASE d = 3
  <2>1. 2^(5 - d) = 4
    BY <1>4, Powers
  <2> DEFINE k == (r - start) % 4
  <2>2. k \in 0 .. 3 /\ (start + k) % 32 \in 0 .. 31 /\ ((start + k) % 32) % 4 = r
    BY <2>1
  <2> HIDE DEF k
  <2>3. /\ k \in 0 .. 2^(5 - d) - 1
        /\ (start + k) % 32 \in 0 .. 31
        /\ ((start + k) % 32) % 2^(5 - d) = r
    BY <2>1, <2>2
  <2> QED BY <2>3, Zenon
<1>5. CASE d = 4
  <2>1. 2^(5 - d) = 2
    BY <1>5, Powers
  <2> DEFINE k == (r - start) % 2
  <2>2. k \in 0 .. 1 /\ (start + k) % 32 \in 0 .. 31 /\ ((start + k) % 32) % 2 = r
    BY <2>1
  <2> HIDE DEF k
  <2>3. /\ k \in 0 .. 2^(5 - d) - 1
        /\ (start + k) % 32 \in 0 .. 31
        /\ ((start + k) % 32) % 2^(5 - d) = r
    BY <2>1, <2>2
  <2> QED BY <2>3, Zenon
<1>6. CASE d = 5
  <2>1. 2^(5 - d) = 1
    BY <1>6, Powers
  <2> DEFINE k == (r - start) % 1
  <2>2. k \in 0 .. 0 /\ (start + k) % 32 \in 0 .. 31 /\ ((start + k) % 32) % 1 = r
    BY <2>1
  <2> HIDE DEF k
  <2>3. /\ k \in 0 .. 2^(5 - d) - 1
        /\ (start + k) % 32 \in 0 .. 31
        /\ ((start + k) % 32) % 2^(5 - d) = r
    BY <2>1, <2>2
  <2> QED BY <2>3, Zenon
<1> QED BY <1>1, <1>2, <1>3, <1>4, <1>5, <1>6

\* A list at a depth that fits the interval is visited in each interval.
LEMMA Visited ==
    ASSUME NEW ed \in EdSet, InTree(ed), NEW start \in 0 .. 31
    PROVE  \E k \in 0 .. ed.interval - 1 : VisitedIn((start + k) % 32, ed.node)
<1> DEFINE d == ed.node[1]
           i == ed.node[2]
           r == Leaf[i * 2^d + 1]
<1>1. d \in 0 .. 5 /\ i \in Nat /\ ed.interval \in 1 .. 255
  BY DEF EdSet, Nodes
<1>2. 2^(5 - d) \in 1 .. 32 /\ 2^(5 - d) <= ed.interval /\ i \in 0 .. 2^(5 - d) - 1
  <2>1. 2^(5 - d) \in 1 .. 32
    BY <1>1, PowersOfDepths
  <2>2. 2^(5 - d) <= ed.interval /\ i < 2^(5 - d)
    BY Zenon DEF InTree
  <2> QED BY <1>1, <2>1, <2>2
<1>3. /\ r \in 0 .. 2^(5 - d) - 1
      /\ i * 2^d \in 0 .. 31
      /\ (i * 2^d) \div 2^d = i
  BY <1>1, <1>2, LeafOrder
<1>4. Leaf[r + 1] = i * 2^d
  BY <1>3, LeafIsInvolution
<1> HIDE DEF r
<1>5. PICK k \in 0 .. 2^(5 - d) - 1 :
        /\ (start + k) % 32 \in 0 .. 31
        /\ ((start + k) % 32) % 2^(5 - d) = r
  BY <1>1, <1>3, FrameWithBits
<1> DEFINE f == (start + k) % 32
<1>6. Leaf[f + 1] \div 2^d = i
  <2>1. Leaf[f + 1] \div 2^d = Leaf[(f % 2^(5 - d)) + 1] \div 2^d
    BY <1>1, <1>5, LeafOrder
  <2> QED BY <1>3, <1>4, <1>5, <2>1
<1>7. VisitedIn(f, ed.node)
  <2>1. LeafOf[f] = Leaf[f + 1]
    BY <1>5, LeafOfIs
  <2>2. d - 0 = d /\ d >= 0
    BY <1>1
  <2> QED BY <1>6, <2>1, <2>2 DEF VisitedIn, Passes
<1>8. k \in 0 .. ed.interval - 1
  BY <1>1, <1>2
<1> QED BY <1>7, <1>8

-----------------------------------------------------------------------------
(***************************************************************************)
(* StructInv is inductive.                                                 *)
(***************************************************************************)
LEMMA Appended ==
    ASSUME NEW S, NEW s \in Seq(S), NEW x \in S
    PROVE  /\ Append(s, x) \in Seq(S)
           /\ DOMAIN Append(s, x) = DOMAIN s \cup {Len(s) + 1}
           /\ Len(s) + 1 \notin DOMAIN s
           /\ Len(s) + 1 \in Nat \ {0}
           /\ Append(s, x)[Len(s) + 1] = x
           /\ \A n \in DOMAIN s : Append(s, x)[n] = s[n]
<1>1. Len(s) \in Nat /\ DOMAIN s = 1 .. Len(s)
  BY Domains
<1>2. Append(s, x) \in Seq(S) /\ Len(Append(s, x)) = Len(s) + 1
  OBVIOUS
<1>3. DOMAIN Append(s, x) = 1 .. Len(s) + 1
  BY <1>2, Domains
<1>4. Append(s, x)[Len(s) + 1] = x /\ \A n \in 1 .. Len(s) : Append(s, x)[n] = s[n]
  BY <1>1
<1> QED BY <1>1, <1>2, <1>3, <1>4

\* A sequence with an element replaced.
LEMMA Replaced ==
    ASSUME NEW S, NEW s \in Seq(S), NEW n \in DOMAIN s, NEW x \in S
    PROVE  /\ [s EXCEPT ![n] = x] \in Seq(S)
           /\ DOMAIN [s EXCEPT ![n] = x] = DOMAIN s
           /\ Len([s EXCEPT ![n] = x]) = Len(s)
           /\ [s EXCEPT ![n] = x][n] = x
           /\ \A m \in DOMAIN s : m # n => [s EXCEPT ![n] = x][m] = s[m]
<1> DEFINE t == [s EXCEPT ![n] = x]
<1>1. Len(s) \in Nat /\ DOMAIN s = 1 .. Len(s) /\ \A i \in DOMAIN s : s[i] \in S
  BY Domains
<1>2. t \in [1 .. Len(s) -> S]
  BY <1>1
<1>3. t \in Seq(S) /\ Len(t) = Len(s)
  BY <1>1, <1>2, IsSeq
<1> QED BY <1>1, <1>2, <1>3

\* A sequence with its elements mapped.
LEMMA Changed ==
    ASSUME NEW S, NEW s \in Seq(S), NEW f(_), \A n \in DOMAIN s : f(n) \in S
    PROVE  /\ [n \in DOMAIN s |-> f(n)] \in Seq(S)
           /\ DOMAIN [n \in DOMAIN s |-> f(n)] = DOMAIN s
<1> DEFINE t == [n \in DOMAIN s |-> f(n)]
<1>1. Len(s) \in Nat /\ DOMAIN s = 1 .. Len(s)
  BY Domains
<1>2. t \in [1 .. Len(s) -> S]
  BY <1>1
<1>3. t \in Seq(S) /\ Len(t) = Len(s)
  BY <1>1, <1>2, IsSeq
<1> QED BY <1>1, <1>2, <1>3

\* After OhciReset() the descriptors fit.
LEMMA StructInit == Init => StructInv
<1> SUFFICES ASSUME Init PROVE StructInv
  OBVIOUS
<1>1. /\ Ed \in Seq(EdSet) /\ DOMAIN Ed = {} /\ call.fn = "none" /\ Entry = NULL /\ BulkHead = NULL
      /\ InterruptSchedule = {} /\ InterruptContextList = {} /\ call = NoCall
  BY DEF Init, NoCall
<1>2. PeriodicEnable
  BY DEF Init
<1>3. NoCall \in CallSet
  BY DEF NoCall, CallSet, NULL, Toggles
<1>4. Types
  BY <1>1, <1>2, <1>3 DEF Types, Init, Toggles, NULL
<1>5. EdsFit /\ OneEach /\ Places
  BY <1>1 DEF EdsFit, OneEach, Places
<1>6. CallFits
  BY <1>1, <1>2 DEF CallFits, AtNotify
<1> QED BY <1>4, <1>5, <1>6 DEF StructInv

\* The house keeper's next Entry is an entry of the list, or NULL.
LEMMA NextEntryInList ==
    ASSUME Types, NEW n \in Nat
    PROVE  NextEntry(n) \in (InterruptContextList \ {n}) \cup {NULL}
<1> DEFINE rest == {m \in InterruptContextList : m > n}
<1>1. InterruptContextList \subseteq Nat
  BY Domains DEF Types
<1>2. CASE rest = {}
  BY <1>2 DEF NextEntry
<1>3. CASE rest # {}
  <2>1. rest \subseteq Nat
    BY <1>1
  <2>2. Min(rest) \in rest
    BY <1>3, <2>1, MinOfNats
  <2> QED BY <1>1, <1>3, <2>2 DEF NextEntry
<1> QED BY <1>2, <1>3

\* Steps that leave the EDs as they are, or change the TDs of one of them.
LEMMA EdKeeps ==
    ASSUME StructInv, NEW n \in DOMAIN Ed, NEW r \in EdSet, Progress(r),
           r.ep = Ed[n].ep, r.node = Ed[n].node, r.interval = Ed[n].interval,
           r.allocated = Ed[n].allocated, Len(r.tds) = Len(Ed[n].tds),
           Ed' = [Ed EXCEPT ![n] = r],
           UNCHANGED <<InterruptSchedule, InterruptContextList, PeriodicEnable, BulkHead,
                       DataToggle, call>>,
           deviceToggle' \in [Endpoints -> Toggles],
           Entry' \in InterruptContextList \cup {NULL},
           Entry = NULL => Entry' = NULL
    PROVE  StructInv'
<1>1. Ed \in Seq(EdSet)
  BY DEF StructInv, Types
<1>2. /\ Ed' \in Seq(EdSet) /\ DOMAIN Ed' = DOMAIN Ed /\ Ed'[n] = r
      /\ \A m \in DOMAIN Ed : m # n => Ed'[m] = Ed[m]
  BY <1>1, Replaced
<1>3. \A m \in DOMAIN Ed : /\ Ed'[m].ep = Ed[m].ep
                           /\ Ed'[m].allocated = Ed[m].allocated
                           /\ Len(Ed'[m].tds) = Len(Ed[m].tds)
  BY <1>2
<1>4. Types'
  BY <1>2 DEF StructInv, Types
<1>5. EdsFit'
  BY <1>2 DEF StructInv, EdsFit, InTree
<1>6. OneEach'
  BY <1>2, <1>3 DEF StructInv, OneEach
<1>7. Places'
  BY <1>2, <1>3 DEF StructInv, Places, InSync, InCancel, Types
<1>8. CallFits'
  BY <1>2, <1>3 DEF StructInv, CallFits, AtNotify, Types
<1> QED BY <1>4, <1>5, <1>6, <1>7, <1>8 DEF StructInv

\* A transfer is linked to a list that fits its interval.
LEMMA Linking ==
    ASSUME StructInv, NEW e \in InterruptEndpoints, NEW interval \in 1 .. 255,
           NEW t \in Toggles, NEW p \in Nat \ {0},
           NEW linked \in SUBSET DOMAIN Ed
    PROVE  LET N == NewEd(e, interval, OhciFindMinInterruptEDList(Depth(interval), linked), t, p)
           IN  FreshEd(N, e, interval, N.node, t, p) /\ InTree(N)
<1> DEFINE d == Depth(interval)
           node == OhciFindMinInterruptEDList(d, linked)
           N == NewEd(e, interval, node, t, p)
<1>1. d \in 0 .. 5 /\ 2^(5 - d) <= interval
  BY DepthIs
<1>2. node \in Nodes /\ node[1] = d /\ node[2] < 2^(5 - d)
  BY <1>1, FindMinList DEF StructInv
<1> HIDE DEF node, d
<1>3. e \in Endpoints
  BY DEF Endpoints
<1>4. FreshEd(N, e, interval, node, t, p)
  BY <1>2, <1>3, NewEdFits, Zenon
<1> HIDE DEF N
<1>5. InTree(N)
  BY <1>1, <1>2, <1>4 DEF InTree, FreshEd
<1>6. N.node = node
  BY <1>4 DEF FreshEd
<1> QED BY <1>4, <1>5, <1>6 DEF N, node, d

\* The caller's toggle moves to a toggle.
LEMMA FlippedType ==
    ASSUME DataToggle \in [Endpoints -> Toggles], NEW e \in Endpoints, NEW p \in Nat
    PROVE  Flipped(e, p) \in [Endpoints -> Toggles]
<1>1. DataToggle[e] \in Nat
  BY DEF Toggles
<1>2. (DataToggle[e] + p) % 2 \in Toggles
  BY <1>1 DEF Toggles
<1> QED BY <1>2 DEF Flipped

\* OhciAsyncInterruptTransfer() keeps StructInv.
LEMMA AsyncKeeps ==
    ASSUME StructInv, NEW e \in InterruptEndpoints, NEW p \in AsyncPackets,
           OhciAsyncInterruptTransfer(e, p)
    PROVE  StructInv'
<1> DEFINE N == NewEd(e, PollingInterval[e],
                      OhciFindMinInterruptEDList(Depth(PollingInterval[e]), InterruptSchedule),
                      DataToggle[e], p)
           k == Len(Ed) + 1
<1>1. /\ e \in Endpoints /\ DataToggle[e] \in Toggles /\ PollingInterval[e] \in 1 .. 255
      /\ p \in Nat \ {0} /\ InterruptSchedule \in SUBSET DOMAIN Ed /\ Ed \in Seq(EdSet)
  BY EndpointsAssumption, BoundsAssumption DEF StructInv, Types, Endpoints
<1>2. N \in EdSet /\ Progress(N) /\ InTree(N) /\ N.ep = e /\ N.allocated /\ Len(N.tds) = p
  <2>1. FreshEd(N, e, PollingInterval[e], N.node, DataToggle[e], p) /\ InTree(N)
    BY <1>1, Linking, Zenon
  <2> QED BY <2>1 DEF FreshEd
<1>3. /\ Ed' = Append(Ed, N) /\ InterruptSchedule' = InterruptSchedule \cup {k} /\ PeriodicEnable'
      /\ InterruptContextList' = InterruptContextList \cup {k} /\ DataToggle' = Flipped(e, p)
      /\ UNCHANGED <<BulkHead, deviceToggle, call, Entry>>
      /\ ~InUse(e) /\ Entry = NULL /\ call = NoCall
  BY DEF OhciAsyncInterruptTransfer, Linked, AtRest, MainRuns, bulkVars
<1> HIDE DEF N, k
<1>4. /\ Ed' \in Seq(EdSet) /\ DOMAIN Ed' = DOMAIN Ed \cup {k} /\ k \notin DOMAIN Ed
      /\ Ed'[k] = N /\ \A n \in DOMAIN Ed : Ed'[n] = Ed[n]
  BY <1>1, <1>2, <1>3, Appended DEF k
<1>5. call.fn = "none" /\ call.ep = NoEndpoint
  BY <1>3 DEF NoCall
<1>6. \A n \in DOMAIN Ed : Ed[n].ep # e
  BY <1>3 DEF InUse
<1>7. Types'
  <2>1. DataToggle' \in [Endpoints -> Toggles]
    BY <1>1, <1>3, FlippedType DEF StructInv, Types
  <2> QED BY <1>3, <1>4, <2>1 DEF StructInv, Types
<1>8. EdsFit'
  BY <1>2, <1>4 DEF StructInv, EdsFit
<1>9. OneEach'
  BY <1>2, <1>4, <1>6 DEF StructInv, OneEach
<1>10. Places'
  BY <1>1, <1>2, <1>3, <1>4 DEF StructInv, Places, InSync, InCancel, Types
<1>11. CallFits'
  BY <1>3, <1>4, <1>5 DEF StructInv, CallFits, AtNotify, Types
<1> QED BY <1>7, <1>8, <1>9, <1>10, <1>11 DEF StructInv

\* OhciSyncInterruptTransfer() keeps StructInv.
LEMMA SyncKeeps ==
    ASSUME StructInv, NEW e \in InterruptEndpoints, NEW p \in SyncPackets,
           OhciSyncInterruptTransfer(e, p)
    PROVE  StructInv'
<1> DEFINE N == NewEd(e, 1, OhciFindMinInterruptEDList(Depth(1), InterruptSchedule),
                      DataToggle[e], p)
           k == Len(Ed) + 1
<1>1. /\ e \in Endpoints /\ DataToggle[e] \in Toggles /\ 1 \in 1 .. 255
      /\ p \in Nat \ {0} /\ InterruptSchedule \in SUBSET DOMAIN Ed /\ Ed \in Seq(EdSet)
  BY BoundsAssumption DEF StructInv, Types, Endpoints, Nodes
<1>2. N \in EdSet /\ Progress(N) /\ InTree(N) /\ N.ep = e /\ N.allocated /\ Len(N.tds) = p
  <2>1. FreshEd(N, e, 1, N.node, DataToggle[e], p) /\ InTree(N)
    BY <1>1, Linking, Zenon
  <2> QED BY <2>1 DEF FreshEd
<1>3. /\ Ed' = Append(Ed, N) /\ InterruptSchedule' = InterruptSchedule \cup {k} /\ PeriodicEnable'
      /\ DataToggle' = Flipped(e, p)
      /\ call' = [fn |-> "sync", ed |-> k, ep |-> e, toggle |-> DataToggle[e]]
      /\ UNCHANGED <<InterruptContextList, BulkHead, deviceToggle, Entry>>
      /\ ~InUse(e) /\ Entry = NULL /\ call = NoCall
  BY DEF OhciSyncInterruptTransfer, Linked, AtRest, MainRuns, bulkVars
<1> HIDE DEF N, k
<1>4. /\ Ed' \in Seq(EdSet) /\ DOMAIN Ed' = DOMAIN Ed \cup {k} /\ k \notin DOMAIN Ed
      /\ Ed'[k] = N /\ \A n \in DOMAIN Ed : Ed'[n] = Ed[n] /\ k \in Nat
  BY <1>1, <1>2, <1>3, Appended DEF k
<1>5. call.fn = "none" /\ call.ep = NoEndpoint
  BY <1>3 DEF NoCall
<1>6. \A n \in DOMAIN Ed : Ed[n].ep # e
  BY <1>3 DEF InUse
<1>7. /\ call'.fn = "sync" /\ call'.ed = k /\ call'.ep = e /\ call' \in CallSet
  BY <1>1, <1>3, <1>4 DEF CallSet
<1>8. Types'
  <2>1. DataToggle' \in [Endpoints -> Toggles]
    BY <1>1, <1>3, FlippedType DEF StructInv, Types
  <2> QED BY <1>3, <1>4, <1>7, <2>1 DEF StructInv, Types
<1>9. EdsFit'
  BY <1>2, <1>4 DEF StructInv, EdsFit
<1>10. OneEach'
  BY <1>2, <1>4, <1>6 DEF StructInv, OneEach
<1>11. Places'
  BY <1>1, <1>2, <1>3, <1>4, <1>5, <1>7 DEF StructInv, Places, InSync, InCancel, Types
<1>12. CallFits'
  BY <1>1, <1>2, <1>3, <1>4, <1>5, <1>7 DEF StructInv, CallFits, AtNotify, Types
<1> QED BY <1>8, <1>9, <1>10, <1>11, <1>12 DEF StructInv

\* Giving the bulk list its ED keeps StructInv.
LEMMA BulkKeeps ==
    ASSUME StructInv, NEW p \in SyncPackets, BulkListFilled(p)
    PROVE  StructInv'
<1> DEFINE e == call.ep
           N == NewEd(e, 1, <<5, 0>>, DataToggle[e], p)
           k == Len(Ed) + 1
<1>0. call.fn = "bulkStop" /\ e \in BulkEndpoints
  BY DEF BulkListFilled, StructInv, CallFits
<1>1. /\ e \in Endpoints /\ DataToggle[e] \in Toggles /\ 1 \in 1 .. 255 /\ <<5, 0>> \in Nodes
      /\ p \in Nat \ {0} /\ Ed \in Seq(EdSet)
  BY <1>0, BoundsAssumption DEF StructInv, Types, Endpoints, Nodes
<1>2. /\ N \in EdSet /\ Progress(N) /\ N.ep = e /\ N.allocated /\ Len(N.tds) = p
      /\ N.interval = 1 /\ N.node = <<5, 0>>
  <2>1. FreshEd(N, e, 1, <<5, 0>>, DataToggle[e], p)
    BY <1>1, NewEdFits, Zenon
  <2> QED BY <2>1 DEF FreshEd
<1>3. /\ Ed' = Append(Ed, N) /\ BulkHead' = k /\ DataToggle' = Flipped(e, p)
      /\ call' = [call EXCEPT !.fn = "bulk", !.ed = k, !.toggle = DataToggle[e]]
      /\ UNCHANGED <<InterruptSchedule, InterruptContextList, PeriodicEnable, deviceToggle,
                     Entry>>
      /\ Entry = NULL
  BY DEF BulkListFilled, MainRuns
<1> HIDE DEF N, k
<1>4. /\ Ed' \in Seq(EdSet) /\ DOMAIN Ed' = DOMAIN Ed \cup {k} /\ k \notin DOMAIN Ed
      /\ k \in Nat /\ Ed'[k] = N /\ \A n \in DOMAIN Ed : Ed'[n] = Ed[n]
  BY <1>1, <1>2, <1>3, Appended DEF k
<1>5. \A n \in DOMAIN Ed : Ed[n].ep # e
  BY <1>0, <1>1, EndpointsAssumption DEF StructInv, Places, InSync, InCancel, Types
<1>6. /\ call'.fn = "bulk" /\ call'.ed = k /\ call'.ep = e /\ call' \in CallSet
  BY <1>1, <1>3, <1>4 DEF CallSet, StructInv, Types
<1> HIDE DEF e
<1>7. Types'
  <2>1. DataToggle' \in [Endpoints -> Toggles]
    BY <1>1, <1>3, FlippedType DEF StructInv, Types
  <2> QED BY <1>3, <1>4, <1>6, <2>1 DEF StructInv, Types
<1>8. EdsFit'
  <2>1. InTree(N)
    BY <1>2, Powers DEF InTree
  <2> QED BY <1>2, <1>4, <2>1 DEF StructInv, EdsFit
<1>9. OneEach'
  BY <1>2, <1>4, <1>5 DEF StructInv, OneEach
<1>10. Places'
  BY <1>0, <1>1, <1>2, <1>3, <1>4, <1>6 DEF StructInv, Places, InSync, InCancel, Types
<1>11. CallFits'
  BY <1>0, <1>1, <1>2, <1>3, <1>4, <1>6 DEF StructInv, CallFits, AtNotify, Types
<1> QED BY <1>7, <1>8, <1>9, <1>10, <1>11 DEF StructInv

\* Steps of the caller that only move toggles or the call itself.
LEMMA CallerKeeps ==
    ASSUME StructInv,
           \/ \E e \in InterruptEndpoints : CancelAsyncInterrupt(e)
           \/ \E e \in Endpoints : \E made \in 0 .. 1 : OutOfResources(e, made)
           \/ \E e \in Endpoints : ClearHalt(e)
           \/ CancelReturns
           \/ SyncEnds
           \/ \E e \in BulkEndpoints : OhciBulkTransfer(e)
    PROVE  StructInv'
<1> USE DEF StructInv
<1>1. CASE \E e \in InterruptEndpoints : CancelAsyncInterrupt(e)
  <2>1. PICK e \in InterruptEndpoints : CancelAsyncInterrupt(e)
    BY <1>1
  <2>2. /\ Entry = NULL /\ call = NoCall /\ call' = [NoCall EXCEPT !.fn = "freeContext", !.ep = e]
        /\ UNCHANGED <<hostVars, BulkHead, toggleVars, Entry>>
    BY <2>1 DEF CancelAsyncInterrupt, AtRest, MainRuns, Cancel, bulkVars
  <2>3. ~PeriodicEnable' /\ PeriodicEnable' \in BOOLEAN
    BY <2>1 DEF CancelAsyncInterrupt, Cancel
  <2>4. /\ call.fn = "none" /\ call'.fn = "freeContext" /\ call'.ep = e /\ call' \in CallSet
    BY <2>2 DEF NoCall, CallSet, NULL, Endpoints, Toggles
  <2>5. Types'
    BY <2>2, <2>3, <2>4 DEF Types, hostVars, toggleVars
  <2>6. EdsFit' /\ OneEach'
    BY <2>2 DEF EdsFit, OneEach, hostVars
  <2>7. Places'
    BY <2>2, <2>4 DEF Places, hostVars, InSync, InCancel
  <2>8. CallFits'
    BY <2>2, <2>3, <2>4 DEF CallFits, AtNotify, hostVars
  <2> QED BY <2>5, <2>6, <2>7, <2>8
<1>2. CASE \E e \in Endpoints : \E made \in 0 .. 1 : OutOfResources(e, made)
  <2>1. PICK e \in Endpoints, made \in 0 .. 1 : OutOfResources(e, made)
    BY <1>2
  <2>2. /\ DataToggle' = Flipped(e, made)
        /\ UNCHANGED <<hostVars, PeriodicEnable, BulkHead, deviceToggle, call, Entry>>
    BY <2>1 DEF OutOfResources, bulkVars
  <2>3. DataToggle' \in [Endpoints -> Toggles]
    BY <2>2, FlippedType DEF Types
  <2> QED BY <2>2, <2>3
      DEF Types, EdsFit, OneEach, Places, InSync, InCancel, CallFits, AtNotify, hostVars
<1>3. CASE \E e \in Endpoints : ClearHalt(e)
  <2>1. PICK e \in Endpoints : ClearHalt(e)
    BY <1>3
  <2>2. /\ DataToggle' = [DataToggle EXCEPT ![e] = 0]
        /\ deviceToggle' = [deviceToggle EXCEPT ![e] = 0]
        /\ UNCHANGED <<hostVars, PeriodicEnable, BulkHead, call, Entry>>
    BY <2>1 DEF ClearHalt, bulkVars
  <2>3. DataToggle' \in [Endpoints -> Toggles] /\ deviceToggle' \in [Endpoints -> Toggles]
    BY <2>2 DEF Types, Toggles
  <2> QED BY <2>2, <2>3
      DEF Types, EdsFit, OneEach, Places, InSync, InCancel, CallFits, AtNotify, hostVars
<1>4. CASE CancelReturns
  <2>2. /\ Entry = NULL /\ call.fn = "enable" /\ call' = NoCall
        /\ UNCHANGED <<hostVars, BulkHead, toggleVars, Entry>>
    BY <1>4 DEF CancelReturns, MainRuns, bulkVars
  <2>3. PeriodicEnable'
    BY <1>4 DEF CancelReturns
  <2>4. call'.fn = "none" /\ call' \in CallSet
    BY <2>2 DEF NoCall, CallSet, NULL, Toggles
  <2>5. Types'
    BY <2>2, <2>3, <2>4 DEF Types, hostVars, toggleVars
  <2>6. EdsFit' /\ OneEach'
    BY <2>2 DEF EdsFit, OneEach, hostVars
  <2>7. Places'
    BY <2>2, <2>4 DEF Places, hostVars, InSync, InCancel
  <2>8. CallFits'
    BY <2>2, <2>3, <2>4 DEF CallFits, AtNotify, hostVars
  <2> QED BY <2>5, <2>6, <2>7, <2>8
<1>5. CASE SyncEnds
  <2>2. /\ Entry = NULL /\ call.fn = "sync"
        /\ call' = [NoCall EXCEPT !.fn = "freeContext", !.ep = call.ep]
        /\ UNCHANGED <<hostVars, BulkHead, DataToggle, deviceToggle, Entry>>
    BY <1>5 DEF SyncEnds, MainRuns, Cancel, bulkVars
  <2>3. ~PeriodicEnable' /\ PeriodicEnable' \in BOOLEAN
    BY <1>5 DEF SyncEnds, Cancel
  <2>4. /\ call'.fn = "freeContext" /\ call'.ep = call.ep /\ call' \in CallSet
    BY <2>2 DEF NoCall, CallSet, NULL, Types, Toggles
  <2>5. Types'
    BY <2>2, <2>3, <2>4 DEF Types, hostVars, toggleVars
  <2>6. EdsFit' /\ OneEach'
    BY <2>2 DEF EdsFit, OneEach, hostVars
  <2>7. Places'
    BY <2>2, <2>4 DEF Places, hostVars, InSync, InCancel, CallFits
  <2>8. CallFits'
    BY <2>2, <2>3, <2>4 DEF CallFits, AtNotify, hostVars
  <2> QED BY <2>5, <2>6, <2>7, <2>8
<1>6. CASE \E e \in BulkEndpoints : OhciBulkTransfer(e)
  <2>1. PICK e \in BulkEndpoints : OhciBulkTransfer(e)
    BY <1>6
  <2>2. /\ Entry = NULL /\ call = NoCall /\ call' = [NoCall EXCEPT !.fn = "bulkStop", !.ep = e]
        /\ UNCHANGED <<hostVars, PeriodicEnable, BulkHead, toggleVars, Entry>>
    BY <2>1 DEF OhciBulkTransfer, AtRest, MainRuns, bulkVars
  <2>3. /\ call.fn = "none" /\ call'.fn = "bulkStop" /\ call'.ep = e /\ call' \in CallSet
    BY <2>2 DEF NoCall, CallSet, NULL, Endpoints, Toggles
  <2>4. Types'
    BY <2>2, <2>3 DEF Types, hostVars, toggleVars
  <2>5. EdsFit' /\ OneEach'
    BY <2>2 DEF EdsFit, OneEach, hostVars
  <2>6. Places'
    BY <2>2, <2>3 DEF Places, hostVars, InSync, InCancel
  <2>7. CallFits'
    BY <2>2, <2>3 DEF CallFits, AtNotify, hostVars
  <2> QED BY <2>4, <2>5, <2>6, <2>7
<1> QED BY <1>1, <1>2, <1>3, <1>4, <1>5, <1>6

\* OhciFreeInterruptContext() returns a toggle.
LEMMA FirstToggleType ==
    ASSUME StructInv, NEW e \in Endpoints
    PROVE  /\ FirstToggle(e) \in Toggles
           /\ \A n \in InterruptContextList :
                Ed[n].ep = e => FirstToggle(e) = Ed[n].tds[1].toggle
<1> DEFINE mine == {n \in InterruptContextList : Ed[n].ep = e}
<1>1. CASE mine = {}
  BY <1>1 DEF FirstToggle, StructInv, Types
<1>2. CASE mine # {}
  <2>1. PICK n \in mine : TRUE
    BY <1>2
  <2>2. n \in DOMAIN Ed /\ e # NoEndpoint /\ InterruptContextList \subseteq DOMAIN Ed
    BY EndpointsAssumption DEF StructInv, Types
  <2>3. \A m \in mine : m = n
    BY <2>1, <2>2 DEF StructInv, OneEach
  <2>4. Max(mine) = n
    <3>1. mine \subseteq Int /\ n \in Int
      BY <2>1, <2>2, <2>3, EdFacts DEF StructInv
    <3>2. \A m \in mine : m <= n
      BY <2>3, <3>1
    <3> QED BY <2>1, <3>1, <3>2, MaxIs
  <2>5. FirstToggle(e) = Ed[n].tds[1].toggle
    BY <1>2, <2>4 DEF FirstToggle
  <2>6. Len(Ed[n].tds) > 0 /\ Len(Ed[n].tds) \in Nat /\ Ed[n].tds \in Seq(TdSet)
    BY <2>1, <2>2, EdFacts DEF StructInv, Places
  <2>7. Ed[n].tds[1] \in TdSet
    BY <2>6
  <2> QED BY <2>3, <2>5, <2>7 DEF TdSet
<1> QED BY <1>1, <1>2

\* OhciFreeInterruptContext() keeps StructInv.
LEMMA FreeContextKeeps ==
    ASSUME StructInv, OhciFreeInterruptContext
    PROVE  StructInv'
<1> USE DEF StructInv
<1> DEFINE f(n) == IF n \in InterruptContextList /\ Ed[n].ep = call.ep
                   THEN [Ed[n] EXCEPT !.allocated = FALSE] ELSE Ed[n]
<1>1. /\ Entry = NULL /\ call.fn = "freeContext" /\ DataToggle' = ReturnToggle
      /\ InterruptContextList' = OthersInList(call.ep)
      /\ Ed' = [n \in DOMAIN Ed |-> f(n)]
      /\ call' = [call EXCEPT !.fn = "freeEd"]
      /\ UNCHANGED <<InterruptSchedule, PeriodicEnable, BulkHead, deviceToggle, Entry>>
  BY DEF OhciFreeInterruptContext, MainRuns, bulkVars
<1>2. call.ep \in InterruptEndpoints /\ call.ep \in Endpoints
  BY <1>1 DEF CallFits, Endpoints
<1>3. \A n \in DOMAIN Ed : Ed[n] \in EdSet
  BY EdFacts
<1>4. \A n \in DOMAIN Ed : /\ f(n) \in EdSet /\ f(n).ep = Ed[n].ep /\ f(n).node = Ed[n].node
                           /\ f(n).interval = Ed[n].interval /\ f(n).tds = Ed[n].tds
                           /\ f(n).next = Ed[n].next /\ f(n).Halted = Ed[n].Halted
  <2> SUFFICES ASSUME NEW n \in DOMAIN Ed
               PROVE  /\ f(n) \in EdSet /\ f(n).ep = Ed[n].ep /\ f(n).node = Ed[n].node
                      /\ f(n).interval = Ed[n].interval /\ f(n).tds = Ed[n].tds
                      /\ f(n).next = Ed[n].next /\ f(n).Halted = Ed[n].Halted
    BY Zenon
  <2> DEFINE r == Ed[n]
             q == [r EXCEPT !.allocated = FALSE]
  <2>1. r \in EdSet
    BY <1>3
  <2> HIDE DEF r
  <2>2. /\ q \in EdSet /\ q.ep = r.ep /\ q.node = r.node /\ q.interval = r.interval
        /\ q.tds = r.tds /\ q.next = r.next /\ q.Halted = r.Halted
    BY <2>1 DEF EdSet
  <2> HIDE DEF q
  <2>3. f(n) = q \/ f(n) = r
    BY Zenon DEF q, r
  <2> QED BY <2>1, <2>2, <2>3 DEF r
<1>5. \A n \in DOMAIN Ed : Ed[n].ep # call.ep => f(n) = Ed[n]
  OBVIOUS
<1> HIDE DEF f
<1>6. Ed' \in Seq(EdSet) /\ DOMAIN Ed' = DOMAIN Ed
  BY <1>1, <1>4, Changed DEF Types
<1>7. \A n \in DOMAIN Ed : Ed'[n] = f(n)
  BY <1>1
<1>8. call'.fn = "freeEd" /\ call'.ep = call.ep /\ call' \in CallSet
  BY <1>1 DEF Types, CallSet
<1>9. DataToggle' \in [Endpoints -> Toggles]
  <2>1. FirstToggle(call.ep) \in Toggles
    BY <1>2, FirstToggleType
  <2> QED BY <1>1, <2>1 DEF ReturnToggle, Types
<1>10. Types'
  BY <1>1, <1>6, <1>8, <1>9 DEF Types, OthersInList
<1>11. EdsFit'
  <2>1. \A n \in DOMAIN Ed : Progress(f(n)) /\ InTree(f(n))
    BY <1>4 DEF EdsFit, Progress, InTree, First
  <2> QED BY <1>6, <1>7, <2>1 DEF EdsFit
<1>12. OneEach'
  BY <1>4, <1>6, <1>7 DEF OneEach
<1>13. Places'
  BY <1>1, <1>4, <1>5, <1>6, <1>7, <1>8 DEF Places, InSync, InCancel, OthersInList, Types
<1>14. CallFits'
  BY <1>1, <1>2, <1>4, <1>6, <1>7, <1>8 DEF CallFits, AtNotify, OthersInList, Types
<1> QED BY <1>10, <1>11, <1>12, <1>13, <1>14

\* OhciFreeInterruptEdByAddr() keeps StructInv.
LEMMA FreeEdKeeps ==
    ASSUME StructInv, OhciFreeInterruptEdByAddr
    PROVE  StructInv'
<1> USE DEF StructInv
<1> DEFINE f(n) == IF Ed[n].ep = call.ep THEN NoEd ELSE Ed[n]
<1>1. /\ Entry = NULL /\ call.fn = "freeEd"
      /\ InterruptSchedule' = {n \in InterruptSchedule : Ed[n].ep # call.ep}
      /\ Ed' = [n \in DOMAIN Ed |-> f(n)]
      /\ call' = [call EXCEPT !.fn = "enable"]
      /\ UNCHANGED <<InterruptContextList, PeriodicEnable, BulkHead, toggleVars, Entry>>
  BY DEF OhciFreeInterruptEdByAddr, MainRuns, bulkVars
<1>2. \A n \in DOMAIN Ed : Ed[n] \in EdSet
  BY EdFacts
<1>3. \A n \in DOMAIN Ed : /\ f(n) \in EdSet
                           /\ Ed[n].ep = call.ep => f(n) = NoEd
                           /\ Ed[n].ep # call.ep => f(n) = Ed[n]
  BY <1>2, NoEdFits
<1> HIDE DEF f
<1>4. Ed' \in Seq(EdSet) /\ DOMAIN Ed' = DOMAIN Ed
  BY <1>1, <1>3, Changed DEF Types
<1>5. \A n \in DOMAIN Ed : Ed'[n] = f(n)
  BY <1>1
<1>6. call'.fn = "enable" /\ call'.ep = call.ep /\ call' \in CallSet
  BY <1>1 DEF Types, CallSet
<1>7. Types'
  BY <1>1, <1>4, <1>6 DEF Types, toggleVars, CallFits
<1>8. EdsFit'
  BY <1>3, <1>4, <1>5, NoEdFits DEF EdsFit
<1>9. OneEach'
  BY <1>3, <1>4, <1>5, NoEdFits DEF OneEach
<1>10. Places'
  BY <1>1, <1>3, <1>4, <1>5, <1>6, NoEdFits DEF Places, InSync, InCancel, Types, CallFits
<1>11. CallFits'
  BY <1>1, <1>4, <1>6 DEF CallFits, AtNotify
<1> QED BY <1>7, <1>8, <1>9, <1>10, <1>11

\* The last poll of a bulk transfer keeps StructInv.
LEMMA BulkPolledKeeps ==
    ASSUME StructInv, BulkPolled
    PROVE  StructInv'
<1> USE DEF StructInv
<1>1. /\ Entry = NULL /\ call.fn = "bulk" /\ DataToggle' = BulkToggle
      /\ call' = [call EXCEPT !.fn = "bulkFree"]
      /\ UNCHANGED <<hostVars, PeriodicEnable, BulkHead, deviceToggle, Entry>>
  BY DEF BulkPolled, MainRuns, bulkVars
<1>2. call.ed \in DOMAIN Ed /\ Ed[call.ed].ep = call.ep /\ call.ep \in BulkEndpoints
  BY <1>1 DEF CallFits
<1>3. DataToggle' \in [Endpoints -> Toggles]
  <2>1. NextToggle(call.ed, call.toggle) \in Toggles
    <3> DEFINE tds == Ed[call.ed].tds
               good == {i \in DOMAIN tds : tds[i].cc = "NO_ERROR"}
    <3>1. /\ DOMAIN tds = 1 .. Len(tds) /\ Len(tds) \in Nat
          /\ \A i \in 1 .. Len(tds) : tds[i] \in TdSet
      BY <1>2, EdFacts
    <3>2. call.toggle \in Toggles
      BY DEF Types, CallSet
    <3>3. CASE good = {}
      BY <3>2, <3>3 DEF NextToggle
    <3>4. CASE good # {}
      <4>1. Progress(Ed[call.ed]) /\ First(Ed[call.ed]) \in 1 .. Len(tds) + 1
        BY <1>2, ResultIs DEF EdsFit
      <4>2. \A i \in 1 .. Len(tds) : tds[i].cc = "NO_ERROR" <=> i < First(Ed[call.ed])
        BY <1>2, <3>1, EdFacts DEF EdsFit, Progress, First, EdSet
      <4>3. First(Ed[call.ed]) - 1 \in good
        BY <3>1, <3>4, <4>1, <4>2
      <4>4. \A i \in good : i <= First(Ed[call.ed]) - 1
        BY <3>1, <4>1, <4>2
      <4>5. Max(good) = First(Ed[call.ed]) - 1
        <5>1. good \subseteq Int
          BY <3>1
        <5> QED BY <4>3, <4>4, <5>1, MaxIs
      <4>6. tds[Max(good)] \in TdSet
        BY <3>1, <4>3, <4>5
      <4>7. NextToggle(call.ed, call.toggle) = 1 - tds[Max(good)].toggle
        BY <3>4 DEF NextToggle
      <4>8. tds[Max(good)].toggle \in Toggles
        BY <4>6 DEF TdSet
      <4> HIDE DEF tds, good
      <4> QED BY <4>7, <4>8 DEF Toggles
    <3> QED BY <3>3, <3>4
  <2> QED BY <1>1, <2>1 DEF BulkToggle, Types
<1>4. /\ call'.fn = "bulkFree" /\ call'.ed = call.ed /\ call'.ep = call.ep /\ call' \in CallSet
  BY <1>1 DEF Types, CallSet
<1>5. Types'
  BY <1>1, <1>3, <1>4 DEF Types, hostVars
<1>6. EdsFit' /\ OneEach'
  BY <1>1 DEF EdsFit, OneEach, hostVars
<1>7. Places'
  BY <1>1, <1>4 DEF Places, hostVars, InSync, InCancel
<1>8. CallFits'
  BY <1>1, <1>4 DEF CallFits, AtNotify, hostVars
<1> QED BY <1>5, <1>6, <1>7, <1>8

\* The return of a bulk transfer keeps StructInv.
LEMMA BulkReturnsKeeps ==
    ASSUME StructInv, BulkReturns
    PROVE  StructInv'
<1> USE DEF StructInv
<1>1. /\ Entry = NULL /\ call.fn = "bulkFree"
      /\ Ed' = [Ed EXCEPT ![call.ed] = NoEd]
      /\ BulkHead' = NULL /\ call' = NoCall
      /\ UNCHANGED <<InterruptSchedule, InterruptContextList, PeriodicEnable, toggleVars, Entry>>
  BY DEF BulkReturns, MainRuns
<1>2. call.ed \in DOMAIN Ed /\ Ed[call.ed].ep = call.ep /\ call.ep \in BulkEndpoints
  BY <1>1 DEF CallFits
<1>3. /\ Ed' \in Seq(EdSet) /\ DOMAIN Ed' = DOMAIN Ed /\ Ed'[call.ed] = NoEd
      /\ \A m \in DOMAIN Ed : m # call.ed => Ed'[m] = Ed[m]
  BY <1>1, <1>2, NoEdFits, Replaced DEF Types
<1>4. call.ed \notin InterruptSchedule
  BY <1>2, EndpointsAssumption DEF Places
<1>5. call'.fn = "none" /\ call' \in CallSet
  BY <1>1 DEF NoCall, CallSet, NULL, Toggles
<1>6. Types'
  BY <1>1, <1>3, <1>5 DEF Types, NULL, toggleVars
<1>7. EdsFit'
  BY <1>3, NoEdFits DEF EdsFit
<1>8. OneEach'
  BY <1>3, NoEdFits DEF OneEach
<1>9. Places'
  BY <1>1, <1>3, <1>4, <1>5, NoEdFits DEF Places, InSync, InCancel, Types
<1>10. CallFits'
  BY <1>1, <1>5 DEF CallFits, AtNotify
<1> QED BY <1>6, <1>7, <1>8, <1>9, <1>10

\* Steps of the house keeper that only move its Entry keep StructInv.
LEMMA HouseKeeperKeeps ==
    ASSUME StructInv, OhciHouseKeeper \/ EndRound \/ ReportError
    PROVE  StructInv'
<1> USE DEF StructInv
<1>1. /\ UNCHANGED <<hostVars, PeriodicEnable, BulkHead, toggleVars, call>>
      /\ Entry # NULL => ~AtNotify
  BY DEF OhciHouseKeeper, EndRound, ReportError, CallFits, bulkVars
<1>2. Entry' \in InterruptContextList \cup {NULL} /\ (AtNotify => Entry' = NULL)
  <2>1. CASE OhciHouseKeeper
    <3>1. InterruptContextList # {} /\ Entry' = Min(InterruptContextList) /\ ~AtNotify
      BY <2>1 DEF OhciHouseKeeper
    <3>2. InterruptContextList \subseteq Nat
      BY Domains DEF Types
    <3> QED BY <3>1, <3>2, MinOfNats
  <2>2. CASE EndRound
    BY <2>2 DEF EndRound
  <2>3. CASE ReportError
    <3>1. Entry # NULL /\ Entry' = NextEntry(Entry)
      BY <2>3 DEF ReportError
    <3>2. Entry \in Nat
      BY <3>1, Domains DEF Types, NULL
    <3> QED BY <1>1, <3>1, <3>2, NextEntryInList
  <2> QED BY <2>1, <2>2, <2>3
<1>3. Types'
  BY <1>1, <1>2 DEF Types, hostVars, toggleVars
<1>4. EdsFit' /\ OneEach'
  BY <1>1 DEF EdsFit, OneEach, hostVars
<1>5. Places'
  BY <1>1 DEF Places, hostVars, InSync, InCancel
<1>6. CallFits'
  BY <1>1, <1>2 DEF CallFits, AtNotify, hostVars
<1> QED BY <1>3, <1>4, <1>5, <1>6

\* Re-activating a complete transfer keeps StructInv.
LEMMA ReportDataKeeps ==
    ASSUME StructInv, ReportData
    PROVE  StructInv'
<1>1. /\ Entry # NULL /\ Ed' = [Ed EXCEPT ![Entry] = Rearmed(Entry)]
      /\ Entry' = NextEntry(Entry)
      /\ UNCHANGED <<InterruptSchedule, InterruptContextList, PeriodicEnable, BulkHead,
                     toggleVars, call>>
  BY DEF ReportData, bulkVars
<1>2. Entry \in DOMAIN Ed /\ Types
  BY <1>1 DEF StructInv, Types
<1>3. Entry \in Nat
  BY <1>2, EdFacts
<1>4. Entry' \in InterruptContextList \cup {NULL}
  BY <1>1, <1>2, <1>3, NextEntryInList
<1>5. deviceToggle' \in [Endpoints -> Toggles]
  BY <1>1, <1>2 DEF Types, toggleVars
<1>6. UNCHANGED <<InterruptSchedule, InterruptContextList, PeriodicEnable, BulkHead,
                  DataToggle, call>>
  BY <1>1 DEF toggleVars
<1> DEFINE r == Rearmed(Entry)
<1>7. /\ r \in EdSet /\ Progress(r) /\ r.ep = Ed[Entry].ep /\ r.node = Ed[Entry].node
      /\ r.interval = Ed[Entry].interval /\ r.allocated = Ed[Entry].allocated
      /\ Len(r.tds) = Len(Ed[Entry].tds)
  BY <1>2, RearmedFits
<1>8. Ed' = [Ed EXCEPT ![Entry] = r]
  BY <1>1
<1> HIDE DEF r
<1> QED BY <1>1, <1>2, <1>4, <1>5, <1>6, <1>7, <1>8, EdKeeps

\* Steps of the HC keep StructInv.
LEMMA ControllerKeeps ==
    ASSUME StructInv, NEW n \in 1 .. MaxTransfers, PacketArrives(n) \/ Fails(n)
    PROVE  StructInv'
<1>1. /\ n \in DOMAIN Ed /\ Served(n)
      /\ UNCHANGED <<InterruptSchedule, InterruptContextList, PeriodicEnable, BulkHead,
                     DataToggle, call, Entry>>
  BY DEF PacketArrives, Fails, DeviceFails, toggleVars, bulkVars
<1>2. PICK cc \in {"NO_ERROR", "STALL", "ERROR"} : Ed' = [Ed EXCEPT ![n] = Retired(n, cc)]
  <2>1. CASE PacketArrives(n)
    BY <2>1, Zenon DEF PacketArrives
  <2>2. CASE Fails(n)
    BY <2>2 DEF Fails, DeviceFails
  <2> QED BY <2>1, <2>2
<1>3. deviceToggle' \in [Endpoints -> Toggles]
  <2>1. CASE PacketArrives(n)
    <3>1. deviceToggle' = [deviceToggle EXCEPT ![Ed[n].ep] = 1 - @]
      BY <2>1 DEF PacketArrives
    <3>2. \A e \in Endpoints : 1 - deviceToggle[e] \in Toggles
      BY DEF StructInv, Types, Toggles
    <3> QED BY <3>1, <3>2 DEF StructInv, Types
  <2>2. CASE Fails(n)
    BY <2>2 DEF Fails, DeviceFails, toggleVars, StructInv, Types
  <2> QED BY <2>1, <2>2
<1>4. /\ Types /\ Progress(Ed[n]) /\ ~Ed[n].Halted /\ Ed[n].next \in DOMAIN Ed[n].tds
  BY <1>1 DEF StructInv, EdsFit, Served
<1> DEFINE r == Retired(n, cc)
<1>5. /\ r \in EdSet /\ Progress(r) /\ r.ep = Ed[n].ep /\ r.node = Ed[n].node
      /\ r.interval = Ed[n].interval /\ r.allocated = Ed[n].allocated
      /\ Len(r.tds) = Len(Ed[n].tds)
  BY <1>1, <1>4, RetiredFits
<1>6. Ed' = [Ed EXCEPT ![n] = r]
  BY <1>2
<1>7. Entry' \in InterruptContextList \cup {NULL} /\ (Entry = NULL => Entry' = NULL)
  BY <1>1 DEF StructInv, Types
<1>8. UNCHANGED <<InterruptSchedule, InterruptContextList, PeriodicEnable, BulkHead,
                  DataToggle, call>>
  BY <1>1
<1> HIDE DEF r
<1> QED BY <1>1, <1>3, <1>5, <1>6, <1>7, <1>8, EdKeeps

\* A callback that cancels and submits again keeps StructInv.
LEMMA ResubmitKeeps ==
    ASSUME StructInv, CancelAndResubmit
    PROVE  StructInv'
<1> USE DEF StructInv
<1> DEFINE e == Ed[Entry].ep
           p == Len(Ed[Entry].tds)
           t == FirstToggle(e)
           linked == InterruptSchedule \ {Entry}
           eds == [Ed EXCEPT ![Entry] = NoEd]
           N == NewEd(e, PollingInterval[e],
                      OhciFindMinInterruptEDList(Depth(PollingInterval[e]), linked), t, p)
           k == Len(Ed) + 1
<1>1. Entry # NULL /\ Entry \in InterruptContextList /\ Entry \in DOMAIN Ed /\ Entry \in Nat
  BY Domains DEF CancelAndResubmit, Types
<1>2. e \in InterruptEndpoints /\ e \in Endpoints /\ e # NoEndpoint
  BY <1>1, EndpointsAssumption DEF Places, Types, Endpoints
<1>3. /\ p \in Nat \ {0} /\ t \in Toggles /\ PollingInterval[e] \in 1 .. 255
      /\ linked \in SUBSET DOMAIN Ed
  <2>1. p \in Nat \ {0}
    BY <1>1, EdFacts DEF Places
  <2>2. t \in Toggles
    BY <1>2, FirstToggleType
  <2> QED BY <1>2, <2>1, <2>2, EndpointsAssumption DEF Types
<1>4. N \in EdSet /\ Progress(N) /\ InTree(N) /\ N.ep = e /\ N.allocated /\ Len(N.tds) = p
  <2>1. FreshEd(N, e, PollingInterval[e], N.node, t, p) /\ InTree(N)
    BY <1>2, <1>3, Linking, Zenon
  <2> QED BY <2>1 DEF FreshEd
<1>5. /\ Ed' = Append(eds, N) /\ InterruptSchedule' = linked \cup {k} /\ PeriodicEnable'
      /\ DataToggle' = [DataToggle EXCEPT ![e] = (t + p) % 2]
      /\ InterruptContextList' = OthersInList(e) \cup {k}
      /\ Entry' \in {NextEntry(Entry), NULL}
      /\ UNCHANGED <<BulkHead, deviceToggle, call>>
  BY DEF CancelAndResubmit, Linked, bulkVars
<1> HIDE DEF N
<1>6. /\ eds \in Seq(EdSet) /\ DOMAIN eds = DOMAIN Ed /\ Len(eds) = Len(Ed) /\ eds[Entry] = NoEd
      /\ \A m \in DOMAIN Ed : m # Entry => eds[m] = Ed[m]
  BY <1>1, NoEdFits, Replaced DEF Types
<1> HIDE DEF eds
<1>7. /\ Ed' \in Seq(EdSet) /\ DOMAIN Ed' = DOMAIN Ed \cup {k} /\ k \notin DOMAIN Ed /\ Ed'[k] = N
      /\ Ed'[Entry] = NoEd /\ \A m \in DOMAIN Ed : m # Entry => Ed'[m] = Ed[m]
  <2> DEFINE new == Append(eds, N)
  <2>1. /\ new \in Seq(EdSet) /\ DOMAIN new = DOMAIN eds \cup {Len(eds) + 1}
        /\ Len(eds) + 1 \notin DOMAIN eds /\ new[Len(eds) + 1] = N
        /\ \A m \in DOMAIN eds : new[m] = eds[m]
    BY <1>4, <1>6, Appended
  <2> HIDE DEF new
  <2>2. Ed' = new
    BY <1>5 DEF new
  <2> QED BY <1>1, <1>6, <2>1, <2>2
<1> HIDE DEF k, t, p
<1>8. \A m \in DOMAIN Ed : Ed[m].ep = e => m = Entry
  BY <1>1, <1>2 DEF OneEach
<1>9. OthersInList(e) = InterruptContextList \ {Entry}
  BY <1>1, <1>8 DEF OthersInList, Types
<1>10. ~AtNotify
  BY <1>1 DEF CallFits
<1>11. call.fn \in {"sync", "bulk", "bulkFree"} => call.ed # Entry /\ call.ed \in DOMAIN Ed /\ call.ed # k
  BY <1>1, <1>7 DEF CallFits
<1> HIDE DEF e
<1>12. Types'
  <2>1. (t + p) % 2 \in Toggles
    BY <1>3 DEF Toggles
  <2>2. DataToggle' \in [Endpoints -> Toggles]
    BY <1>2, <1>5, <2>1 DEF Types
  <2>3. NextEntry(Entry) \in (InterruptContextList \ {Entry}) \cup {NULL}
    BY <1>1, NextEntryInList
  <2>4. Entry' \in InterruptContextList' \cup {NULL}
    BY <1>5, <1>9, <2>3
  <2> QED BY <1>5, <1>7, <1>9, <2>2, <2>4 DEF Types
<1>13. EdsFit'
  BY <1>1, <1>4, <1>7, NoEdFits DEF EdsFit
<1>14. OneEach'
  BY <1>1, <1>4, <1>7, <1>8, NoEdFits DEF OneEach
<1>15. Places'
  BY <1>1, <1>2, <1>3, <1>4, <1>5, <1>7, <1>9, <1>10, NoEdFits
  DEF Places, InSync, InCancel, AtNotify, Types
<1>16. CallFits'
  BY <1>1, <1>5, <1>7, <1>9, <1>10, <1>11 DEF CallFits, AtNotify, Types
<1> QED BY <1>12, <1>13, <1>14, <1>15, <1>16

\* A callback that cancels and cannot submit again keeps StructInv.
LEMMA FailKeeps ==
    ASSUME StructInv, NEW made \in 0 .. 1, CancelAndFail(made)
    PROVE  StructInv'
<1> USE DEF StructInv
<1> DEFINE e == Ed[Entry].ep
           t == FirstToggle(e)
<1>1. Entry # NULL /\ Entry \in InterruptContextList /\ Entry \in DOMAIN Ed /\ Entry \in Nat
  BY Domains DEF CancelAndFail, Types
<1>2. e \in InterruptEndpoints /\ e \in Endpoints /\ e # NoEndpoint
  BY <1>1, EndpointsAssumption DEF Places, Types, Endpoints
<1>3. t \in Toggles
  BY <1>2, FirstToggleType
<1>4. /\ Ed' = [Ed EXCEPT ![Entry] = NoEd] /\ InterruptSchedule' = InterruptSchedule \ {Entry}
      /\ PeriodicEnable' /\ DataToggle' = [DataToggle EXCEPT ![e] = (t + made) % 2]
      /\ InterruptContextList' = OthersInList(e)
      /\ Entry' = NextEntry(Entry)
      /\ UNCHANGED <<BulkHead, deviceToggle, call>>
  BY DEF CancelAndFail, bulkVars
<1>5. /\ Ed' \in Seq(EdSet) /\ DOMAIN Ed' = DOMAIN Ed /\ Ed'[Entry] = NoEd
      /\ \A m \in DOMAIN Ed : m # Entry => Ed'[m] = Ed[m]
  BY <1>1, <1>4, NoEdFits, Replaced DEF Types
<1> HIDE DEF t
<1>6. OthersInList(e) = InterruptContextList \ {Entry}
  BY <1>1, <1>2 DEF OthersInList, Types, OneEach
<1>7. ~AtNotify
  BY <1>1 DEF CallFits
<1>8. call.fn \in {"sync", "bulk", "bulkFree"} => call.ed # Entry /\ call.ed \in DOMAIN Ed
  BY <1>1 DEF CallFits
<1> HIDE DEF e
<1>9. Types'
  <2>1. (t + made) % 2 \in Toggles
    BY <1>3 DEF Toggles
  <2>2. DataToggle' \in [Endpoints -> Toggles]
    BY <1>2, <1>4, <2>1 DEF Types
  <2>3. Entry' \in InterruptContextList' \cup {NULL}
    BY <1>1, <1>4, <1>6, NextEntryInList
  <2> QED BY <1>4, <1>5, <1>6, <2>2, <2>3 DEF Types
<1>10. EdsFit'
  BY <1>5, NoEdFits DEF EdsFit
<1>11. OneEach'
  BY <1>5, NoEdFits DEF OneEach
<1>12. Places'
  BY <1>1, <1>4, <1>5, <1>6, <1>7, NoEdFits DEF Places, InSync, InCancel, AtNotify, Types
<1>13. CallFits'
  BY <1>1, <1>4, <1>5, <1>6, <1>7, <1>8 DEF CallFits, AtNotify, Types
<1> QED BY <1>9, <1>10, <1>11, <1>12, <1>13

\* The frames, the end of the bulk list and packets on freed descriptors keep it.
LEMMA FrameKeeps ==
    ASSUME StructInv, StartOfFrame \/ BulkListDone \/ \E e \in Endpoints : LatePacket(e)
    PROVE  StructInv'
<1>1. UNCHANGED <<hostVars, PeriodicEnable, BulkHead, DataToggle, call, Entry>>
  BY DEF StartOfFrame, BulkListDone, LatePacket, bulkVars, toggleVars
<1>2. deviceToggle' \in [Endpoints -> Toggles]
  <2>1. CASE StartOfFrame \/ BulkListDone
    BY <2>1 DEF StartOfFrame, BulkListDone, toggleVars, StructInv, Types
  <2>2. CASE \E e \in Endpoints : LatePacket(e)
    <3>1. PICK e \in Endpoints : deviceToggle' = [deviceToggle EXCEPT ![e] = 1 - @]
      BY <2>2 DEF LatePacket
    <3>2. 1 - deviceToggle[e] \in Toggles
      BY DEF StructInv, Types, Toggles
    <3> QED BY <3>1, <3>2 DEF StructInv, Types
  <2> QED BY <2>1, <2>2
<1> QED BY <1>1, <1>2
    DEF StructInv, Types, EdsFit, OneEach, Places, InSync, InCancel, CallFits, AtNotify, hostVars

\* Every step keeps StructInv.
LEMMA StructNext ==
    ASSUME StructInv, [Next]_vars
    PROVE  StructInv'
<1>1. CASE Submit
  BY <1>1, AsyncKeeps, SyncKeeps, CallerKeeps DEF Submit
<1>2. CASE CancelStep
  BY <1>2, FreeContextKeeps, FreeEdKeeps, CallerKeeps DEF CancelStep
<1>3. CASE BulkStep
  BY <1>3, BulkKeeps, BulkPolledKeeps, BulkReturnsKeeps DEF BulkStep
<1>4. CASE SyncEnds
  BY <1>4, CallerKeeps
<1>5. CASE OhciHouseKeeper \/ HouseKeeperStep
  BY <1>5, HouseKeeperKeeps, ReportDataKeeps, ResubmitKeeps, FailKeeps DEF HouseKeeperStep
<1>6. CASE \E n \in 1 .. MaxTransfers : PacketArrives(n) \/ Fails(n)
  BY <1>6, ControllerKeeps
<1>7. CASE StartOfFrame \/ BulkListDone \/ \E e \in Endpoints : LatePacket(e)
  BY <1>7, FrameKeeps
<1>8. CASE UNCHANGED vars
  BY <1>8 DEF vars, hostVars, bulkVars, toggleVars, StructInv, Types, EdsFit, OneEach, Places,
              InSync, InCancel, CallFits, AtNotify
<1> QED BY <1>1, <1>2, <1>3, <1>4, <1>5, <1>6, <1>7, <1>8 DEF Next

\* Through submission, service, cancel and resubmission every descriptor has one
\* owner, and the lists, the enable bits and the caller's place agree (OhciUrb.c,
\* Ohci.c).
THEOREM StructureKept == Spec => []StructInv
<1>1. Init => StructInv
  BY StructInit
<1>2. StructInv /\ [Next]_vars => StructInv'
  BY StructNext
<1> QED BY <1>1, <1>2, PTL DEF Spec

-----------------------------------------------------------------------------
(***************************************************************************)
(* What follows from the structure.                                        *)
(***************************************************************************)
\* The types of what only the HC and its registers keep.
HcTypes == hcPeriodic \in BOOLEAN /\ BulkFilled \in BOOLEAN /\ inHand \subseteq Endpoints

LEMMA HcTypesKept ==
    ASSUME StructInv, HcTypes, [Next]_vars
    PROVE  HcTypes'
<1>1. \A e \in Endpoints : InHandOf(e) \subseteq Endpoints
  BY DEF InHandOf
<1>2. CASE Submit \/ SyncEnds \/ OhciHouseKeeper \/ UNCHANGED vars
  BY <1>2 DEF Submit, OhciAsyncInterruptTransfer, OhciSyncInterruptTransfer, CancelAsyncInterrupt,
              OhciBulkTransfer, OutOfResources, ClearHalt, SyncEnds, OhciHouseKeeper, vars,
              bulkVars, hcVars, HcTypes
<1>3. CASE HouseKeeperStep
  BY <1>3 DEF HouseKeeperStep, EndRound, ReportData, ReportError, CancelAndResubmit,
              CancelAndFail, bulkVars, hcVars, HcTypes
<1>4. CASE CancelStep
  <2>1. CASE OhciFreeInterruptEdByAddr
    <3>1. call.ep \in Endpoints
      BY <2>1 DEF OhciFreeInterruptEdByAddr, StructInv, CallFits, Endpoints
    <3> QED BY <1>1, <2>1, <3>1 DEF OhciFreeInterruptEdByAddr, bulkVars, HcTypes
  <2>2. CASE OhciFreeInterruptContext \/ CancelReturns
    BY <2>2 DEF OhciFreeInterruptContext, CancelReturns, bulkVars, hcVars, HcTypes
  <2> QED BY <1>4, <2>1, <2>2 DEF CancelStep
<1>5. CASE BulkStep
  <2>1. CASE BulkReturns
    <3>1. call.ep \in Endpoints
      BY <2>1 DEF BulkReturns, StructInv, CallFits, Endpoints
    <3> QED BY <1>1, <2>1, <3>1 DEF BulkReturns, HcTypes
  <2>2. CASE BulkPolled \/ \E p \in SyncPackets : BulkListFilled(p)
    BY <2>2 DEF BulkPolled, BulkListFilled, bulkVars, hcVars, HcTypes
  <2> QED BY <1>5, <2>1, <2>2 DEF BulkStep
<1>6. CASE \E n \in 1 .. MaxTransfers : PacketArrives(n) \/ Fails(n)
  BY <1>6 DEF PacketArrives, Fails, DeviceFails, bulkVars, hcVars, HcTypes
<1>7. CASE StartOfFrame \/ BulkListDone \/ \E e \in Endpoints : LatePacket(e)
  BY <1>7 DEF StartOfFrame, BulkListDone, LatePacket, bulkVars, hcVars, HcTypes, StructInv, Types
<1> QED BY <1>2, <1>3, <1>4, <1>5, <1>6, <1>7 DEF Next

\* Descriptors, lists and toggles keep their types; an ED's next TD is one of its own or
\* the empty one behind them (OhciUrb.c).
THEOREM OhciTypes == Spec => []TypeOK
<1>1. StructInv /\ HcTypes => TypeOK
  <2> SUFFICES ASSUME StructInv, HcTypes PROVE TypeOK
    OBVIOUS
  <2>1. ASSUME NEW n \in DOMAIN Ed
        PROVE  /\ Ed[n].ep \in Endpoints \cup {NoEndpoint}
               /\ \A i \in DOMAIN Ed[n].tds : Ed[n].tds[i] \in TdSet
               /\ Ed[n].next \in 1 .. Len(Ed[n].tds) + 1
    BY EdFacts DEF StructInv, EdsFit, Progress, EdSet
  <2> QED BY <2>1 DEF TypeOK, StructInv, Types, TdSet, HcTypes
<1>2. Init => HcTypes
  BY DEF Init, HcTypes
<1>3. StructInv /\ HcTypes /\ [Next]_vars => HcTypes'
  BY HcTypesKept
<1> QED BY <1>1, <1>2, <1>3, StructureKept, PTL DEF Spec

\* Cancel and return free descriptors while the HC may be at work on them, but the
\* lists are disabled or the descriptors are taken off early enough: no frame begins
\* with freed TDs on a list the HC goes through (Ohci.c:993, :857).
THEOREM FreedBehindTheFrame == Spec => FramesBeginClean
<1> DEFINE Clean == StartOfFrame =>
             \A n \in DOMAIN Ed :
                 n = BulkHead \/ (n \in InterruptSchedule /\ hcPeriodic') => Ed[n].allocated
<1>1. StructInv => Clean
  <2> SUFFICES ASSUME StructInv, StartOfFrame, NEW n \in DOMAIN Ed,
                      n = BulkHead \/ (n \in InterruptSchedule /\ hcPeriodic')
               PROVE  Ed[n].allocated
    OBVIOUS
  <2>1. n # NULL /\ hcPeriodic' = PeriodicEnable
    BY EdFacts DEF StructInv, NULL, StartOfFrame
  <2>2. CASE n = BulkHead
    BY <2>1, <2>2 DEF StructInv, CallFits
  <2>3. CASE n \in InterruptSchedule /\ PeriodicEnable
    BY <2>3, EndpointsAssumption
    DEF StructInv, Places, CallFits, InSync, InCancel, AtNotify, Endpoints
  <2> QED BY <2>1, <2>2, <2>3
<1>2. StructInv /\ [Next]_vars => [Clean]_vars
  BY <1>1
<1> QED BY <1>2, StructureKept, PTL DEF Spec, FramesBeginClean

\* Whatever the other endpoints and their intervals, every scheduled interrupt ED is
\* visited in each of its intervals (OhciInterruptTransfer, OhciFindMinInterruptEDList).
THEOREM IntervalsAreKept == Spec => []RateHonoured
<1>1. StructInv => RateHonoured
  <2> SUFFICES ASSUME StructInv, NEW n \in InterruptSchedule, NEW start \in 0 .. 31
               PROVE  \E k \in 0 .. Ed[n].interval - 1 : VisitedIn((start + k) % 32, Ed[n].node)
    BY DEF RateHonoured
  <2>1. n \in DOMAIN Ed /\ Types
    BY DEF StructInv, Types
  <2>2. Ed[n] \in EdSet /\ InTree(Ed[n])
    BY <2>1, EdFacts DEF StructInv, EdsFit
  <2> QED BY <2>2, Visited
<1> QED BY <1>1, StructureKept, PTL

-----------------------------------------------------------------------------
(***************************************************************************)
(* Toggles.                                                                *)
(***************************************************************************)
LEMMA FreshToggles ==
    ASSUME NEW N, NEW e, NEW interval, NEW node, NEW t \in Toggles, NEW p \in Nat \ {0},
           FreshEd(N, e, interval, node, t, p)
    PROVE  /\ Alternates(N)
           /\ ToggleOf(N) = t
           /\ LastToggle(N) = (t + p) % 2
           /\ N.tds[1].toggle = t
<1>1. N.tds = DataTds(t, p) /\ Len(N.tds) = p /\ First(N) = 1
  BY DEF FreshEd
<1>2. /\ DataTds(t, p)[1].toggle = t
      /\ \A i \in 1 .. p - 1 : DataTds(t, p)[i + 1].toggle = 1 - DataTds(t, p)[i].toggle
      /\ (t + p) % 2 = 1 - DataTds(t, p)[p].toggle
  BY DataTdsAlternate
<1>3. ~(1 > p)
  OBVIOUS
<1> QED BY <1>1, <1>2, <1>3 DEF Alternates, ToggleOf, LastToggle

\* Retiring a TD moves the toggle by the packet that came, and leaves the end of
\* the transfer where it was.
LEMMA RetiredToggles ==
    ASSUME Types, NEW n \in DOMAIN Ed, Progress(Ed[n]), ~Ed[n].Halted,
           Ed[n].next \in DOMAIN Ed[n].tds, NEW cc \in {"NO_ERROR", "STALL", "ERROR"},
           Alternates(Ed[n])
    PROVE  /\ Alternates(Retired(n, cc))
           /\ ToggleOf(Ed[n]) = Ed[n].tds[Ed[n].next].toggle
           /\ ToggleOf(Retired(n, cc)) =
                IF cc = "NO_ERROR" THEN 1 - ToggleOf(Ed[n]) ELSE ToggleOf(Ed[n])
           /\ LastToggle(Retired(n, cc)) = LastToggle(Ed[n])
           /\ First(Retired(n, cc)) = 1 =>
                First(Ed[n]) = 1 /\ Retired(n, cc).tds[1].toggle = Ed[n].tds[1].toggle
           /\ Len(Ed[n].tds) = 1 => Retired(n, cc).tds[1].toggle = ToggleOf(Retired(n, cc))
<1> DEFINE r == Ed[n]
           R == Retired(n, cc)
           k == Ed[n].next
           L == Len(Ed[n].tds)
<1>1. /\ Len(R.tds) = L
      /\ First(R) = IF cc = "NO_ERROR" THEN k + 1 ELSE k
      /\ \A i \in 1 .. L : i # k => R.tds[i] = r.tds[i]
      /\ R.tds[k].toggle = R.ToggleCarry
      /\ R.ToggleCarry = IF cc = "NO_ERROR" THEN 1 - r.tds[k].toggle ELSE r.tds[k].toggle
  BY RetiredFits
<1>2. L \in Nat /\ k \in 1 .. L
  BY EdFacts
<1>3. First(r) = k /\ ToggleOf(r) = r.tds[k].toggle
  BY <1>2 DEF First, ToggleOf
<1>4. \A i \in 1 .. L : r.tds[i].toggle \in Toggles
  BY EdFacts DEF TdSet
<1>5. \A i \in 1 .. L - 1 : i >= k => r.tds[i + 1].toggle = 1 - r.tds[i].toggle
  BY <1>3 DEF Alternates
<1> HIDE DEF R
<1>6. CASE cc = "NO_ERROR"
  <2>1. First(R) = k + 1 /\ R.ToggleCarry = 1 - r.tds[k].toggle
    BY <1>1, <1>6
  <2>2. Alternates(R)
    BY <1>1, <1>2, <1>5, <2>1 DEF Alternates
  <2>3. ToggleOf(R) = 1 - r.tds[k].toggle
    BY <1>1, <1>2, <1>5, <2>1 DEF ToggleOf
  <2>4. LastToggle(R) = LastToggle(r)
    BY <1>1, <1>2, <1>3, <2>1 DEF LastToggle
  <2>5. L = 1 => R.tds[1].toggle = ToggleOf(R)
    BY <1>1, <1>2, <2>1, <2>3
  <2> QED BY <1>2, <1>3, <1>6, <2>1, <2>2, <2>3, <2>4, <2>5 DEF R
<1>7. CASE cc # "NO_ERROR"
  <2>1. First(R) = k /\ R.ToggleCarry = r.tds[k].toggle
    BY <1>1, <1>7
  <2>2. \A i \in 1 .. L : R.tds[i].toggle = r.tds[i].toggle
    BY <1>1, <2>1
  <2>3. Alternates(R)
    BY <1>1, <1>2, <1>5, <2>1, <2>2 DEF Alternates
  <2>4. ToggleOf(R) = r.tds[k].toggle
    BY <1>1, <1>2, <2>1, <2>2 DEF ToggleOf
  <2>5. LastToggle(R) = LastToggle(r)
    BY <1>1, <1>2, <1>3, <2>1, <2>2 DEF LastToggle
  <2>6. L = 1 => R.tds[1].toggle = ToggleOf(R)
    BY <1>1, <1>2, <2>1, <2>4
  <2>7. First(R) = 1 => First(r) = 1 /\ R.tds[1].toggle = r.tds[1].toggle
    BY <1>2, <1>3, <2>1, <2>2
  <2> QED BY <1>3, <1>7, <2>3, <2>4, <2>5, <2>6, <2>7 DEF R
<1> QED BY <1>6, <1>7

\* A re-activated TD goes on with ToggleCarry.
LEMMA RearmedToggles ==
    ASSUME Types, NEW n \in DOMAIN Ed, Len(Ed[n].tds) = 1
    PROVE  /\ Alternates(Rearmed(n))
           /\ ToggleOf(Rearmed(n)) = Ed[n].ToggleCarry
           /\ Rearmed(n).tds[1].toggle = Ed[n].ToggleCarry
<1> DEFINE t == Ed[n].ToggleCarry
           R == Rearmed(n)
<1>1. t \in Toggles
  BY EdFacts DEF EdSet
<1>2. R.tds = DataTds(t, 1) /\ Len(R.tds) = 1 /\ First(R) = 1
  BY RearmedFits
<1>3. DataTds(t, 1)[1].toggle = t
  BY <1>1, DataTdsAlternate
<1> HIDE DEF R
<1>4. Alternates(R) /\ ToggleOf(R) = t /\ R.tds[1].toggle = t
  BY <1>2, <1>3 DEF Alternates, ToggleOf
<1> QED BY <1>4 DEF R

\* A freed ED says nothing of toggles.
LEMMA NoEdToggles == Alternates(NoEd) /\ NoEd.ep \notin Endpoints
BY NoEdFits, EndpointsAssumption DEF Alternates

\* After OhciReset() the toggles are in step.
LEMMA ToggleInit == Init => ToggleInv
<1> SUFFICES ASSUME Init PROVE ToggleInv
  OBVIOUS
<1>1. DOMAIN Ed = {} /\ call.fn = "none" /\ DataToggle = deviceToggle
  BY DEF Init, NoCall
<1> QED BY <1>1 DEF ToggleInv, EdToggle, IdleToggle, CallToggle, LeftOver

\* An ED is added for an endpoint whose toggles are in step.
LEMMA EdAdded ==
    ASSUME StructInv, ToggleInv, NEW e \in Endpoints, NEW N, NEW k, NEW p \in Nat \ {0},
           NEW interval, NEW node,
           FreshEd(N, e, interval, node, DataToggle[e], p),
           \A n \in DOMAIN Ed : Ed[n].ep # e,
           call.fn \in {"none", "bulkStop"},
           DOMAIN Ed' = DOMAIN Ed \cup {k}, k \notin DOMAIN Ed, Ed'[k] = N,
           \A n \in DOMAIN Ed : Ed'[n] = Ed[n],
           DataToggle' = Flipped(e, p), UNCHANGED <<deviceToggle, Lost>>,
           \/ /\ call' = call
              /\ p = 1
              /\ InterruptContextList' = InterruptContextList \cup {k}
           \/ /\ call'.fn \in {"sync", "bulk"} /\ call'.ep = e /\ call'.ed = k
              /\ call'.toggle = DataToggle[e]
              /\ InterruptContextList' = InterruptContextList
    PROVE  ToggleInv'
<1>1. /\ Alternates(N) /\ ToggleOf(N) = DataToggle[e] /\ LastToggle(N) = (DataToggle[e] + p) % 2
      /\ N.tds[1].toggle = DataToggle[e]
  <2>1. DataToggle[e] \in Toggles
    BY DEF StructInv, Types
  <2> QED BY <2>1, FreshToggles
<1>2. N.ep = e /\ Len(N.tds) = p
  BY DEF FreshEd
<1>3. InterruptContextList \subseteq DOMAIN Ed
  BY DEF StructInv, Types
<1>4. e \notin Lost => DataToggle[e] = deviceToggle[e]
  BY <1>3 DEF ToggleInv, IdleToggle
<1>5. /\ DataToggle'[e] = (DataToggle[e] + p) % 2
      /\ \A x \in Endpoints : x # e => DataToggle'[x] = DataToggle[x]
  BY DEF Flipped, StructInv, Types
<1>6. EdToggle'
  <2> SUFFICES ASSUME NEW m \in DOMAIN Ed \cup {k}
               PROVE  /\ Alternates(Ed'[m])
                      /\ Ed'[m].ep \in Endpoints \ Lost /\ Ed'[m].allocated =>
                           ToggleOf(Ed'[m]) = deviceToggle[Ed'[m].ep]
                      /\ m \in InterruptContextList' =>
                           Len(Ed'[m].tds) = 1 /\ Ed'[m].tds[1].toggle = ToggleOf(Ed'[m])
    BY DEF EdToggle
  <2>1. CASE m = k
    BY <1>1, <1>2, <1>3, <1>4, <2>1
  <2>2. CASE m # k
    BY <2>2 DEF ToggleInv, EdToggle
  <2> QED BY <2>1, <2>2
<1>7. IdleToggle'
  BY <1>2, <1>3, <1>5 DEF ToggleInv, IdleToggle
<1>8. CallToggle'
  BY <1>1, <1>5 DEF CallToggle
<1>9. LeftOver'
  BY <1>2 DEF ToggleInv, LeftOver
<1> QED BY <1>6, <1>7, <1>8, <1>9 DEF ToggleInv

\* OhciAsyncInterruptTransfer() keeps ToggleInv.
LEMMA AsyncToggles ==
    ASSUME StructInv, ToggleInv, AsyncPackets \subseteq {1},
           NEW e \in InterruptEndpoints, NEW p \in AsyncPackets, OhciAsyncInterruptTransfer(e, p)
    PROVE  ToggleInv'
<1> DEFINE N == NewEd(e, PollingInterval[e],
                      OhciFindMinInterruptEDList(Depth(PollingInterval[e]), InterruptSchedule),
                      DataToggle[e], p)
           k == Len(Ed) + 1
<1>1. /\ e \in Endpoints /\ DataToggle[e] \in Toggles /\ PollingInterval[e] \in 1 .. 255
      /\ p \in Nat \ {0} /\ InterruptSchedule \in SUBSET DOMAIN Ed /\ Ed \in Seq(EdSet) /\ p = 1
  BY EndpointsAssumption, BoundsAssumption DEF StructInv, Types, Endpoints
<1>2. FreshEd(N, e, PollingInterval[e], N.node, DataToggle[e], p)
  BY <1>1, Linking, Zenon
<1>3. /\ Ed' = Append(Ed, N) /\ InterruptContextList' = InterruptContextList \cup {k}
      /\ DataToggle' = Flipped(e, p) /\ UNCHANGED <<deviceToggle, Lost>> /\ call' = call
      /\ call.fn = "none"
  BY DEF OhciAsyncInterruptTransfer, Linked, AtRest, NoCall, Lost
<1>4. \A n \in DOMAIN Ed : Ed[n].ep # e
  BY DEF OhciAsyncInterruptTransfer, InUse
<1>5. N \in EdSet
  BY <1>2 DEF FreshEd
<1> HIDE DEF N, k
<1>6. /\ DOMAIN Ed' = DOMAIN Ed \cup {k} /\ k \notin DOMAIN Ed /\ Ed'[k] = N
      /\ \A n \in DOMAIN Ed : Ed'[n] = Ed[n]
  BY <1>1, <1>3, <1>5, Appended DEF k
<1> QED BY <1>1, <1>2, <1>3, <1>4, <1>6, EdAdded

\* OhciSyncInterruptTransfer() keeps ToggleInv.
LEMMA SyncToggles ==
    ASSUME StructInv, ToggleInv,
           NEW e \in InterruptEndpoints, NEW p \in SyncPackets, OhciSyncInterruptTransfer(e, p)
    PROVE  ToggleInv'
<1> DEFINE N == NewEd(e, 1, OhciFindMinInterruptEDList(Depth(1), InterruptSchedule),
                      DataToggle[e], p)
           k == Len(Ed) + 1
<1>1. /\ e \in Endpoints /\ DataToggle[e] \in Toggles /\ 1 \in 1 .. 255
      /\ p \in Nat \ {0} /\ InterruptSchedule \in SUBSET DOMAIN Ed /\ Ed \in Seq(EdSet)
  BY BoundsAssumption DEF StructInv, Types, Endpoints
<1>2. FreshEd(N, e, 1, N.node, DataToggle[e], p)
  BY <1>1, Linking, Zenon
<1>3. /\ Ed' = Append(Ed, N) /\ InterruptContextList' = InterruptContextList
      /\ DataToggle' = Flipped(e, p) /\ UNCHANGED <<deviceToggle, Lost>>
      /\ call' = [fn |-> "sync", ed |-> k, ep |-> e, toggle |-> DataToggle[e]]
      /\ call.fn = "none"
  BY DEF OhciSyncInterruptTransfer, Linked, AtRest, NoCall, Lost
<1>4. \A n \in DOMAIN Ed : Ed[n].ep # e
  BY DEF OhciSyncInterruptTransfer, InUse
<1>5. N \in EdSet
  BY <1>2 DEF FreshEd
<1> HIDE DEF N, k
<1>6. /\ DOMAIN Ed' = DOMAIN Ed \cup {k} /\ k \notin DOMAIN Ed /\ Ed'[k] = N
      /\ \A n \in DOMAIN Ed : Ed'[n] = Ed[n]
  BY <1>1, <1>3, <1>5, Appended DEF k
<1>7. call'.fn = "sync" /\ call'.ep = e /\ call'.ed = k /\ call'.toggle = DataToggle[e]
  BY <1>3
<1> QED BY <1>1, <1>2, <1>3, <1>4, <1>6, <1>7, EdAdded

\* Giving the bulk list its ED keeps ToggleInv.
LEMMA BulkToggles ==
    ASSUME StructInv, ToggleInv, NEW p \in SyncPackets, BulkListFilled(p)
    PROVE  ToggleInv'
<1> DEFINE e == call.ep
           N == NewEd(e, 1, <<5, 0>>, DataToggle[e], p)
           k == Len(Ed) + 1
<1>1. call.fn = "bulkStop" /\ e \in BulkEndpoints
  BY DEF BulkListFilled, StructInv, CallFits
<1>2. /\ e \in Endpoints /\ DataToggle[e] \in Toggles /\ 1 \in 1 .. 255 /\ <<5, 0>> \in Nodes
      /\ p \in Nat \ {0} /\ Ed \in Seq(EdSet)
  BY <1>1, BoundsAssumption DEF StructInv, Types, Endpoints, Nodes
<1>3. FreshEd(N, e, 1, <<5, 0>>, DataToggle[e], p)
  BY <1>2, NewEdFits, Zenon
<1>4. /\ Ed' = Append(Ed, N) /\ InterruptContextList' = InterruptContextList
      /\ DataToggle' = Flipped(e, p) /\ UNCHANGED <<deviceToggle, Lost>>
      /\ call' = [call EXCEPT !.fn = "bulk", !.ed = k, !.toggle = DataToggle[e]]
  BY DEF BulkListFilled, Lost
<1>5. \A n \in DOMAIN Ed : Ed[n].ep # e
  BY <1>1, <1>2, EndpointsAssumption DEF StructInv, Places, InSync, InCancel, Types
<1>6. N \in EdSet
  BY <1>3 DEF FreshEd
<1> HIDE DEF N, k
<1>7. /\ DOMAIN Ed' = DOMAIN Ed \cup {k} /\ k \notin DOMAIN Ed /\ Ed'[k] = N
      /\ \A n \in DOMAIN Ed : Ed'[n] = Ed[n]
  BY <1>2, <1>4, <1>6, Appended DEF k
<1>8. call'.fn = "bulk" /\ call'.ep = e /\ call'.ed = k /\ call'.toggle = DataToggle[e]
  BY <1>4 DEF StructInv, Types, CallSet
<1> HIDE DEF e
<1> QED BY <1>1, <1>2, <1>3, <1>4, <1>5, <1>7, <1>8, EdAdded

\* Steps of the caller that submit nothing keep ToggleInv.
LEMMA CallerToggles ==
    ASSUME StructInv, ToggleInv,
           \/ \E e \in InterruptEndpoints : CancelAsyncInterrupt(e)
           \/ \E e \in Endpoints : \E made \in 0 .. 1 : OutOfResources(e, made)
           \/ \E e \in Endpoints : ClearHalt(e)
           \/ CancelReturns
           \/ SyncEnds
           \/ \E e \in BulkEndpoints : OhciBulkTransfer(e)
    PROVE  ToggleInv'
<1> USE DEF ToggleInv
<1>1. CASE \E e \in InterruptEndpoints : CancelAsyncInterrupt(e)
  <2>1. PICK e \in InterruptEndpoints : CancelAsyncInterrupt(e)
    BY <1>1
  <2>2. /\ call = NoCall /\ call' = [NoCall EXCEPT !.fn = "freeContext", !.ep = e]
        /\ UNCHANGED <<Ed, InterruptContextList, DataToggle, deviceToggle, Lost>>
    BY <2>1 DEF CancelAsyncInterrupt, AtRest, Cancel, hostVars, toggleVars, Lost
  <2>3. call.fn = "none" /\ call'.fn = "freeContext"
    BY <2>2 DEF NoCall
  <2> QED BY <2>2, <2>3 DEF EdToggle, IdleToggle, CallToggle, LeftOver
<1>2. CASE \E e \in Endpoints : \E made \in 0 .. 1 : OutOfResources(e, made)
  <2>1. PICK e \in Endpoints, made \in 0 .. 1 : OutOfResources(e, made)
    BY <1>2
  <2>2. /\ DataToggle' = Flipped(e, made) /\ call = NoCall
        /\ Lost' = IF made = 0 THEN Lost ELSE Lost \cup {e}
        /\ UNCHANGED <<Ed, InterruptContextList, deviceToggle, call>>
    BY <2>1 DEF OutOfResources, hostVars, AtRest, Lost
  <2>3. call.fn = "none"
    BY <2>2 DEF NoCall
  <2>4. \A x \in Endpoints : x \notin Lost' => x \notin Lost /\ DataToggle'[x] = DataToggle[x]
    BY <2>2 DEF Flipped, StructInv, Types, Toggles
  <2> QED BY <2>2, <2>3, <2>4 DEF EdToggle, IdleToggle, CallToggle, LeftOver
<1>3. CASE \E e \in Endpoints : ClearHalt(e)
  <2>1. PICK e \in Endpoints : ClearHalt(e)
    BY <1>3
  <2>2. /\ DataToggle' = [DataToggle EXCEPT ![e] = 0]
        /\ deviceToggle' = [deviceToggle EXCEPT ![e] = 0]
        /\ Lost' = Lost \ {e} /\ call = NoCall
        /\ UNCHANGED <<Ed, InterruptContextList, call>>
        /\ \A n \in DOMAIN Ed : Ed[n].ep # e
    BY <2>1 DEF ClearHalt, hostVars, AtRest, InUse, Lost
  <2>3. call.fn = "none"
    BY <2>2 DEF NoCall
  <2>4. /\ DataToggle'[e] = 0 /\ deviceToggle'[e] = 0
        /\ \A x \in Endpoints : x # e =>
             DataToggle'[x] = DataToggle[x] /\ deviceToggle'[x] = deviceToggle[x]
    BY <2>2 DEF StructInv, Types
  <2> QED BY <2>2, <2>3, <2>4 DEF EdToggle, IdleToggle, CallToggle, LeftOver
<1>4. CASE CancelReturns
  <2>1. /\ call.fn = "enable" /\ call' = NoCall
        /\ UNCHANGED <<Ed, InterruptContextList, DataToggle, deviceToggle, Lost>>
    BY <1>4 DEF CancelReturns, hostVars, toggleVars, Lost
  <2>2. call'.fn = "none"
    BY <2>1 DEF NoCall
  <2> QED BY <2>1, <2>2 DEF EdToggle, IdleToggle, CallToggle, LeftOver
<1>5. CASE SyncEnds
  <2>1. /\ call.fn = "sync"
        /\ call' = [NoCall EXCEPT !.fn = "freeContext", !.ep = call.ep]
        /\ Lost' = IF Result(call.ed) = "NO_ERROR" THEN Lost ELSE Lost \cup {call.ep}
        /\ UNCHANGED <<Ed, InterruptContextList, DataToggle, deviceToggle>>
    BY <1>5 DEF SyncEnds, Cancel, hostVars, Lost
  <2>2. call'.fn = "freeContext"
    BY <2>1 DEF NoCall
  <2>3. /\ call.ed \in DOMAIN Ed /\ Ed[call.ed].ep = call.ep /\ Ed[call.ed].allocated
        /\ call.ep \in Endpoints
    BY <2>1 DEF StructInv, CallFits, Endpoints
  <2>4. Result(call.ed) = "NO_ERROR" => First(Ed[call.ed]) > Len(Ed[call.ed].tds)
    <3>1. Types /\ Progress(Ed[call.ed])
      BY <2>3 DEF StructInv, EdsFit
    <3>2. /\ First(Ed[call.ed]) \in 1 .. Len(Ed[call.ed].tds) + 1
          /\ First(Ed[call.ed]) <= Len(Ed[call.ed].tds) => Result(call.ed) # "NO_ERROR"
          /\ Len(Ed[call.ed].tds) \in Nat
      BY <2>3, <3>1, ResultIs, EdFacts
    <3> QED BY <3>2
  <2>5. call.ep \notin Lost' => DataToggle[call.ep] = deviceToggle[call.ep]
    BY <2>1, <2>3, <2>4 DEF EdToggle, CallToggle, ToggleOf, LastToggle
  <2>6. Lost \subseteq Lost'
    BY <2>1
  <2>7. EdToggle' /\ IdleToggle' /\ CallToggle'
    BY <2>1, <2>2, <2>5, <2>6 DEF EdToggle, IdleToggle, CallToggle
  <2>8. Result(call.ed) = "NO_ERROR" => Quiet(Ed[call.ed])
    BY <2>4 DEF First, Quiet
  <2>9. LeftOver'
    BY <2>1, <2>2, <2>3, <2>6, <2>8 DEF LeftOver
  <2> QED BY <2>7, <2>9
<1>6. CASE \E e \in BulkEndpoints : OhciBulkTransfer(e)
  <2>1. PICK e \in BulkEndpoints : OhciBulkTransfer(e)
    BY <1>6
  <2>2. /\ call = NoCall /\ call' = [NoCall EXCEPT !.fn = "bulkStop", !.ep = e]
        /\ UNCHANGED <<Ed, InterruptContextList, DataToggle, deviceToggle, Lost>>
    BY <2>1 DEF OhciBulkTransfer, AtRest, hostVars, toggleVars, Lost
  <2>3. call.fn = "none" /\ call'.fn = "bulkStop"
    BY <2>2 DEF NoCall
  <2> QED BY <2>2, <2>3 DEF EdToggle, IdleToggle, CallToggle, LeftOver
<1> QED BY <1>1, <1>2, <1>3, <1>4, <1>5, <1>6

\* OhciFreeInterruptContext() returns the toggle the device will send.
LEMMA FreeContextToggles ==
    ASSUME StructInv, ToggleInv, OhciFreeInterruptContext
    PROVE  ToggleInv'
<1> USE DEF ToggleInv
<1> DEFINE f(n) == IF n \in InterruptContextList /\ Ed[n].ep = call.ep
                   THEN [Ed[n] EXCEPT !.allocated = FALSE] ELSE Ed[n]
           e == call.ep
<1>1. /\ call.fn = "freeContext" /\ DataToggle' = [DataToggle EXCEPT ![e] = FirstToggle(e)]
      /\ InterruptContextList' = {n \in InterruptContextList : Ed[n].ep # e}
      /\ Ed' = [n \in DOMAIN Ed |-> f(n)]
      /\ call' = [call EXCEPT !.fn = "freeEd"]
      /\ UNCHANGED <<deviceToggle, Lost>>
  BY DEF OhciFreeInterruptContext, ReturnToggle, OthersInList, Lost
<1>2. e \in Endpoints /\ InterruptContextList \subseteq DOMAIN Ed
  BY <1>1 DEF StructInv, CallFits, Endpoints, Types
<1>3. call'.fn = "freeEd"
  BY <1>1 DEF StructInv, Types, CallSet
<1>4. ASSUME NEW n \in DOMAIN Ed
      PROVE  /\ Ed'[n].ep = Ed[n].ep
             /\ Ed'[n].allocated => Ed[n].allocated
             /\ Ed'[n].tds = Ed[n].tds
             /\ Alternates(Ed[n]) => Alternates(Ed'[n])
             /\ ToggleOf(Ed'[n]) = ToggleOf(Ed[n])
             /\ Quiet(Ed[n]) => Quiet(Ed'[n])
             /\ n \in InterruptContextList /\ Ed[n].ep = e => ~Ed'[n].allocated
  <2> DEFINE r == Ed[n]
             q == [r EXCEPT !.allocated = FALSE]
  <2>1. r \in EdSet
    BY EdFacts DEF StructInv
  <2>2. /\ Ed'[n] = q \/ Ed'[n] = r
        /\ n \in InterruptContextList /\ Ed[n].ep = e => Ed'[n] = q
    BY <1>1, Zenon
  <2> HIDE DEF r
  <2>3. /\ q.ep = r.ep /\ q.tds = r.tds /\ q.next = r.next /\ q.Halted = r.Halted
        /\ q.ToggleCarry = r.ToggleCarry
    BY <2>1 DEF EdSet
  <2>4. ~q.allocated
    BY <2>1 DEF EdSet
  <2> HIDE DEF q
  <2>5. First(q) = First(r)
    BY <2>3 DEF First
  <2>6. /\ ToggleOf(q) = ToggleOf(r) /\ (Alternates(r) => Alternates(q))
        /\ Quiet(r) => Quiet(q)
    BY <2>3, <2>5 DEF ToggleOf, Alternates, Quiet
  <2> QED BY <2>2, <2>3, <2>4, <2>6 DEF r
<1>5. DOMAIN Ed' = DOMAIN Ed
  BY <1>1
<1> HIDE DEF f
<1>6. EdToggle'
  BY <1>1, <1>4, <1>5 DEF EdToggle
<1>7. /\ DataToggle'[e] = FirstToggle(e)
      /\ \A x \in Endpoints : x # e => DataToggle'[x] = DataToggle[x]
  BY <1>1, <1>2 DEF StructInv, Types
<1>8. e \notin Lost => FirstToggle(e) = deviceToggle[e]
  <2>1. CASE \E n \in InterruptContextList : Ed[n].ep = e
    <3>1. PICK n \in InterruptContextList : Ed[n].ep = e
      BY <2>1
    <3>2. FirstToggle(e) = Ed[n].tds[1].toggle
      BY <1>2, <3>1, FirstToggleType
    <3>3. Ed[n].allocated
      BY DEF StructInv, Places
    <3> QED BY <1>2, <3>1, <3>2, <3>3 DEF EdToggle
  <2>2. CASE ~ \E n \in InterruptContextList : Ed[n].ep = e
    <3>1. FirstToggle(e) = DataToggle[e]
      BY <2>2 DEF FirstToggle
    <3> QED BY <1>1, <1>2, <2>2, <3>1 DEF IdleToggle
  <2> QED BY <2>1, <2>2
<1>9. IdleToggle'
  <2> SUFFICES ASSUME NEW x \in Endpoints, x \notin Lost
               PROVE  \/ DataToggle'[x] = deviceToggle[x]
                      \/ \E n \in InterruptContextList' : Ed'[n].ep = x
    BY <1>1 DEF IdleToggle
  <2>1. CASE x = e
    BY <1>7, <1>8, <2>1
  <2>2. CASE x # e
    <3>1. \/ DataToggle[x] = deviceToggle[x]
          \/ \E n \in InterruptContextList : Ed[n].ep = x
      BY <1>1 DEF IdleToggle
    <3>2. CASE DataToggle[x] = deviceToggle[x]
      BY <1>7, <2>2, <3>2
    <3>3. CASE \E n \in InterruptContextList : Ed[n].ep = x
      <4>1. PICK n \in InterruptContextList : Ed[n].ep = x
        BY <3>3
      <4>2. n \in InterruptContextList' /\ Ed'[n].ep = x
        BY <1>1, <1>2, <1>4, <2>2, <4>1
      <4> QED BY <4>2
    <3> QED BY <3>1, <3>2, <3>3
  <2> QED BY <2>1, <2>2
<1>10. CallToggle'
  BY <1>3 DEF CallToggle
<1>11. LeftOver'
  BY <1>1, <1>4, <1>5 DEF LeftOver
<1> QED BY <1>6, <1>9, <1>10, <1>11

\* OhciFreeInterruptEdByAddr() keeps ToggleInv.
LEMMA FreeEdToggles ==
    ASSUME StructInv, ToggleInv, OhciFreeInterruptEdByAddr
    PROVE  ToggleInv'
<1> USE DEF ToggleInv
<1> DEFINE f(n) == IF Ed[n].ep = call.ep THEN NoEd ELSE Ed[n]
<1>1. /\ call.fn = "freeEd" /\ Ed' = [n \in DOMAIN Ed |-> f(n)]
      /\ call' = [call EXCEPT !.fn = "enable"]
      /\ UNCHANGED <<InterruptContextList, DataToggle, deviceToggle, Lost>>
  BY DEF OhciFreeInterruptEdByAddr, toggleVars, Lost
<1>2. call'.fn = "enable"
  BY <1>1 DEF StructInv, Types, CallSet
<1>3. \A n \in InterruptContextList : n \in DOMAIN Ed /\ Ed[n].ep # call.ep
  BY <1>1 DEF StructInv, Types, CallFits
<1>4. DOMAIN Ed' = DOMAIN Ed /\ \A n \in DOMAIN Ed : Ed'[n] = IF Ed[n].ep = call.ep THEN NoEd ELSE Ed[n]
  BY <1>1
<1>5. EdToggle'
  BY <1>1, <1>3, <1>4, NoEdToggles DEF EdToggle
<1>6. IdleToggle' /\ CallToggle'
  BY <1>1, <1>2, <1>3, <1>4 DEF IdleToggle, CallToggle
<1>7. LeftOver'
  BY <1>1, <1>4, NoEdToggles DEF LeftOver
<1> QED BY <1>5, <1>6, <1>7

\* A bulk transfer that succeeds, or fails on its first packet, has the toggle the
\* device will send, and leaves nothing for the HC to do.
LEMMA BulkPolledToggles ==
    ASSUME StructInv, ToggleInv, BulkPolled
    PROVE  ToggleInv'
<1> USE DEF ToggleInv
<1> DEFINE c == call.ed
           e == call.ep
           L == Len(Ed[c].tds)
           F == First(Ed[c])
<1>1. /\ call.fn = "bulk" /\ DataToggle' = BulkToggle
      /\ Lost' = IF HalfWay THEN Lost \cup {e} ELSE Lost
      /\ call' = [call EXCEPT !.fn = "bulkFree"]
      /\ UNCHANGED <<Ed, InterruptContextList, deviceToggle>>
  BY DEF BulkPolled, hostVars, Lost
<1>2. /\ c \in DOMAIN Ed /\ Ed[c].ep = e /\ e \in Endpoints /\ Ed[c].allocated /\ L > 0
      /\ c \notin InterruptContextList /\ Types /\ Progress(Ed[c])
  BY <1>1 DEF StructInv, CallFits, Endpoints, EdsFit
<1>3. call'.fn = "bulkFree"
  BY <1>1 DEF StructInv, Types, CallSet
<1>4. Lost \subseteq Lost'
  BY <1>1
<1>5. EdToggle'
  BY <1>1, <1>4 DEF EdToggle
<1>6. \A x \in Endpoints : x # e => DataToggle'[x] = DataToggle[x]
  BY <1>1, <1>2 DEF BulkToggle, Types
<1>7. e \notin Lost' => DataToggle'[e] = deviceToggle[e] /\ Quiet(Ed[c])
  <2> SUFFICES ASSUME e \notin Lost' PROVE DataToggle'[e] = deviceToggle[e] /\ Quiet(Ed[c])
    OBVIOUS
  <2>1. e \notin Lost /\ ~HalfWay
    BY <1>1
  <2>2. ToggleOf(Ed[c]) = deviceToggle[e]
    BY <1>2, <2>1 DEF EdToggle
  <2>3. /\ L \in Nat /\ F \in 1 .. L + 1 /\ DOMAIN Ed[c].tds = 1 .. L
        /\ Result(c) = IF F > L THEN "NO_ERROR" ELSE Ed[c].tds[F].cc
        /\ F <= L => IF Ed[c].Halted THEN Ed[c].tds[F].cc \in {"STALL", "ERROR"}
                     ELSE Ed[c].tds[F].cc = "TOBE_PROCESSED"
    BY <1>2, ResultIs, EdFacts
  <2>4. CASE F > L
    <3>1. Result(c) = "NO_ERROR" /\ DataToggle' = DataToggle
      BY <1>1, <2>3, <2>4 DEF BulkToggle
    <3>2. DataToggle[e] = Ed[c].ToggleCarry /\ ToggleOf(Ed[c]) = Ed[c].ToggleCarry
      BY <1>1, <2>4 DEF CallToggle, LastToggle, ToggleOf
    <3>3. Quiet(Ed[c])
      BY <2>4 DEF First, Quiet
    <3> QED BY <2>2, <3>1, <3>2, <3>3
  <2>5. CASE F <= L
    <3>1. ~Waiting /\ Result(c) # "TOBE_PROCESSED" /\ Ed[c].tds[1].cc # "NO_ERROR"
      <4>1. Result(c) # "NO_ERROR"
        BY <2>3, <2>5
      <4> QED BY <2>1, <4>1 DEF HalfWay, Waiting
    <3>2. Result(c) \in {"STALL", "ERROR"}
      BY <2>3, <2>5, <3>1
    <3>3. F = 1
      <4>1. 1 < F => Ed[c].tds[1].cc = "NO_ERROR"
        BY <1>2, <2>3 DEF Progress
      <4> QED BY <2>3, <3>1, <3>2, <4>1
    <3>4. \A i \in 1 .. L : Ed[c].tds[i].cc # "NO_ERROR"
      <4>1. Ed[c].Halted
        BY <2>3, <2>5, <3>1
      <4>2. Ed[c].next = 2
        BY <1>2, <3>3, <4>1, EdFacts DEF First
      <4>3. \A i \in 1 .. L : i >= 2 => Ed[c].tds[i].cc = "TOBE_PROCESSED"
        BY <1>2, <4>2 DEF Progress
      <4> QED BY <2>3, <3>1, <3>2, <4>3
    <3>5. NextToggle(c, call.toggle) = call.toggle
      BY <2>3, <3>4 DEF NextToggle
    <3>6. DataToggle'[e] = call.toggle
      BY <1>1, <1>2, <3>1, <3>2, <3>5 DEF BulkToggle, Types
    <3>7. Ed[c].tds[1].toggle = call.toggle /\ ToggleOf(Ed[c]) = Ed[c].tds[1].toggle
      <4>1. ~(F > L)
        BY <2>3, <2>5
      <4> QED BY <1>1, <3>3, <4>1 DEF CallToggle, ToggleOf
    <3>8. Quiet(Ed[c])
      BY <2>3, <2>5, <3>1 DEF Quiet
    <3> QED BY <2>2, <3>6, <3>7, <3>8
  <2> QED BY <2>3, <2>4, <2>5
<1>8. IdleToggle'
  <2> SUFFICES ASSUME NEW x \in Endpoints, x \notin Lost'
               PROVE  \/ DataToggle'[x] = deviceToggle[x]
                      \/ \E n \in InterruptContextList : Ed[n].ep = x
    BY <1>1 DEF IdleToggle
  <2>1. CASE x = e
    BY <1>7, <2>1
  <2>2. CASE x # e
    BY <1>1, <1>4, <1>6, <2>2 DEF IdleToggle
  <2> QED BY <2>1, <2>2
<1>9. CallToggle'
  BY <1>3 DEF CallToggle
<1>10. LeftOver'
  BY <1>1, <1>2, <1>3, <1>4, <1>7 DEF LeftOver
<1> QED BY <1>5, <1>8, <1>9, <1>10

\* The return of a bulk transfer keeps ToggleInv.
LEMMA BulkReturnsToggles ==
    ASSUME StructInv, ToggleInv, BulkReturns
    PROVE  ToggleInv'
<1> USE DEF ToggleInv
<1> DEFINE c == call.ed
<1>1. /\ call.fn = "bulkFree" /\ Ed' = [Ed EXCEPT ![c] = NoEd] /\ call' = NoCall
      /\ UNCHANGED <<InterruptContextList, DataToggle, deviceToggle, Lost>>
  BY DEF BulkReturns, toggleVars, Lost
<1>2. c \in DOMAIN Ed /\ c \notin InterruptContextList /\ InterruptContextList \subseteq DOMAIN Ed
  BY <1>1 DEF StructInv, CallFits, Types
<1>3. /\ DOMAIN Ed' = DOMAIN Ed /\ Ed'[c] = NoEd
      /\ \A m \in DOMAIN Ed : m # c => Ed'[m] = Ed[m]
  BY <1>1, <1>2
<1>4. call'.fn = "none"
  BY <1>1 DEF NoCall
<1>5. EdToggle'
  BY <1>1, <1>2, <1>3, NoEdToggles DEF EdToggle
<1>6. IdleToggle' /\ CallToggle'
  BY <1>1, <1>2, <1>3, <1>4 DEF IdleToggle, CallToggle
<1>7. LeftOver'
  BY <1>1, <1>3, NoEdToggles DEF LeftOver
<1> QED BY <1>5, <1>6, <1>7

\* Steps of the house keeper that only move its Entry keep ToggleInv.
LEMMA HouseKeeperToggles ==
    ASSUME StructInv, ToggleInv, OhciHouseKeeper \/ EndRound \/ ReportError
    PROVE  ToggleInv'
<1>1. UNCHANGED <<Ed, InterruptContextList, DataToggle, deviceToggle, Lost, call>>
  BY DEF OhciHouseKeeper, EndRound, ReportError, hostVars, toggleVars, Lost
<1> QED BY <1>1 DEF ToggleInv, EdToggle, IdleToggle, CallToggle, LeftOver

\* Re-activating a complete transfer keeps ToggleInv.
LEMMA ReportDataToggles ==
    ASSUME StructInv, ToggleInv, ReportData
    PROVE  ToggleInv'
<1> USE DEF ToggleInv
<1> DEFINE R == Rearmed(Entry)
<1>1. /\ Entry # NULL /\ Ed' = [Ed EXCEPT ![Entry] = R] /\ Result(Entry) = "NO_ERROR"
      /\ UNCHANGED <<InterruptContextList, DataToggle, deviceToggle, Lost, call>>
  BY DEF ReportData, toggleVars, Lost
<1>2. /\ Entry \in InterruptContextList /\ Entry \in DOMAIN Ed /\ Types /\ Progress(Ed[Entry])
  BY <1>1 DEF StructInv, Types, EdsFit
<1>3. Len(Ed[Entry].tds) = 1
  BY <1>2 DEF EdToggle
<1>4. ToggleOf(Ed[Entry]) = Ed[Entry].ToggleCarry
  <2>1. /\ First(Ed[Entry]) \in 1 .. Len(Ed[Entry].tds) + 1
        /\ First(Ed[Entry]) <= Len(Ed[Entry].tds) => Result(Entry) # "NO_ERROR"
    BY <1>2, ResultIs
  <2>2. First(Ed[Entry]) > Len(Ed[Entry].tds)
    BY <1>1, <1>3, <2>1
  <2> QED BY <2>2 DEF ToggleOf
<1>5. /\ Alternates(R) /\ ToggleOf(R) = Ed[Entry].ToggleCarry /\ R.tds[1].toggle = Ed[Entry].ToggleCarry
      /\ R.ep = Ed[Entry].ep /\ Len(R.tds) = 1
  BY <1>2, <1>3, RearmedToggles, RearmedFits
<1>6. R.allocated => Ed[Entry].allocated
  BY <1>2, RearmedFits
<1> HIDE DEF R
<1>7. /\ DOMAIN Ed' = DOMAIN Ed /\ Ed'[Entry] = R
      /\ \A m \in DOMAIN Ed : m # Entry => Ed'[m] = Ed[m]
  BY <1>1, <1>2
<1>8. EdToggle'
  BY <1>1, <1>2, <1>4, <1>5, <1>6, <1>7 DEF EdToggle
<1>9. IdleToggle'
  <2>1. \A m \in InterruptContextList : m \in DOMAIN Ed /\ Ed'[m].ep = Ed[m].ep
    BY <1>2, <1>5, <1>7 DEF Types
  <2> QED BY <1>1, <2>1 DEF IdleToggle
<1>10. CallToggle'
  <2>1. call.fn \in {"sync", "bulk"} => call.ed # Entry /\ call.ed \in DOMAIN Ed
    BY <1>2 DEF StructInv, CallFits
  <2> QED BY <1>1, <1>7, <2>1 DEF CallToggle
<1>11. LeftOver'
  BY <1>1, <1>2, <1>7 DEF LeftOver
<1> QED BY <1>8, <1>9, <1>10, <1>11

\* Steps of the HC and the device keep ToggleInv.
LEMMA ControllerToggles ==
    ASSUME StructInv, ToggleInv, NEW n \in 1 .. MaxTransfers, PacketArrives(n) \/ Fails(n)
    PROVE  ToggleInv'
<1> USE DEF ToggleInv
<1> DEFINE e == Ed[n].ep
           expected == Ed[n].tds[Ed[n].next].toggle = deviceToggle[e]
           InTransfer == \/ n \in InterruptContextList
                         \/ call.fn \in {"sync", "bulk"} /\ n = call.ed
<1>1. /\ n \in DOMAIN Ed /\ Served(n)
      /\ UNCHANGED <<InterruptContextList, DataToggle, call>>
      /\ Lost \subseteq Lost'
  BY DEF PacketArrives, Fails, DeviceFails, toggleVars, Lost
<1>2. /\ Types /\ Progress(Ed[n]) /\ ~Ed[n].Halted /\ Ed[n].next \in DOMAIN Ed[n].tds
      /\ Alternates(Ed[n])
  BY <1>1 DEF StructInv, EdsFit, Served, EdToggle
<1>3. e \in Endpoints
  <2>1. CASE n = BulkHead
    <3>1. n # NULL
      BY <1>1, <1>2, EdFacts DEF NULL
    <3> QED BY <2>1, <3>1 DEF StructInv, CallFits, Endpoints
  <2>2. CASE n \in InterruptSchedule
    BY <2>2 DEF StructInv, Places, Endpoints
  <2> QED BY <1>1, <2>1, <2>2 DEF Served
<1>4. \/ e \in Lost'
      \/ deviceToggle' = deviceToggle /\ ~Ed[n].allocated
      \/ InTransfer /\ Ed[n].allocated
  <2>1. CASE Ed[n].allocated
    <3>1. Ed[n].next \in Nat /\ Len(Ed[n].tds) \in Nat /\ Ed[n].next \in 1 .. Len(Ed[n].tds)
      BY <1>1, <1>2, EdFacts
    <3>2. ~Quiet(Ed[n])
      BY <1>2, <3>1 DEF Quiet
    <3> QED BY <1>1, <1>3, <2>1, <3>2 DEF LeftOver
  <2>2. CASE ~Ed[n].allocated
    BY <2>2 DEF PacketArrives, Fails, DeviceFails, toggleVars, Lost
  <2> QED BY <2>1, <2>2
<1>5. PICK cc \in {"NO_ERROR", "STALL", "ERROR"} :
        /\ Ed' = [Ed EXCEPT ![n] = Retired(n, cc)]
        /\ \/ /\ deviceToggle' = [deviceToggle EXCEPT ![e] = 1 - @]
              /\ expected <=> cc = "NO_ERROR"
           \/ /\ deviceToggle' = deviceToggle
              /\ cc # "NO_ERROR"
  <2>1. CASE PacketArrives(n)
    <3>1. /\ Ed' = [Ed EXCEPT ![n] = Retired(n, IF expected THEN "NO_ERROR" ELSE "ERROR")]
          /\ deviceToggle' = [deviceToggle EXCEPT ![e] = 1 - @]
      BY <2>1 DEF PacketArrives
    <3> HIDE DEF expected
    <3>2. CASE expected
      BY <3>1, <3>2
    <3>3. CASE ~expected
      BY <3>1, <3>3
    <3> QED BY <3>2, <3>3
  <2>2. CASE Fails(n)
    BY <2>2 DEF Fails, DeviceFails, toggleVars
  <2> QED BY <2>1, <2>2
<1> DEFINE R == Retired(n, cc)
<1>6. /\ Alternates(R)
      /\ ToggleOf(Ed[n]) = Ed[n].tds[Ed[n].next].toggle
      /\ ToggleOf(R) = IF cc = "NO_ERROR" THEN 1 - ToggleOf(Ed[n]) ELSE ToggleOf(Ed[n])
      /\ LastToggle(R) = LastToggle(Ed[n])
      /\ First(R) = 1 => First(Ed[n]) = 1 /\ R.tds[1].toggle = Ed[n].tds[1].toggle
      /\ Len(Ed[n].tds) = 1 => R.tds[1].toggle = ToggleOf(R)
  BY <1>1, <1>2, RetiredToggles
<1>7. R.ep = e /\ Len(R.tds) = Len(Ed[n].tds) /\ R.allocated = Ed[n].allocated
  BY <1>1, <1>2, RetiredFits
<1> HIDE DEF R
<1>8. /\ DOMAIN Ed' = DOMAIN Ed /\ Ed'[n] = R
      /\ \A m \in DOMAIN Ed : m # n => Ed'[m] = Ed[m]
  BY <1>1, <1>5 DEF R
<1>9. e \notin Lost' /\ Ed[n].allocated => ToggleOf(R) = deviceToggle'[e]
  <2> SUFFICES ASSUME e \notin Lost', Ed[n].allocated PROVE ToggleOf(R) = deviceToggle'[e]
    OBVIOUS
  <2>1. ToggleOf(Ed[n]) = deviceToggle[e]
    BY <1>1, <1>3 DEF EdToggle
  <2>2. expected
    BY <1>6, <2>1
  <2>3. deviceToggle \in [Endpoints -> Toggles]
    BY <1>2 DEF Types
  <2> QED BY <1>3, <1>5, <1>6, <2>1, <2>2, <2>3
<1>10. \A x \in Endpoints : x # e => deviceToggle'[x] = deviceToggle[x]
  BY <1>2, <1>3, <1>5 DEF Types
<1>11. \A m \in DOMAIN Ed : m # n => Ed[m].ep # e
  BY <1>1, <1>3, EndpointsAssumption DEF StructInv, OneEach
<1>12. \A m \in DOMAIN Ed : Ed'[m].ep = Ed[m].ep
  BY <1>7, <1>8
<1> HIDE DEF e, expected
<1>13. EdToggle'
  <2> SUFFICES ASSUME NEW m \in DOMAIN Ed
               PROVE  /\ Alternates(Ed'[m])
                      /\ Ed'[m].ep \in Endpoints \ Lost' /\ Ed'[m].allocated =>
                           ToggleOf(Ed'[m]) = deviceToggle'[Ed'[m].ep]
                      /\ m \in InterruptContextList =>
                           Len(Ed'[m].tds) = 1 /\ Ed'[m].tds[1].toggle = ToggleOf(Ed'[m])
    BY <1>1, <1>8 DEF EdToggle
  <2>1. CASE m = n
    BY <1>6, <1>7, <1>8, <1>9, <2>1 DEF EdToggle
  <2>2. CASE m # n
    BY <1>1, <1>8, <1>10, <1>11, <2>2 DEF EdToggle
  <2> QED BY <2>1, <2>2
<1>14. IdleToggle'
  <2> SUFFICES ASSUME NEW x \in Endpoints, x \notin Lost'
               PROVE  \/ DataToggle[x] = deviceToggle'[x]
                      \/ \E m \in InterruptContextList : Ed'[m].ep = x
                      \/ call.fn \in {"sync", "bulk"} /\ call.ep = x
    BY <1>1 DEF IdleToggle
  <2>1. InterruptContextList \subseteq DOMAIN Ed /\ x \notin Lost
    BY <1>1, <1>2 DEF Types
  <2>2. CASE x = e /\ InTransfer
    BY <1>12, <2>1, <2>2 DEF StructInv, CallFits, e
  <2>3. CASE x # e \/ deviceToggle' = deviceToggle
    BY <1>10, <1>12, <2>1, <2>3 DEF IdleToggle
  <2> QED BY <1>4, <2>2, <2>3
<1>15. CallToggle'
  <2> SUFFICES ASSUME call.fn \in {"sync", "bulk"}
               PROVE  /\ DataToggle[call.ep] = LastToggle(Ed'[call.ed])
                      /\ First(Ed'[call.ed]) = 1 => Ed'[call.ed].tds[1].toggle = call.toggle
    BY <1>1 DEF CallToggle
  <2>1. call.ed \in DOMAIN Ed
    BY DEF StructInv, CallFits
  <2>2. CASE call.ed = n
    BY <1>6, <1>8, <2>2 DEF CallToggle
  <2>3. CASE call.ed # n
    BY <1>8, <2>1, <2>3 DEF CallToggle
  <2> QED BY <2>2, <2>3
<1>16. LeftOver'
  <2> SUFFICES ASSUME NEW m \in DOMAIN Ed \ InterruptContextList,
                      Ed'[m].ep \in Endpoints \ Lost', Ed'[m].allocated
               PROVE  (call.fn \in {"sync", "bulk"} /\ m = call.ed) \/ Quiet(Ed'[m])
    BY <1>1, <1>8 DEF LeftOver
  <2>1. CASE m = n
    BY <1>4, <1>7, <1>8, <2>1
  <2>2. CASE m # n
    BY <1>1, <1>8, <2>2 DEF LeftOver
  <2> QED BY <2>1, <2>2
<1> QED BY <1>13, <1>14, <1>15, <1>16

\* A callback that cancels and submits again keeps ToggleInv.
LEMMA ResubmitToggles ==
    ASSUME StructInv, ToggleInv, CancelAndResubmit
    PROVE  ToggleInv'
<1> USE DEF ToggleInv
<1> DEFINE e == Ed[Entry].ep
           p == Len(Ed[Entry].tds)
           t == FirstToggle(e)
           linked == InterruptSchedule \ {Entry}
           eds == [Ed EXCEPT ![Entry] = NoEd]
           N == NewEd(e, PollingInterval[e],
                      OhciFindMinInterruptEDList(Depth(PollingInterval[e]), linked), t, p)
           k == Len(Ed) + 1
<1>1. Entry \in InterruptContextList /\ Entry \in DOMAIN Ed /\ Types
  BY DEF CancelAndResubmit, StructInv, Types
<1>2. e \in InterruptEndpoints /\ e \in Endpoints /\ e # NoEndpoint
  BY <1>1, EndpointsAssumption DEF StructInv, Places, Types, Endpoints
<1>3. p = 1 /\ t = ToggleOf(Ed[Entry]) /\ t \in Toggles
  BY <1>1, <1>2, FirstToggleType DEF EdToggle
<1>4. PollingInterval[e] \in 1 .. 255 /\ linked \in SUBSET DOMAIN Ed /\ p \in Nat \ {0}
  <2>1. PollingInterval[e] \in 1 .. 255
    BY <1>2, EndpointsAssumption
  <2>2. p \in Nat \ {0}
    BY <1>3
  <2>3. linked \in SUBSET DOMAIN Ed
    BY <1>1 DEF Types
  <2> QED BY <2>1, <2>2, <2>3
<1>5. FreshEd(N, e, PollingInterval[e], N.node, t, p)
  BY <1>2, <1>3, <1>4, Linking, Zenon
<1>6. /\ Ed' = Append(eds, N) /\ InterruptContextList' = {n \in InterruptContextList : Ed[n].ep # e} \cup {k}
      /\ DataToggle' = [DataToggle EXCEPT ![e] = (t + p) % 2]
      /\ UNCHANGED <<deviceToggle, Lost, call>>
  BY DEF CancelAndResubmit, Linked, OthersInList, Lost
<1> HIDE DEF N
<1>7. N \in EdSet /\ N.ep = e /\ Len(N.tds) = 1
  BY <1>3, <1>5 DEF FreshEd
<1>8. Alternates(N) /\ ToggleOf(N) = t /\ N.tds[1].toggle = t
  <2> HIDE DEF t, p
  <2> QED BY <1>3, <1>4, <1>5, FreshToggles
<1>9. /\ eds \in Seq(EdSet) /\ DOMAIN eds = DOMAIN Ed /\ Len(eds) = Len(Ed) /\ eds[Entry] = NoEd
      /\ \A m \in DOMAIN Ed : m # Entry => eds[m] = Ed[m]
  BY <1>1, NoEdFits, Replaced DEF Types
<1> HIDE DEF eds
<1>10. /\ DOMAIN Ed' = DOMAIN Ed \cup {k} /\ k \notin DOMAIN Ed /\ Ed'[k] = N
       /\ Ed'[Entry] = NoEd /\ \A m \in DOMAIN Ed : m # Entry => Ed'[m] = Ed[m]
  <2> DEFINE new == Append(eds, N)
  <2>1. /\ DOMAIN new = DOMAIN eds \cup {Len(eds) + 1}
        /\ Len(eds) + 1 \notin DOMAIN eds /\ new[Len(eds) + 1] = N
        /\ \A m \in DOMAIN eds : new[m] = eds[m]
    BY <1>7, <1>9, Appended
  <2> HIDE DEF new
  <2>2. Ed' = new
    BY <1>6 DEF new
  <2> QED BY <1>1, <1>9, <2>1, <2>2
<1> HIDE DEF k, t, p
<1>11. e \notin Lost => t = deviceToggle[e]
  BY <1>1, <1>2, <1>3 DEF EdToggle, StructInv, Places
<1>12. Entry \notin {n \in InterruptContextList : Ed[n].ep # e}
  OBVIOUS
<1>13. \A x \in Endpoints : x # e => DataToggle'[x] = DataToggle[x]
  BY <1>1, <1>2, <1>6 DEF Types
<1>14. InterruptContextList \subseteq DOMAIN Ed
  BY <1>1 DEF Types
<1> HIDE DEF e
<1>15. EdToggle'
  <2> SUFFICES ASSUME NEW m \in DOMAIN Ed \cup {k}
               PROVE  /\ Alternates(Ed'[m])
                      /\ Ed'[m].ep \in Endpoints \ Lost /\ Ed'[m].allocated =>
                           ToggleOf(Ed'[m]) = deviceToggle[Ed'[m].ep]
                      /\ m \in InterruptContextList' =>
                           Len(Ed'[m].tds) = 1 /\ Ed'[m].tds[1].toggle = ToggleOf(Ed'[m])
    BY <1>6, <1>10 DEF EdToggle
  <2>1. CASE m = k
    BY <1>7, <1>8, <1>10, <1>11, <2>1
  <2>2. CASE m = Entry
    BY <1>1, <1>6, <1>10, <1>12, <2>2, NoEdToggles
  <2>3. CASE m # Entry /\ m # k
    BY <1>6, <1>10, <2>3 DEF EdToggle
  <2> QED BY <2>1, <2>2, <2>3
<1>16. IdleToggle'
  <2> SUFFICES ASSUME NEW x \in Endpoints, x \notin Lost
               PROVE  \/ DataToggle'[x] = deviceToggle[x]
                      \/ \E m \in InterruptContextList' : Ed'[m].ep = x
                      \/ call.fn \in {"sync", "bulk"} /\ call.ep = x
    BY <1>6 DEF IdleToggle
  <2>1. CASE x = e
    <3>1. k \in InterruptContextList' /\ Ed'[k].ep = x
      BY <1>6, <1>7, <1>10, <2>1
    <3> QED BY <3>1
  <2>2. CASE x # e
    <3>1. ASSUME NEW m \in InterruptContextList, Ed[m].ep = x
          PROVE  m \in InterruptContextList' /\ Ed'[m].ep = x
      <4>1. m # Entry /\ m \in DOMAIN Ed
        BY <1>14, <2>2, <3>1 DEF e
      <4> QED BY <1>6, <1>10, <2>2, <3>1, <4>1
    <3> QED BY <1>13, <2>2, <3>1 DEF IdleToggle
  <2> QED BY <2>1, <2>2
<1>17. CallToggle'
  <2> SUFFICES ASSUME call.fn \in {"sync", "bulk"}
               PROVE  /\ DataToggle'[call.ep] = LastToggle(Ed'[call.ed])
                      /\ First(Ed'[call.ed]) = 1 => Ed'[call.ed].tds[1].toggle = call.toggle
    BY <1>6 DEF CallToggle
  <2>1. call.ed \in DOMAIN Ed /\ call.ed # Entry /\ call.ep = Ed[call.ed].ep /\ call.ep \in Endpoints
    BY <1>1 DEF StructInv, CallFits, Endpoints
  <2>2. call.ep # e
    BY <1>1, <1>2, <2>1 DEF StructInv, OneEach, e
  <2> QED BY <1>10, <1>13, <2>1, <2>2 DEF CallToggle
<1>18. LeftOver'
  <2> SUFFICES ASSUME NEW m \in DOMAIN Ed', m \notin InterruptContextList',
                      Ed'[m].ep \in Endpoints \ Lost, Ed'[m].allocated
               PROVE  (call.fn \in {"sync", "bulk"} /\ m = call.ed) \/ Quiet(Ed'[m])
    BY <1>6 DEF LeftOver
  <2>1. m \in DOMAIN Ed /\ m # Entry /\ Ed'[m] = Ed[m]
    BY <1>6, <1>10, NoEdToggles
  <2>2. m \notin InterruptContextList
    BY <1>1, <1>2, <1>6, <2>1 DEF StructInv, OneEach, e
  <2> QED BY <2>1, <2>2 DEF LeftOver
<1> QED BY <1>15, <1>16, <1>17, <1>18

\* A callback that cancels and cannot submit again keeps ToggleInv.
LEMMA FailToggles ==
    ASSUME StructInv, ToggleInv, NEW made \in 0 .. 1, CancelAndFail(made)
    PROVE  ToggleInv'
<1> USE DEF ToggleInv
<1> DEFINE e == Ed[Entry].ep
           t == FirstToggle(e)
<1>1. Entry \in InterruptContextList /\ Entry \in DOMAIN Ed /\ Types
  BY DEF CancelAndFail, StructInv, Types
<1>2. e \in Endpoints /\ e # NoEndpoint
  BY <1>1, EndpointsAssumption DEF StructInv, Places, Types, Endpoints
<1>3. t = ToggleOf(Ed[Entry]) /\ t \in Toggles
  BY <1>1, <1>2, FirstToggleType DEF EdToggle
<1>4. /\ Ed' = [Ed EXCEPT ![Entry] = NoEd]
      /\ InterruptContextList' = {n \in InterruptContextList : Ed[n].ep # e}
      /\ DataToggle' = [DataToggle EXCEPT ![e] = (t + made) % 2]
      /\ Lost' = IF made = 0 THEN Lost ELSE Lost \cup {e}
      /\ UNCHANGED <<deviceToggle, call>>
  BY DEF CancelAndFail, OthersInList, Lost
<1>5. /\ DOMAIN Ed' = DOMAIN Ed /\ Ed'[Entry] = NoEd
      /\ \A m \in DOMAIN Ed : m # Entry => Ed'[m] = Ed[m]
  BY <1>1, <1>4
<1> HIDE DEF t
<1>6. \A m \in DOMAIN Ed : m # Entry => Ed[m].ep # e
  BY <1>1, <1>2 DEF StructInv, OneEach
<1>7. InterruptContextList' = InterruptContextList \ {Entry} /\ InterruptContextList \subseteq DOMAIN Ed
  BY <1>1, <1>4, <1>6 DEF Types
<1>8. e \notin Lost' => DataToggle'[e] = deviceToggle[e]
  <2> SUFFICES ASSUME e \notin Lost' PROVE DataToggle'[e] = deviceToggle[e]
    OBVIOUS
  <2>1. made = 0 /\ e \notin Lost
    BY <1>4
  <2>2. (t + made) % 2 = t
    BY <1>3, <2>1 DEF Toggles
  <2>3. t = deviceToggle[e]
    BY <1>1, <1>2, <1>3, <2>1 DEF EdToggle, StructInv, Places
  <2> QED BY <1>1, <1>2, <1>4, <2>2, <2>3 DEF Types
<1>9. \A x \in Endpoints : x # e => DataToggle'[x] = DataToggle[x]
  BY <1>1, <1>2, <1>4 DEF Types
<1>10. Lost \subseteq Lost'
  BY <1>4
<1> HIDE DEF e
<1>11. EdToggle'
  BY <1>4, <1>5, <1>7, <1>10, NoEdToggles DEF EdToggle
<1>12. IdleToggle'
  <2> SUFFICES ASSUME NEW x \in Endpoints, x \notin Lost'
               PROVE  \/ DataToggle'[x] = deviceToggle[x]
                      \/ \E m \in InterruptContextList' : Ed'[m].ep = x
                      \/ call.fn \in {"sync", "bulk"} /\ call.ep = x
    BY <1>4 DEF IdleToggle
  <2>1. CASE x = e
    BY <1>8, <2>1
  <2>2. CASE x # e
    BY <1>5, <1>7, <1>9, <1>10, <2>2 DEF IdleToggle, e
  <2> QED BY <2>1, <2>2
<1>13. CallToggle'
  <2> SUFFICES ASSUME call.fn \in {"sync", "bulk"}
               PROVE  /\ DataToggle'[call.ep] = LastToggle(Ed'[call.ed])
                      /\ First(Ed'[call.ed]) = 1 => Ed'[call.ed].tds[1].toggle = call.toggle
    BY <1>4 DEF CallToggle
  <2>1. call.ed \in DOMAIN Ed /\ call.ed # Entry /\ call.ep = Ed[call.ed].ep /\ call.ep \in Endpoints
    BY <1>1 DEF StructInv, CallFits, Endpoints
  <2> QED BY <1>5, <1>6, <1>9, <2>1 DEF CallToggle
<1>14. LeftOver'
  BY <1>4, <1>5, <1>7, <1>10, NoEdToggles DEF LeftOver
<1> QED BY <1>11, <1>12, <1>13, <1>14

\* The frames and the end of the bulk list leave the toggles alone; a packet on freed
\* descriptors makes its endpoint a lost one.
LEMMA FrameToggles ==
    ASSUME StructInv, ToggleInv,
           StartOfFrame \/ BulkListDone \/ \E e \in Endpoints : LatePacket(e)
    PROVE  ToggleInv'
<1>1. CASE StartOfFrame \/ BulkListDone
  <2>1. UNCHANGED <<Ed, InterruptContextList, DataToggle, deviceToggle, Lost, call>>
    BY <1>1 DEF StartOfFrame, BulkListDone, hostVars, toggleVars, Lost
  <2> QED BY <2>1 DEF ToggleInv, EdToggle, IdleToggle, CallToggle, LeftOver
<1>2. CASE \E e \in Endpoints : LatePacket(e)
  <2>1. PICK e \in Endpoints : LatePacket(e)
    BY <1>2
  <2>2. /\ UNCHANGED <<Ed, InterruptContextList, DataToggle, call>>
        /\ Lost' = Lost \cup {e} /\ deviceToggle' = [deviceToggle EXCEPT ![e] = 1 - @]
    BY <2>1 DEF LatePacket, hostVars, Lost
  <2>3. \A x \in Endpoints \ Lost' : x \notin Lost /\ deviceToggle'[x] = deviceToggle[x]
    BY <2>2 DEF StructInv, Types
  <2> QED BY <2>2, <2>3 DEF ToggleInv, EdToggle, IdleToggle, CallToggle, LeftOver
<1> QED BY <1>1, <1>2

\* Every step keeps ToggleInv.
LEMMA ToggleNext ==
    ASSUME StructInv, ToggleInv, AsyncPackets \subseteq {1}, [Next]_vars
    PROVE  ToggleInv'
<1>1. CASE Submit
  BY <1>1, AsyncToggles, SyncToggles, CallerToggles DEF Submit
<1>2. CASE CancelStep
  BY <1>2, FreeContextToggles, FreeEdToggles, CallerToggles DEF CancelStep
<1>3. CASE BulkStep
  BY <1>3, BulkToggles, BulkPolledToggles, BulkReturnsToggles DEF BulkStep
<1>4. CASE SyncEnds
  BY <1>4, CallerToggles
<1>5. CASE OhciHouseKeeper \/ HouseKeeperStep
  BY <1>5, HouseKeeperToggles, ReportDataToggles, ResubmitToggles, FailToggles
  DEF HouseKeeperStep
<1>6. CASE \E n \in 1 .. MaxTransfers : PacketArrives(n) \/ Fails(n)
  BY <1>6, ControllerToggles
<1>7. CASE StartOfFrame \/ BulkListDone \/ \E e \in Endpoints : LatePacket(e)
  BY <1>7, FrameToggles
<1>8. CASE UNCHANGED vars
  BY <1>8 DEF vars, hostVars, toggleVars, ToggleInv, EdToggle, IdleToggle, CallToggle, LeftOver,
              Lost
<1> QED BY <1>1, <1>2, <1>3, <1>4, <1>5, <1>6, <1>7, <1>8 DEF Next

\* The invariants imply that host and device agree.
LEMMA InStep ==
    ASSUME StructInv, ToggleInv
    PROVE  ToggleInStep
<1> SUFFICES ASSUME NEW e \in Endpoints, e \notin Lost
             PROVE  HostToggle(e) = deviceToggle[e]
  BY DEF ToggleInStep
<1>1. CASE \A n \in DOMAIN Ed : Ed[n].ep # e \/ ~Ed[n].allocated
  <2>1. HostToggle(e) = DataToggle[e]
    BY <1>1 DEF HostToggle
  <2>2. ~ \E n \in InterruptContextList : Ed[n].ep = e
    BY <1>1 DEF StructInv, Types, Places
  <2>3. ~(call.fn \in {"sync", "bulk"} /\ call.ep = e)
    BY <1>1 DEF StructInv, CallFits
  <2> QED BY <2>1, <2>2, <2>3 DEF ToggleInv, IdleToggle
<1>2. CASE ~ \A n \in DOMAIN Ed : Ed[n].ep # e \/ ~Ed[n].allocated
  <2>1. PICK n \in DOMAIN Ed : Ed[n].ep = e /\ Ed[n].allocated
    BY <1>2
  <2>2. \A m \in DOMAIN Ed : Ed[m].ep = e => m = n
    BY <2>1, EndpointsAssumption DEF StructInv, OneEach
  <2> DEFINE ch == CHOOSE m \in DOMAIN Ed : Ed[m].ep = e
  <2>3. ch \in DOMAIN Ed /\ Ed[ch].ep = e
    BY <2>1, Zenon
  <2>4. ch = n
    BY <2>2, <2>3
  <2> DEFINE bad(m) == {i \in DOMAIN Ed[m].tds : Ed[m].tds[i].cc # "NO_ERROR"} \cup {Len(Ed[m].tds) + 1}
  <2>5. HostToggle(e) = IF Min(bad(ch)) > Len(Ed[ch].tds) THEN Ed[ch].ToggleCarry
                        ELSE Ed[ch].tds[Min(bad(ch))].toggle
    BY <1>2 DEF HostToggle
  <2>6. Types /\ Progress(Ed[n])
    BY DEF StructInv, EdsFit
  <2> HIDE DEF ch
  <2>7. Min(bad(n)) = First(Ed[n])
    <3>1. /\ First(Ed[n]) \in 1 .. Len(Ed[n].tds) + 1
          /\ Len(Ed[n].tds) \in Nat /\ DOMAIN Ed[n].tds = 1 .. Len(Ed[n].tds)
          /\ First(Ed[n]) <= Len(Ed[n].tds) => Ed[n].tds[First(Ed[n])].cc # "NO_ERROR"
      BY <2>6, ResultIs, EdFacts
    <3>2. \A i \in 1 .. Len(Ed[n].tds) : i < First(Ed[n]) => Ed[n].tds[i].cc = "NO_ERROR"
      BY <2>6 DEF Progress
    <3>3. bad(n) \subseteq Int /\ First(Ed[n]) \in bad(n)
      BY <3>1
    <3>4. \A y \in bad(n) : First(Ed[n]) <= y
      BY <3>1, <3>2
    <3> QED BY <3>3, <3>4, MinIs
  <2>8. HostToggle(e) = ToggleOf(Ed[n])
    BY <2>4, <2>5, <2>7 DEF ToggleOf
  <2> QED BY <2>1, <2>8 DEF ToggleInv, EdToggle
<1> QED BY <1>1, <1>2

\* When asynchronous transfers have one packet, host and device stay in step on every
\* endpoint that is not lost, through service, re-activation, errors, cancel and
\* resubmission (OhciHouseKeeper, OhciFreeInterruptContext, CheckEDStatus).
THEOREM TogglesStayInStep ==
    ASSUME AsyncPackets \subseteq {1}
    PROVE  Spec => []ToggleInStep
<1>1. Init => StructInv /\ ToggleInv
  BY StructInit, ToggleInit
<1>2. StructInv /\ ToggleInv /\ [Next]_vars => StructInv' /\ ToggleInv'
  BY StructNext, ToggleNext
<1>3. StructInv /\ ToggleInv => ToggleInStep
  BY InStep
<1> QED BY <1>1, <1>2, <1>3, PTL DEF Spec
=============================================================================
