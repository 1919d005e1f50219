---------------------------- MODULE OhciTransfers ----------------------------
(***************************************************************************)
(* Transfers of the OHCI USB host controller driver (QuarkSouthCluster/    *)
(* Usb/Ohci/Dxe).  Three parties work on the descriptors: the calling      *)
(* thread, the notification OhciHouseKeeper, which a 100 ms timer runs at  *)
(* TPL_NOTIFY, and the host controller (HC).                               *)
(*                                                                         *)
(* Data packets of an endpoint carry a toggle bit.  The device keeps its   *)
(* own; the host's travels from the caller's DataToggle through the        *)
(* transfer descriptors (TDs) and the ToggleCarry of the endpoint          *)
(* descriptor (ED) and back.  The n-th transfer owns the n-th ED and its   *)
(* TDs: EDs point back to TDs, so OhciFindWorkingEd() never finds one to   *)
(* share (it asks for a direction, EDs are made with ED_FROM_TD_DIR).      *)
(* A transfer is the number of its ED.  The list of asynchronous transfers *)
(* grows only at its tail, so its order is the order of these numbers and  *)
(* it is kept as a set.                                                    *)
(***************************************************************************)
EXTENDS Integers, Sequences, FiniteSets, FiniteSetsExt

CONSTANTS
    InterruptEndpoints,
    BulkEndpoints,
    NoEndpoint,
    PollingInterval,    \* of each interrupt endpoint, in frames
    AsyncPackets,       \* packets (data TDs) of an asynchronous transfer
    SyncPackets,        \* and of a synchronous one
    MaxTransfers,       \* bound: accepted transfers
    MaxErrors           \* bound: errors of devices, time-outs and lack of memory

Endpoints == InterruptEndpoints \cup BulkEndpoints

ASSUME EndpointsAssumption ==
    /\ InterruptEndpoints \cap BulkEndpoints = {}
    /\ NoEndpoint \notin Endpoints
    /\ PollingInterval \in [InterruptEndpoints -> 1 .. 255]
ASSUME BoundsAssumption ==
    /\ AsyncPackets \subseteq Nat \ {0}
    /\ SyncPackets \subseteq Nat \ {0}
    /\ MaxTransfers \in Nat
    /\ MaxErrors \in Nat

NULL == 0
Toggles == {0, 1}
Codes == {"NO_ERROR", "TOBE_PROCESSED", "STALL", "ERROR"}

VARIABLES
    Ed,                    \* the EDs with their TDs, one for each transfer
    InterruptSchedule,     \* the EDs linked below the 32 interrupt lists
    InterruptContextList,  \* the asynchronous transfers
    PeriodicEnable,
    BulkHead,              \* the ED of the bulk list, or NULL
    BulkFilled,            \* BULK_LIST_FILLED
    hcPeriodic,            \* the HC serves the interrupt lists in this frame
    inHand,                \* endpoints whose descriptors were freed, in this frame,
                           \* when the HC may have been at work on them
    DataToggle,            \* the caller's toggle of each endpoint
    deviceToggle,
    astray,                \* observer: endpoints whose last transfer failed half-way
    late,                  \* observer: endpoints with a packet on freed descriptors
    call,                  \* the calling thread's place in a transfer function
    Entry,                 \* the house keeper's Entry, NULL when it does not run
    errors

hostVars == <<Ed, InterruptSchedule, InterruptContextList>>
bulkVars == <<BulkHead, BulkFilled>>
hcVars == <<hcPeriodic, inHand>>
toggleVars == <<DataToggle, deviceToggle, astray, late>>
vars == <<hostVars, PeriodicEnable, bulkVars, hcVars, toggleVars, call, Entry, errors>>

NoCall == [fn |-> "none", ed |-> NULL, ep |-> NoEndpoint, toggle |-> 0]
NoEd == [ep |-> NoEndpoint, interval |-> 1, node |-> <<5, 0>>, tds |-> << >>, next |-> 1,
         Halted |-> FALSE, ToggleCarry |-> 0, allocated |-> FALSE]

\* After OhciReset().
Init ==
    /\ Ed = << >>
    /\ InterruptSchedule = {}
    /\ InterruptContextList = {}
    /\ PeriodicEnable = TRUE
    /\ BulkHead = NULL
    /\ BulkFilled = FALSE
    /\ hcPeriodic = TRUE
    /\ inHand = {}
    /\ DataToggle = [e \in Endpoints |-> 0]
    /\ deviceToggle = [e \in Endpoints |-> 0]
    /\ astray = {}
    /\ late = {}
    /\ call = NoCall
    /\ Entry = NULL
    /\ errors = 0

(***************************************************************************)
(* The interrupt lists: a binary tree with a list for every 32nd frame at  *)
(* its leaves (depth 0) and the list of all frames at its root (depth 5).  *)
(***************************************************************************)
OrderedLeaf == [i \in 1 .. 32 |-> i - 1]
Leaf == <<0, 16, 8, 24, 4, 20, 12, 28, 2, 18, 10, 26, 6, 22, 14, 30, 1, 17,
          9, 25, 5, 21, 13, 29, 3, 19, 11, 27, 7, 23, 15, 31>>

\* A walk from the list at depth d with index i passes this list.
Passes(d, i, node) == node[1] >= d /\ node[2] = i \div 2^(node[1] - d)

\* The leaf the HC walks from in each frame.
LeafOf == [frame \in 0 .. 31 |-> (CHOOSE i \in 1 .. 32 : Leaf[i] = frame) - 1]
VisitedIn(frame, node) == Passes(0, LeafOf[frame], node)

Depth(interval) == 5 - Max({k \in 0 .. 5 : 2^k <= interval})

CountEdNum(d, i, linked) ==
    (6 - d) + Cardinality({n \in linked : Passes(d, i, Ed[n].node)})

\* The first of the lists at that depth with the fewest EDs.
OhciFindMinInterruptEDList(d, linked) ==
    LET Indices == 0 .. 2^(5 - d) - 1
        least == Min({CountEdNum(d, i, linked) : i \in Indices})
    IN  <<d, Min({i \in Indices : CountEdNum(d, i, linked) = least})>>

(***************************************************************************)
(* Building and reading descriptors.                                       *)
(***************************************************************************)
\* Data TDs with alternating toggles.
DataTds(toggle, packets) ==
    [i \in 1 .. packets |-> [cc |-> "TOBE_PROCESSED", toggle |-> (toggle + i - 1) % 2]]

NewEd(e, interval, node, toggle, packets) ==
    [NoEd EXCEPT !.ep = e, !.interval = interval, !.node = node,
                 !.tds = DataTds(toggle, packets), !.allocated = TRUE]

\* OhciCheckTDsResults() and CheckEDStatus(): the first code that is an error.
Result(n) ==
    LET bad == {i \in DOMAIN Ed[n].tds : Ed[n].tds[i].cc # "NO_ERROR"}
    IN  IF bad = {} THEN "NO_ERROR" ELSE Ed[n].tds[Min(bad)].cc

\* NextToggle of CheckEDStatus(): the complement of what the last TD that went
\* well holds, though the HC has complemented it already.
NextToggle(n, first) ==
    LET good == {i \in DOMAIN Ed[n].tds : Ed[n].tds[i].cc = "NO_ERROR"}
    IN  IF good = {} THEN first ELSE 1 - Ed[n].tds[Max(good)].toggle

InUse(e) == \/ \E n \in DOMAIN Ed : Ed[n].ep = e
            \/ call.ep = e

\* The HC may be at work on the ED (external): a cleared PERIODIC_ENABLE counts
\* from the next frame on.
Served(n) ==
    /\ \/ n \in InterruptSchedule /\ hcPeriodic
       \/ n = BulkHead
    /\ ~Ed[n].Halted
    /\ Ed[n].next \in DOMAIN Ed[n].tds

\* Endpoint e keeps the HC busy when its EDs are freed.
InHandOf(e) == {Ed[n].ep : n \in {m \in DOMAIN Ed : Ed[m].ep = e /\ Served(m)}}

MainRuns == Entry = NULL
AtRest == MainRuns /\ call = NoCall

(***************************************************************************)
(* OhciInterruptTransfer() with IsNewTransfer, for the asynchronous and    *)
(* the synchronous call.  Until its last store the ED is skipped by the HC *)
(* and the house keeper finds its TDs not executed.  A caller has one      *)
(* transfer at a time on an endpoint.                                      *)
(***************************************************************************)
Linked(e, interval, toggle, packets, eds, linked) ==
    /\ Ed' = Append(eds, NewEd(e, interval,
                               OhciFindMinInterruptEDList(Depth(interval), linked),
                               toggle, packets))
    /\ InterruptSchedule' = linked \cup {Len(Ed) + 1}
    /\ PeriodicEnable' = TRUE

Flipped(e, packets) == [DataToggle EXCEPT ![e] = (@ + packets) % 2]

OhciAsyncInterruptTransfer(e, packets) ==
    /\ AtRest /\ ~InUse(e) /\ Len(Ed) < MaxTransfers
    /\ Linked(e, PollingInterval[e], DataToggle[e], packets, Ed, InterruptSchedule)
    /\ InterruptContextList' = InterruptContextList \cup {Len(Ed) + 1}
    /\ DataToggle' = Flipped(e, packets)
    /\ UNCHANGED <<bulkVars, hcVars, deviceToggle, astray, late, call, Entry, errors>>

OhciSyncInterruptTransfer(e, packets) ==
    /\ AtRest /\ ~InUse(e) /\ Len(Ed) < MaxTransfers
    /\ Linked(e, 1, DataToggle[e], packets, Ed, InterruptSchedule)
    /\ DataToggle' = Flipped(e, packets)
    /\ call' = [fn |-> "sync", ed |-> Len(Ed) + 1, ep |-> e, toggle |-> DataToggle[e]]
    /\ UNCHANGED <<InterruptContextList, bulkVars, hcVars, deviceToggle, astray, late,
                   Entry, errors>>

\* No memory for a TD or the context: what was built is freed, but the toggle
\* has moved for each TD made.
OutOfResources(e, made) ==
    /\ AtRest /\ ~InUse(e)
    /\ errors < MaxErrors
    /\ errors' = errors + 1
    /\ DataToggle' = Flipped(e, made)
    /\ astray' = IF made = 0 THEN astray ELSE astray \cup {e}
    /\ UNCHANGED <<hostVars, PeriodicEnable, bulkVars, hcVars, deviceToggle, late, call,
                   Entry>>

(***************************************************************************)
(* Without IsNewTransfer: cancel, at TPL_NOTIFY.  The interrupt lists are  *)
(* disabled and descriptors are freed without waiting for the frame's end: *)
(* until then the HC goes on with them.                                    *)
(***************************************************************************)
\* OhciFreeInterruptContext() returns the toggle of the first TD.
FirstToggle(e) ==
    LET mine == {n \in InterruptContextList : Ed[n].ep = e}
    IN  IF mine = {} THEN DataToggle[e] ELSE Ed[Max(mine)].tds[1].toggle

WholeList(e) == InterruptContextList
OthersInList(e) == {n \in InterruptContextList : Ed[n].ep # e}

CancelEnabled(e) ==
    /\ call' = [NoCall EXCEPT !.fn = "freeContext", !.ep = e]
    /\ UNCHANGED PeriodicEnable
Cancel(e) ==
    /\ call' = [NoCall EXCEPT !.fn = "freeContext", !.ep = e]
    /\ PeriodicEnable' = FALSE

\* The caller cancels what it has submitted.
CancelAsyncInterrupt(e) ==
    /\ AtRest
    /\ \E n \in DOMAIN Ed : Ed[n].ep = e
    /\ Cancel(e)
    /\ UNCHANGED <<hostVars, bulkVars, hcVars, toggleVars, Entry, errors>>

ForgetToggle == DataToggle
ReturnToggle == [DataToggle EXCEPT ![call.ep] = FirstToggle(call.ep)]

OhciFreeInterruptContext ==
    /\ MainRuns /\ call.fn = "freeContext"
    /\ DataToggle' = ReturnToggle
    /\ InterruptContextList' = OthersInList(call.ep)
    /\ Ed' = [n \in DOMAIN Ed |->
                IF n \in InterruptContextList /\ Ed[n].ep = call.ep
                THEN [Ed[n] EXCEPT !.allocated = FALSE] ELSE Ed[n]]
    /\ call' = [call EXCEPT !.fn = "freeEd"]
    /\ UNCHANGED <<InterruptSchedule, PeriodicEnable, bulkVars, hcVars, deviceToggle,
                   astray, late, Entry, errors>>

OhciFreeInterruptEdByAddr ==
    /\ MainRuns /\ call.fn = "freeEd"
    /\ InterruptSchedule' = {n \in InterruptSchedule : Ed[n].ep # call.ep}
    /\ Ed' = [n \in DOMAIN Ed |-> IF Ed[n].ep = call.ep THEN NoEd ELSE Ed[n]]
    /\ inHand' = inHand \cup InHandOf(call.ep)
    /\ call' = [call EXCEPT !.fn = "enable"]
    /\ UNCHANGED <<InterruptContextList, PeriodicEnable, bulkVars, hcPeriodic, toggleVars,
                   Entry, errors>>

CancelReturns ==
    /\ MainRuns /\ call.fn = "enable"
    /\ PeriodicEnable' = TRUE
    /\ call' = NoCall
    /\ UNCHANGED <<hostVars, bulkVars, hcVars, toggleVars, Entry, errors>>

(***************************************************************************)
(* OhciBulkTransfer(), and the polling of both synchronous calls.  The     *)
(* bulk list is disabled for 20 ms before it is given its one ED; at the   *)
(* end that ED is taken off and freed with the list enabled.               *)
(***************************************************************************)
OhciBulkTransfer(e) ==
    /\ AtRest /\ Len(Ed) < MaxTransfers
    /\ call' = [NoCall EXCEPT !.fn = "bulkStop", !.ep = e]
    /\ UNCHANGED <<hostVars, PeriodicEnable, bulkVars, hcVars, toggleVars, Entry, errors>>

BulkListFilled(packets) ==
    /\ MainRuns /\ call.fn = "bulkStop" /\ Len(Ed) < MaxTransfers
    /\ inHand \cap BulkEndpoints = {}
    /\ Ed' = Append(Ed, NewEd(call.ep, 1, <<5, 0>>, DataToggle[call.ep], packets))
    /\ BulkHead' = Len(Ed) + 1
    /\ BulkFilled' = TRUE
    /\ DataToggle' = Flipped(call.ep, packets)
    /\ call' = [call EXCEPT !.fn = "bulk", !.ed = Len(Ed) + 1, !.toggle = DataToggle[call.ep]]
    /\ UNCHANGED <<InterruptSchedule, InterruptContextList, PeriodicEnable, hcVars,
                   deviceToggle, astray, late, Entry, errors>>

\* CheckIfDone() says EFI_NOT_READY, whatever the TDs hold as long as the bulk list
\* counts as filled.
Waiting == \/ call.fn = "bulk" /\ BulkFilled
           \/ Result(call.ed) = "TOBE_PROCESSED"

\* It says so until the time is up.
TimesOut ==
    /\ Waiting
    /\ errors < MaxErrors
    /\ errors' = errors + 1
Done == ~Waiting /\ UNCHANGED errors

HalfWay == /\ Result(call.ed) # "NO_ERROR"
           /\ Waiting \/ Ed[call.ed].tds[1].cc = "NO_ERROR"

\* On an error the toggle is set by CheckEDStatus(); after a time-out it stays
\* where the submission left it.
BulkToggle ==
    IF Waiting \/ Result(call.ed) = "NO_ERROR" THEN DataToggle
    ELSE [DataToggle EXCEPT ![call.ep] = NextToggle(call.ed, call.toggle)]

BulkPolled ==
    /\ MainRuns /\ call.fn = "bulk"
    /\ TimesOut \/ Done
    /\ DataToggle' = BulkToggle
    /\ astray' = IF HalfWay THEN astray \cup {call.ep} ELSE astray
    /\ call' = [call EXCEPT !.fn = "bulkFree"]
    /\ UNCHANGED <<hostVars, PeriodicEnable, bulkVars, hcVars, deviceToggle, late, Entry>>

BulkReturns ==
    /\ MainRuns /\ call.fn = "bulkFree"
    /\ Ed' = [Ed EXCEPT ![call.ed] = NoEd]
    /\ BulkHead' = NULL
    /\ inHand' = inHand \cup InHandOf(call.ep)
    /\ call' = NoCall
    /\ UNCHANGED <<InterruptSchedule, InterruptContextList, PeriodicEnable, BulkFilled,
                   hcPeriodic, toggleVars, Entry, errors>>

\* The synchronous interrupt transfer ends with a cancel, which finds no
\* context and so neither frees the TDs nor sets the toggle.
SyncEnds ==
    /\ MainRuns /\ call.fn = "sync"
    /\ TimesOut \/ Done
    /\ astray' = IF Result(call.ed) = "NO_ERROR" THEN astray ELSE astray \cup {call.ep}
    /\ Cancel(call.ep)
    /\ UNCHANGED <<hostVars, bulkVars, hcVars, DataToggle, deviceToggle, late, Entry>>

(***************************************************************************)
(* OhciHouseKeeper(), one step for each Entry.  Every Entry is periodic:   *)
(* the synchronous call passes no callback and gets no context.            *)
(***************************************************************************)
AtNotify == call.fn \in {"freeContext", "freeEd", "enable"}

NoNextEntry(n) == NULL
NextEntry(n) ==
    LET rest == {m \in InterruptContextList : m > n}
    IN  IF rest = {} THEN NULL ELSE Min(rest)

OhciHouseKeeper ==
    /\ Entry = NULL /\ ~AtNotify
    /\ InterruptContextList # {}
    /\ Entry' = Min(InterruptContextList)
    /\ UNCHANGED <<hostVars, PeriodicEnable, bulkVars, hcVars, toggleVars, call, errors>>

\* The first Entry that is stalled or not executed ends the round.
EndRound ==
    /\ Entry # NULL
    /\ Result(Entry) \in {"STALL", "TOBE_PROCESSED"}
    /\ Entry' = NULL
    /\ UNCHANGED <<hostVars, PeriodicEnable, bulkVars, hcVars, toggleVars, call, errors>>

\* The TDs are made active again, with toggles from ToggleCarry on.
Rearmed(n) ==
    [Ed[n] EXCEPT !.tds = DataTds(Ed[n].ToggleCarry, Len(Ed[n].tds)),
                  !.next = 1, !.Halted = FALSE, !.ToggleCarry = 0]

\* The callback gets the data, and the transfer is submitted again.
ReportData ==
    /\ Entry # NULL
    /\ Result(Entry) = "NO_ERROR"
    /\ Ed' = [Ed EXCEPT ![Entry] = Rearmed(Entry)]
    /\ Entry' = NextEntry(Entry)
    /\ UNCHANGED <<InterruptSchedule, InterruptContextList, PeriodicEnable, bulkVars, hcVars,
                   toggleVars, call, errors>>

\* The callback gets an error, and leaves the transfer as it is ...
ReportError ==
    /\ Entry # NULL
    /\ Result(Entry) = "ERROR"
    /\ Entry' = NextEntry(Entry)
    /\ UNCHANGED <<hostVars, PeriodicEnable, bulkVars, hcVars, toggleVars, call, errors>>

\* ... or cancels it and submits a new one (UsbOnHubInterrupt).  The house keeper
\* goes on with NextEntry of the freed Entry: its old value, or NULL when the
\* memory has become the new, last, entry.
CancelAndResubmit ==
    /\ Entry # NULL
    /\ Result(Entry) = "ERROR"
    /\ Len(Ed) < MaxTransfers
    /\ LET e == Ed[Entry].ep
           packets == Len(Ed[Entry].tds)
       IN  /\ Linked(e, PollingInterval[e], FirstToggle(e), packets,
                     [Ed EXCEPT ![Entry] = NoEd], InterruptSchedule \ {Entry})
           /\ DataToggle' = [DataToggle EXCEPT ![e] = (FirstToggle(e) + packets) % 2]
           /\ InterruptContextList' = OthersInList(e) \cup {Len(Ed) + 1}
    /\ Entry' \in {NextEntry(Entry), NULL}
    /\ UNCHANGED <<bulkVars, hcVars, deviceToggle, astray, late, call, errors>>

\* The new transfer may find no memory: the endpoint is then polled no more.
CancelAndFail(made) ==
    /\ Entry # NULL
    /\ Result(Entry) = "ERROR"
    /\ errors < MaxErrors
    /\ errors' = errors + 1
    /\ LET e == Ed[Entry].ep
       IN  /\ Ed' = [Ed EXCEPT ![Entry] = NoEd]
           /\ InterruptSchedule' = InterruptSchedule \ {Entry}
           /\ InterruptContextList' = OthersInList(e)
           /\ DataToggle' = [DataToggle EXCEPT ![e] = (FirstToggle(e) + made) % 2]
           /\ astray' = IF made = 0 THEN astray ELSE astray \cup {e}
    /\ PeriodicEnable' = TRUE
    /\ Entry' = NextEntry(Entry)
    /\ UNCHANGED <<bulkVars, hcVars, deviceToggle, late, call>>

(***************************************************************************)
(* The host controller and the devices (external).  A frame takes 1 ms.    *)
(***************************************************************************)
StartOfFrame ==
    /\ hcPeriodic' = PeriodicEnable
    /\ inHand' = {}
    /\ UNCHANGED <<hostVars, PeriodicEnable, bulkVars, toggleVars, call, Entry, errors>>

\* The HC went through the bulk list and found no TD.
BulkListDone ==
    /\ BulkFilled
    /\ BulkHead # NULL => ~Served(BulkHead)
    /\ BulkFilled' = FALSE
    /\ UNCHANGED <<hostVars, PeriodicEnable, BulkHead, hcVars, toggleVars, call, Entry, errors>>

\* The TD at hand is retired: its code is written, its toggle complemented if a
\* packet came, and copied to ToggleCarry.  An error halts the ED.
Retired(n, cc) ==
    LET td == Ed[n].tds[Ed[n].next]
        new == [cc |-> cc, toggle |-> IF cc = "NO_ERROR" THEN 1 - td.toggle ELSE td.toggle]
    IN  [Ed[n] EXCEPT !.tds[Ed[n].next] = new, !.next = @ + 1,
                      !.ToggleCarry = new.toggle, !.Halted = cc # "NO_ERROR"]

\* A packet with the expected toggle is taken; with the other one it is an error,
\* and the packet is lost.
PacketArrives(n) ==
    /\ n \in DOMAIN Ed /\ Served(n)
    /\ LET e == Ed[n].ep
           expected == Ed[n].tds[Ed[n].next].toggle = deviceToggle[e]
       IN  /\ Ed' = [Ed EXCEPT ![n] = Retired(n, IF expected THEN "NO_ERROR" ELSE "ERROR")]
           /\ deviceToggle' = [deviceToggle EXCEPT ![e] = 1 - @]
           /\ late' = IF Ed[n].allocated THEN late ELSE late \cup {e}
    /\ UNCHANGED <<InterruptSchedule, InterruptContextList, PeriodicEnable, bulkVars, hcVars,
                   DataToggle, astray, call, Entry, errors>>

\* The packet under way when the descriptors were freed.
LatePacket(e) ==
    /\ e \in inHand
    /\ inHand' = inHand \ {e}
    /\ deviceToggle' = [deviceToggle EXCEPT ![e] = 1 - @]
    /\ late' = late \cup {e}
    /\ UNCHANGED <<hostVars, PeriodicEnable, bulkVars, hcPeriodic, DataToggle, astray, call,
                   Entry, errors>>

DeviceFails(n, cc) ==
    /\ n \in DOMAIN Ed /\ Served(n)
    /\ errors < MaxErrors
    /\ errors' = errors + 1
    /\ Ed' = [Ed EXCEPT ![n] = Retired(n, cc)]
    /\ UNCHANGED <<InterruptSchedule, InterruptContextList, PeriodicEnable, bulkVars, hcVars,
                   toggleVars, call, Entry>>

\* CLEAR_FEATURE(ENDPOINT_HALT) makes both sides begin with 0 again.  The control
\* transfer takes more than a frame.
ClearHalt(e) ==
    /\ AtRest /\ ~InUse(e) /\ e \notin inHand
    /\ DataToggle' = [DataToggle EXCEPT ![e] = 0]
    /\ deviceToggle' = [deviceToggle EXCEPT ![e] = 0]
    /\ astray' = astray \ {e}
    /\ late' = late \ {e}
    /\ UNCHANGED <<hostVars, PeriodicEnable, bulkVars, hcVars, call, Entry, errors>>

(***************************************************************************)
(* The specification.                                                      *)
(***************************************************************************)
Submit ==
    \/ \E e \in InterruptEndpoints :
         \/ \E p \in AsyncPackets : OhciAsyncInterruptTransfer(e, p)
         \/ \E p \in SyncPackets : OhciSyncInterruptTransfer(e, p)
         \/ CancelAsyncInterrupt(e)
    \/ \E e \in BulkEndpoints : OhciBulkTransfer(e)
    \/ \E e \in Endpoints :
         \/ \E made \in 0 .. 1 : OutOfResources(e, made)
         \/ ClearHalt(e)

CancelStep == OhciFreeInterruptContext \/ OhciFreeInterruptEdByAddr \/ CancelReturns
BulkStep == \/ \E p \in SyncPackets : BulkListFilled(p)
            \/ BulkPolled \/ BulkReturns
HouseKeeperStep == \/ EndRound \/ ReportData \/ ReportError \/ CancelAndResubmit
                   \/ \E made \in 0 .. 1 : CancelAndFail(made)
Fails(n) == \E cc \in {"STALL", "ERROR"} : DeviceFails(n, cc)

Next ==
    \/ Submit \/ CancelStep \/ BulkStep \/ SyncEnds
    \/ OhciHouseKeeper \/ HouseKeeperStep
    \/ StartOfFrame \/ BulkListDone
    \/ \E e \in Endpoints : LatePacket(e)
    \/ \E n \in 1 .. MaxTransfers : PacketArrives(n) \/ Fails(n)

Spec == Init /\ [][Next]_vars

\* Code runs on, the timer fires and frames follow each other.  A device need never
\* answer.
Fairness ==
    /\ WF_vars(CancelStep)
    /\ WF_vars(OhciHouseKeeper)
    /\ WF_vars(HouseKeeperStep)
    /\ WF_vars(StartOfFrame)
FairSpec == Spec /\ Fairness

(***************************************************************************)
(* Properties.                                                             *)
(***************************************************************************)
\* The variables keep their types, and the house keeper stands on an entry of the
\* list.
TypeOK ==
    /\ \A n \in DOMAIN Ed :
         /\ Ed[n].ep \in Endpoints \cup {NoEndpoint}
         /\ \A i \in DOMAIN Ed[n].tds : Ed[n].tds[i] \in [cc : Codes, toggle : Toggles]
         /\ Ed[n].next \in 1 .. Len(Ed[n].tds) + 1
    /\ InterruptSchedule \subseteq DOMAIN Ed
    /\ InterruptContextList \subseteq InterruptSchedule
    /\ DataToggle \in [Endpoints -> Toggles]
    /\ deviceToggle \in [Endpoints -> Toggles]
    /\ {PeriodicEnable, hcPeriodic, BulkFilled} \subseteq BOOLEAN
    /\ inHand \subseteq Endpoints
    /\ Entry \in InterruptContextList \cup {NULL}

\* The toggle the host will use next on an endpoint.
HostToggle(e) ==
    IF \A n \in DOMAIN Ed : Ed[n].ep # e \/ ~Ed[n].allocated THEN DataToggle[e]
    ELSE LET n == CHOOSE n \in DOMAIN Ed : Ed[n].ep = e
             td == Min({i \in DOMAIN Ed[n].tds : Ed[n].tds[i].cc # "NO_ERROR"} \cup {Len(Ed[n].tds) + 1})
         IN  IF td > Len(Ed[n].tds) THEN Ed[n].ToggleCarry ELSE Ed[n].tds[td].toggle

\* The endpoints whose toggles need not agree.
Lost == astray \cup late

\* Through submission, service, re-activation by the house keeper, errors, cancel
\* and resubmission, the host expects the toggle the device sends, so that no packet
\* is taken for a repeated one; but for endpoints whose synchronous transfer timed
\* out or failed after some packets, whose submission failed, or which sent a packet
\* after the cancel had read the toggle, until their halt is cleared.
ToggleInStep == \A e \in Endpoints \ Lost : HostToggle(e) = deviceToggle[e]

\* What a cancel or a return frees under the HC's hands is out of its reach with the
\* frame in progress: no frame begins with freed TDs on a list the HC goes through.
FramesBeginClean ==
    [][StartOfFrame =>
         \A n \in DOMAIN Ed :
             n = BulkHead \/ (n \in InterruptSchedule /\ hcPeriodic') => Ed[n].allocated]_vars

\* Whatever the other endpoints, an interrupt endpoint is visited in every
\* PollingInterval successive frames.
RateHonoured ==
    \A n \in InterruptSchedule :
        \A start \in 0 .. 31 :
            \E k \in 0 .. Ed[n].interval - 1 :
                VisitedIn((start + k) % 32, Ed[n].node)

Armed(n) == n \in InterruptContextList /\ Result(n) = "TOBE_PROCESSED"
Complete(n) == n \in InterruptContextList /\ Result(n) = "NO_ERROR"
Blocks(n) == n \in InterruptContextList /\ Result(n) \in {"STALL", "TOBE_PROCESSED"}

\* A complete asynchronous transfer has its callback called and is made active again,
\* or is cancelled, unless one transfer ahead of it in the list stays stalled or
\* unanswered for ever: answers that come in any order, errors and cancels of others
\* do not starve it.  And one whose device answers when it is asked is completed,
\* after each re-activation and whatever others are cancelled.
ServedInTurn ==
    \A n \in 1 .. MaxTransfers :
        /\ Complete(n) ~> (~Complete(n) \/ \E m \in 1 .. n - 1 : []Blocks(m))
        /\ WF_vars(PacketArrives(n)) => (Armed(n) ~> ~Armed(n))

\* "This function is called at the rate specified by PollingInterval" (Ohci.c:915):
\* the callback of a complete transfer is called, or the transfer is cancelled.
CallbackIsCalled == \A n \in 1 .. MaxTransfers : Complete(n) ~> ~Complete(n)
=============================================================================
