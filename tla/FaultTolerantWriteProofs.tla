---------------------- MODULE FaultTolerantWriteProofs ----------------------
EXTENDS FaultTolerantWrite, SequenceTheorems, TLAPS

(***************************************************************************)
(* Proofs about the fault tolerant write driver, for every set of flash    *)
(* parts and any number of writes and power failures.                      *)
(*                                                                         *)
(* The inductive invariant FtwInv says that the flash is well formed at    *)
(* every moment (FlashOK) and at which point of its functions the driver   *)
(* is, with what holds there (Point): todo is an operation and what        *)
(* follows it, in the forms the functions of the driver leave it.          *)
(* From it follow the types (FtwTypes) and that an idle driver has settled *)
(* every write (FtwSettled).  The second part follows what the next        *)
(* start-up would make of the flash: no step changes it but the mark       *)
(* SPARE_COMPLETED of a write, so the driver implements the atomic store   *)
(* of NvStore (FtwIsAtomic), on parts whose log a reclaim does not leave   *)
(* full and without data (RoomyLogs).                                      *)
(***************************************************************************)

(***************************************************************************)
(* The areas and their logs.                                               *)
(***************************************************************************)
\* The three areas of the flash.
Work  == flash["working"]
Spare == flash["spare"]
Other == flash["other"]

\* IsValidWorkSpace() of an area's contents.
Valid(x) == x.hdr = {"sig", "valid"}

\* A log the driver can have written: only its last entry may be open or torn, and a
\* torn entry never gets as far as the spare block.
WellLogged(log) ==
    /\ log \in Seq(SUBSET EntryBits)
    /\ \A i \in 1 .. Len(log) :
         /\ "alloc" \in log[i]
         /\ i < Len(log) => "complete" \in log[i] /\ "torn" \notin log[i]
         /\ "torn" \in log[i] => "spare" \notin log[i]

\* The last entry of a log is there and not complete.
Open(log) == Len(log) > 0 /\ "complete" \notin log[Len(log)]

\* It has room in the work space and an entry for at most every write.
GoodLog(log) == WellLogged(log) /\ Len(log) <= part.cap /\ Len(log) <= writes

\* Contents an area may have.
AreaOK(x) == x \in AreaContents /\ GoodLog(x.log)

\* The last write in an area's log.
Lst(x) == FtwGetLastWriteRecord(x.log)

\* What is written to the spare block: a log without a torn entry, whose open entry
\* is not a write to another volume, and one to the working block once it is committed.
ImageOK(g) ==
    /\ AreaOK(g) /\ ~TornTail(g.log)
    /\ "other" \notin Lst(g)
    /\ "spare" \in Lst(g) => "working" \in Lst(g)

\* The contents the spare block may have, put back after a reclaim or a write.
Image == {g \in AreaContents : ImageOK(g)}

\* The last write in the log of the spare block.
SpareLast == Lst(Spare)

\* The last write is complete in the spare block and not yet in its target.
CommittedIn(w) == Valid(w) /\ "spare" \in Lst(w) /\ "dest" \notin Lst(w)
Committed == CommittedIn(Work)

\* The last write is over and nothing follows it.
CleanIn(w) == Valid(w) /\ Lst(w) = {} /\ ~TornTail(w.log)
Clean == CleanIn(Work)

\* A committed write has one target; one to the working block has its image, with a
\* log that has come as far, in the spare block.
Fits(w, s) ==
    CommittedIn(w) =>
        /\ ("working" \in Lst(w)) <=> ("other" \notin Lst(w))
        /\ "working" \in Lst(w) =>
             /\ Valid(s)
             /\ Len(s.log) = Len(w.log)
             /\ "working" \in Lst(s)
             /\ "dest" \notin Lst(s)

\* What the flash is like at every moment.
AllFit(w, s, o) ==
    /\ AreaOK(w) /\ ImageOK(s) /\ AreaOK(o)
    /\ Fits(w, s)
    /\ w.log # <<>> => "sig" \in w.hdr
FlashOK == AllFit(Work, Spare, Other)

\* The types of what the driver keeps beside the flash and the operations to do.
Types ==
    /\ part \in Parts
    /\ flash = [a \in Areas |-> flash[a]]
    /\ power \in {"off", "boot", "ready"}
    /\ asked \in [Targets -> Images]
    /\ writes \in 0 .. MaxWrites /\ cuts \in 0 .. MaxCuts

-----------------------------------------------------------------------------
(***************************************************************************)
(* What the driver may have to do: an operation and what follows it.       *)
(***************************************************************************)
\* Operation x, and k after it.
Do(x, k) == <<x>> \o k

\* The operations by kind: calls, marks in headers and records, writes, a new header.
Fn(f)          == [do |-> "call", fn |-> f]
FnOf(f, t)     == [do |-> "call", fn |-> f, target |-> t]
Hdr(a, b)      == [do |-> "header", at |-> a, bit |-> b]
Rcd(a, i, b)   == [do |-> "record", at |-> a, idx |-> i, bits |-> b]
Wrt(a, p, g)   == [do |-> "write", at |-> a, parts |-> p, img |-> g]
Apd            == [do |-> "append", at |-> "working"]

\* The erase of an area, and the erase and the writing of it.
EraseOf(a, k) ==
    IF part.sector = "4K" THEN Do(Erase(a, {"data"}), Do(Erase(a, {"ws"}), k))
                          ELSE Do(Erase(a, {"data", "ws"}), k)
WriteOf(a, g, k) == Do(Wrt(a, {"data"}, g), Do(Wrt(a, {"ws"}, g), k))
StoreOf(a, g, k) == EraseOf(a, WriteOf(a, g, k))

\* The driver stores g in area a, and goes on with k.
Storing(a, g, k) ==
    \/ todo = StoreOf(a, g, k)
    \/ /\ part.sector = "4K"
       /\ todo = Do(Erase(a, {"ws"}), WriteOf(a, g, k))
       /\ flash[a].data = Lost
    \/ todo = WriteOf(a, g, k) /\ flash[a] = Erased
    \/ todo = Do(Wrt(a, {"ws"}, g), k) /\ flash[a] = [Erased EXCEPT !.data = g.data]

\* The driver erases area a, and goes on with k.
Erasing(a, k) ==
    \/ todo = EraseOf(a, k)
    \/ part.sector = "4K" /\ todo = Do(Erase(a, {"ws"}), k)

\* InitFtwProtocol() from each of its calls on.
I7 == Do(Fn("Hook"), <<>>)
I6 == Do(Fn("RestartLast"), I7)
I5 == Do(Fn("CheckTail"), I6)
I4 == Do(Fn("AbortDone"), I5)
I3 == Do(Fn("AbortUnready"), I4)
I2 == Do(Fn("TrySpare"), I3)
I1 == Do(Fn("Refresh"), I2)

\* FtwWrite() of target t after WorkSpaceRefresh().
AppendK(t) == Do(Apd, Do(FnOf("Describe", t), <<>>))

\* Where a reclaim or an abort returns to.
Cont(c) ==
    CASE c = "try"     -> I2
      [] c = "unready" -> I3
      [] c = "done"    -> I4
      [] c = "tail"    -> I5
      [] c = "restart" -> I6
      [] c = "hook"    -> I7
      [] c = "again"   -> Do(Fn("Refresh"), I3)
      [] OTHER         -> AppendK(c)

\* Where a reclaim may return to, and where an abort may.
ReclaimConts == {"try", "unready", "again", "restart", "hook"} \cup Targets
AbortConts   == {"done", "tail", "again"}

\* Reclaim from the mark on the spare block on.
RcBack(old, c)  == StoreOf("spare", old, Cont(c))
RcFlush(old, c) == Do(Fn("FlushToWorking"), RcBack(old, c))
RcInval(old, c) == Do(Hdr("working", "invalid"), RcFlush(old, c))
RcMark(old, c)  == Do(Hdr("spare", "valid"), RcInval(old, c))

\* FlushSpareBlockToWorkingBlock() from its marks on.
FlValid(k)    == Do(Hdr("working", "valid"), k)
FlStore(g, k) == StoreOf("working", g, FlValid(k))
FlInval(g, k) == Do(Hdr("working", "invalid"), FlStore(g, k))
FlMark(g, k)  == Do(Hdr("spare", "valid"), FlInval(g, k))
FlImage       == [Spare EXCEPT !.hdr = {"sig"}]

\* After FtwWriteRecord(): FtwWrite() puts the spare block's content back,
\* FtwRestart() erases it and InitFtwProtocol() goes on.
AbortHook   == Do(Fn("Abort"), I7)
WrEnd(old)  == IF power = "ready" THEN StoreOf("spare", old, <<>>)
                                  ELSE EraseOf("spare", AbortHook)
\* FtwWriteRecord() after the target is written.
WrComplete(i, k) == Do(Rcd("working", i, {"complete"}), k)
WrDest(i, k)     == Do(Rcd("working", i, {"dest"}), WrComplete(i, k))

-----------------------------------------------------------------------------
(***************************************************************************)
(* The points of the driver.                                               *)
(***************************************************************************)
\* Every target but t holds what was asked for, the working block d.
AskedBut(t, d) ==
    /\ t # "working" => asked["working"] = d
    /\ t # "other" => asked["other"] = Other.data

\* The targets hold what was asked for.
AskedAll == \A u \in Targets : asked[u] = flash[u].data

\* What a reclaim with continuation c has to keep.
Keeps(c, d) ==
    IF c \in Targets THEN power = "ready" /\ AskedBut(c, d) /\ asked[c] # Lost /\ writes > 0
                     ELSE power = "boot"

\* What a repair erases: on a part with 64 KB blocks the work space goes with the data.
RepairParts == IF part.sector = "4K" THEN {"data"} ELSE {"data", "ws"}

\* The block services repair damaged volumes.
Repairing ==
    /\ power = "boot"
    /\ \/ /\ Work.data = Lost
          /\ \/ todo = Do(Erase("working", RepairParts), I1)
             \/ /\ Other.data = Lost
                /\ todo = Do(Erase("working", RepairParts), Do(Erase("other", RepairParts), I1))
       \/ Other.data = Lost /\ todo = Do(Erase("other", RepairParts), I1)

\* InitFtwProtocol() before each of its calls.
AtI1 == todo = I1
AtI2 == todo = I2 /\ ~Full(Work.log)
AtI3 == todo = I3 /\ Valid(Work)
AtI4 == todo = I4 /\ Valid(Work) /\ (Last = {} \/ "spare" \in Last)
AtI5 == todo = I5 /\ Valid(Work) /\ (Last = {} \/ Committed)
AtI6 == todo = I6 /\ Valid(Work) /\ (Last = {} \/ Committed) /\ ~TornTail(Work.log)
AtI7 == todo = I7 /\ Clean
AtAgain == todo = Do(Fn("Refresh"), I3) /\ Valid(Work) /\ Last = {}
Booting == power = "boot" /\ (AtI1 \/ AtI2 \/ AtI3 \/ AtI4 \/ AtI5 \/ AtI6 \/ AtI7 \/ AtAgain)

\* FtwAbort()
AbortFits(b) ==
    /\ power = "boot" /\ Valid(Work)
    /\ IF b = "again" THEN "other" \notin Last /\ (Committed => Work.data = Spare.data)
                      ELSE Last # {} /\ ~Committed
AbortMark(b) == Do(Rcd("working", Len(Work.log), {"complete"}), Cont(b))
Aborting(b) ==
    /\ AbortFits(b)
    /\ \/ todo = Do(Fn("Abort"), Cont(b))
       \/ Last # {} /\ todo = Do(Fn("Refresh"), AbortMark(b))
       \/ Last # {} /\ todo = AbortMark(b)
       \/ Last = {} /\ todo = Do(Fn("Refresh"), Cont(b))
AbortingNone ==
    /\ power = "boot" /\ Clean
    /\ todo = AbortHook \/ todo = Do(Fn("Refresh"), I7)

\* FtwReclaimWorkSpace()
Reclaimable == Last = {} /\ (Full(Work.log) \/ Valid(Work))
Unusable    == ~Valid(Work) /\ ~Valid(Spare) /\ ~Full(Work.log)
Cleaned     == [data |-> Work.data, hdr |-> {"sig"}, log |-> <<>>]
ReclaimAt(c) == todo = Do(Fn("Reclaim"), Cont(c)) /\ Reclaimable /\ Keeps(c, Work.data)
NewAt        == todo = Do(Fn("ReclaimNew"), I3) /\ Unusable /\ power = "boot"
\* It stores the image with an empty log in the spare block, marks it, then the working
\* block, and after the flush puts back what the spare block held.
Cleaning(c) ==
    /\ Reclaimable \/ Unusable
    /\ Keeps(c, Work.data)
    /\ \E old \in Image :
         \/ Storing("spare", Cleaned, RcMark(old, c))
         \/ todo = RcMark(old, c) /\ Spare = Cleaned
Marking(c) ==
    /\ Valid(Work) => Last = {}
    /\ Keeps(c, Work.data)
    /\ \E old \in Image : todo = RcInval(old, c) /\ Spare = [Cleaned EXCEPT !.hdr = {"sig", "valid"}]
PuttingBack(c) ==
    /\ Valid(Work) /\ Work.log = <<>>
    /\ Keeps(c, Work.data)
    /\ \E old \in Image : Storing("spare", old, Cont(c))

\* FlushSpareBlockToWorkingBlock(), in each of its three uses.
FlushesCleaned(k) ==
    /\ Spare.log = <<>>
    /\ \E c \in ReclaimConts, old \in Image : k = RcBack(old, c) /\ Keeps(c, Spare.data)
FlushesFound(k) == k = Do(Fn("Abort"), Cont("again")) /\ power = "boot"
FlushesWrite(k) ==
    /\ {"working", "spare"} \subseteq SpareLast /\ "dest" \notin SpareLast
    /\ \E old \in Image : k = WrDest(Len(Spare.log), WrEnd(old))
    /\ power = "ready" => asked["working"] = Spare.data /\ asked["other"] = Other.data
    /\ power # "off"
\* A flush with continuation k starts from a valid spare block.
Flushes(k) == Valid(Spare) /\ (FlushesCleaned(k) \/ FlushesFound(k) \/ FlushesWrite(k))
\* The spare block holds the value of the working block.
Mirrored ==
    IF Valid(Work) THEN Committed /\ "working" \in Last
                   ELSE Full(Work.log) => Work.data = Spare.data
\* The flush up to its marks, while it stores the image, and before the final mark.
FlushBegins(k) ==
    /\ Flushes(k) /\ Mirrored
    /\ todo \in {Do(Fn("FlushToWorking"), k), FlMark(FlImage, k), FlInval(FlImage, k)}
FlushStores(k) ==
    /\ Flushes(k) /\ ~Valid(Work)
    /\ part.sector = "64K" /\ Full(Work.log) => Work.data = Spare.data
    /\ Storing("working", FlImage, FlValid(k))
FlushEnds(k) == Flushes(k) /\ todo = FlValid(k) /\ Work = FlImage

\* FtwWriteRecord()
Record == Committed /\ ~TornTail(Work.log) /\ power # "off"
RecordAt ==
    /\ Record
    /\ power = "ready" => \A u \in Targets :
          asked[u] = IF u \in Last THEN Spare.data ELSE flash[u].data
    /\ \E old \in Image :
         \/ todo = Do(Fn("WriteRecord"), WrEnd(old))
         \/ "working" \in Last /\ todo = Do(Rcd("spare", Len(Work.log), {"spare"}),
                Do(Fn("FlushToWorking"), WrDest(Len(Work.log), WrEnd(old))))
         \/ "other" \in Last /\ todo = Do(Fn("FlushToTarget"), WrDest(Len(Work.log), WrEnd(old)))
         \/ "other" \in Last /\ Storing("other", [Erased EXCEPT !.data = Spare.data],
                                        WrDest(Len(Work.log), WrEnd(old)))
DestAt ==
    /\ Record
    /\ \A u \in Targets : u \in Last => flash[u].data = Spare.data
    /\ power = "ready" => AskedAll
    /\ \E old \in Image : todo = WrDest(Len(Work.log), WrEnd(old))
CompleteAt ==
    /\ Valid(Work) /\ "dest" \in Last /\ ~TornTail(Work.log) /\ power # "off"
    /\ power = "ready" => AskedAll
    /\ \E old \in Image : todo = WrComplete(Len(Work.log), WrEnd(old))

\* FtwRestart()
Restarting ==
    /\ Record /\ power = "boot"
    /\ \/ todo = Do(Fn("Restart"), AbortHook)
       \/ todo = Do(Fn("Refresh"), Do(Fn("WriteRecord"), EraseOf("spare", AbortHook)))
\* After the restarted write the spare block is erased.
Restarted == power = "boot" /\ Clean /\ Erasing("spare", AbortHook)

\* FtwWrite()
Resting == power = "ready" /\ todo = <<>> /\ Clean /\ AskedAll
\* What FtwWrite() stores in the spare block for target t, and what it does after that.
WriteImage(t) == IF t = "working" THEN [Work EXCEPT !.data = asked[t]]
                                  ELSE [Erased EXCEPT !.data = asked[t]]
WriteCommit(i, old) == Do(Rcd("working", i, {"spare"}), Do(Fn("WriteRecord"), WrEnd(old)))
\* FtwWrite() before the write header, before the record and before the image is committed.
Allocating(t) ==
    /\ Clean /\ Keeps(t, Work.data) /\ Len(Work.log) < writes
    /\ \/ todo = Do(Fn("Refresh"), AppendK(t))
       \/ todo = AppendK(t) /\ ~Full(Work.log)
Describing(t) ==
    /\ Valid(Work) /\ Last = {"alloc"} /\ ~TornTail(Work.log) /\ Keeps(t, Work.data)
    /\ \/ todo = Do(FnOf("Describe", t), <<>>)
       \/ todo = Do(Rcd("working", Len(Work.log), {"rec", t}), Do(FnOf("Store", t), <<>>))
Preparing(t) ==
    /\ Valid(Work) /\ Last = {"alloc", "rec", t} /\ ~TornTail(Work.log) /\ Keeps(t, Work.data)
    /\ \/ todo = Do(FnOf("Store", t), <<>>)
       \/ \E old \in Image :
            \/ Storing("spare", WriteImage(t), WriteCommit(Len(Work.log), old))
            \/ todo = WriteCommit(Len(Work.log), old) /\ Spare = WriteImage(t)
\* FtwWrite() puts the spare block's content back.
Finishing == /\ power = "ready" /\ Clean /\ AskedAll
             /\ \E old \in Image : Storing("spare", old, <<>>)
Writing(t) == Allocating(t) \/ Describing(t) \/ Preparing(t)

\* Where the driver is.
Point ==
    \/ power = "off" /\ todo = <<>>
    \/ Repairing \/ Booting
    \/ \E b \in AbortConts : Aborting(b)
    \/ AbortingNone
    \/ NewAt
    \/ \E c \in ReclaimConts : ReclaimAt(c) \/ Cleaning(c) \/ Marking(c) \/ PuttingBack(c)
    \/ \E k : FlushBegins(k) \/ FlushStores(k) \/ FlushEnds(k)
    \/ RecordAt \/ DestAt \/ CompleteAt
    \/ Restarting \/ Restarted
    \/ Resting \/ (\E t \in Targets : Writing(t)) \/ Finishing

\* The inductive invariant.
FtwInv == Types /\ FlashOK /\ Point

-----------------------------------------------------------------------------
(***************************************************************************)
(* Sequences of operations.                                                *)
(***************************************************************************)
IsTodo(k) == \E T : k \in Seq(T)

\* The first of the operations and the rest of them.
LEMMA DoSeq ==
    ASSUME NEW x, NEW k, IsTodo(k)
    PROVE  /\ IsTodo(Do(x, k))
           /\ Do(x, k) # <<>>
           /\ Head(Do(x, k)) = x
           /\ Tail(Do(x, k)) = k
<1>1. PICK T : k \in Seq(T)
  BY DEF IsTodo
<1> DEFINE U == T \cup {x}
           s == Do(x, k)
<1>2. k \in Seq(U) /\ <<x>> \in Seq(U)
  BY <1>1, SeqMonotonic
<1>3. /\ s \in Seq(U)
      /\ Len(s) = 1 + Len(k)
      /\ \A i \in 1 .. 1 + Len(k) : s[i] = IF i <= 1 THEN <<x>>[i] ELSE k[i - 1]
  BY <1>2, ConcatProperties DEF Do
<1>4. Len(k) \in Nat
  BY <1>1
<1>5. s # <<>> /\ Head(s) = x
  BY <1>3, <1>4
<1>6. /\ Tail(s) \in Seq(U)
      /\ Len(Tail(s)) = Len(k)
      /\ \A i \in 1 .. Len(k) : Tail(s)[i] = s[i + 1]
  BY <1>3, <1>4, <1>5, HeadTailProperties
<1>7. \A i \in 1 .. Len(k) : Tail(s)[i] = k[i]
  <2> TAKE i \in 1 .. Len(k)
  <2>1. i + 1 \in 1 .. 1 + Len(k) /\ ~(i + 1 <= 1) /\ (i + 1) - 1 = i
    BY <1>4
  <2> QED BY <1>3, <1>6, <2>1
<1>8. Tail(s) = k
  BY <1>2, <1>6, <1>7, SeqEqual
<1> QED BY <1>3, <1>5, <1>8 DEF IsTodo

\* Nothing to do.
LEMMA EmptyTodo ==
    /\ IsTodo(<<>>)
    /\ \A k : IsTodo(k) => k \o <<>> = k /\ <<>> \o k = k
<1>1. <<>> \in Seq({})
  OBVIOUS
<1>2. ASSUME NEW k, IsTodo(k) PROVE k \o <<>> = k /\ <<>> \o k = k
  <2>1. PICK T : k \in Seq(T)
    BY <1>2 DEF IsTodo
  <2> QED BY <2>1, ConcatEmptySeq
<1> QED BY <1>1, <1>2 DEF IsTodo

\* Concatenation.
LEMMA Assoc ==
    ASSUME NEW a, NEW b, NEW c, IsTodo(a), IsTodo(b), IsTodo(c)
    PROVE  (a \o b) \o c = a \o (b \o c)
<1>1. PICK A : a \in Seq(A)
  BY DEF IsTodo
<1>2. PICK B : b \in Seq(B)
  BY DEF IsTodo
<1>3. PICK C : c \in Seq(C)
  BY DEF IsTodo
<1> DEFINE U == A \cup B \cup C
<1>4. a \in Seq(U) /\ b \in Seq(U) /\ c \in Seq(U)
  BY <1>1, <1>2, <1>3, SeqMonotonic
<1>5. (a \o b) \o c = a \o (b \o c)
  BY <1>4, ConcatAssociative
<1> QED BY <1>5

\* Operations can follow operations.
LEMMA ConcatTodo ==
    ASSUME NEW a, NEW b, IsTodo(a), IsTodo(b)
    PROVE  IsTodo(a \o b)
<1>1. PICK A : a \in Seq(A)
  BY DEF IsTodo
<1>2. PICK B : b \in Seq(B)
  BY DEF IsTodo
<1>3. a \in Seq(A \cup B) /\ b \in Seq(A \cup B)
  BY <1>1, <1>2, SeqMonotonic
<1>4. a \o b \in Seq(A \cup B)
  BY <1>3, ConcatProperties
<1> QED BY <1>4 DEF IsTodo

\* One operation.
LEMMA DoOne ==
    ASSUME NEW x, NEW k, IsTodo(k)
    PROVE  IsTodo(<<x>>) /\ <<x>> \o k = Do(x, k) /\ Do(x, <<>>) = <<x>>
<1>1. <<x>> \in Seq({x})
  OBVIOUS
<1>2. IsTodo(<<x>>)
  BY <1>1 DEF IsTodo
<1> QED BY <1>2, EmptyTodo DEF Do

\* An operation, then what follows it.
LEMMA DoConcat ==
    ASSUME NEW x, NEW a, NEW k, IsTodo(a), IsTodo(k)
    PROVE  Do(x, a) \o k = Do(x, a \o k)
<1>1. IsTodo(<<x>>)
  BY DoOne
<1> QED BY <1>1, Assoc DEF Do

\* Two operations.
LEMMA PairSeq ==
    ASSUME NEW x, NEW y
    PROVE  <<x, y>> = Do(x, <<y>>) /\ IsTodo(<<x, y>>)
<1> DEFINE T == {x, y}
<1>1. <<x>> \in Seq(T) /\ <<y>> \in Seq(T) /\ <<x, y>> \in Seq(T)
  OBVIOUS
<1>2. /\ <<x>> \o <<y>> \in Seq(T)
      /\ Len(<<x>> \o <<y>>) = 2
      /\ \A i \in 1 .. 2 : (<<x>> \o <<y>>)[i] = IF i <= 1 THEN <<x>>[i] ELSE <<y>>[i - 1]
  BY <1>1, ConcatProperties
<1>3. \A i \in 1 .. 2 : (<<x>> \o <<y>>)[i] = <<x, y>>[i]
  BY <1>2
<1>4. <<x>> \o <<y>> = <<x, y>>
  BY <1>1, <1>2, <1>3, SeqEqual
<1> QED BY <1>1, <1>4 DEF IsTodo, Do

-----------------------------------------------------------------------------
(***************************************************************************)
(* The write log.                                                          *)
(***************************************************************************)
\* The last write is the last entry, or none when that is complete.
LEMMA LogShape ==
    ASSUME NEW log, WellLogged(log)
    PROVE  /\ Len(log) \in Nat
           /\ ~Open(log) => /\ FtwGetLastWriteHeader(log) = Len(log) + 1
                            /\ FtwGetLastWriteRecord(log) = {}
           /\ Open(log) => /\ FtwGetLastWriteHeader(log) = Len(log)
                           /\ FtwGetLastWriteRecord(log) = log[Len(log)]
                           /\ Len(log) \in 1 .. Len(log)
                           /\ "alloc" \in log[Len(log)]
                           /\ "complete" \notin log[Len(log)]
                           /\ log[Len(log)] \in SUBSET EntryBits
           /\ TornTail(log) <=> Len(log) > 0 /\ "torn" \in log[Len(log)]
<1> DEFINE n == Len(log)
           P(i) == /\ i = n + 1 \/ "complete" \notin log[i]
                   /\ \A j \in 1 .. i - 1 : "complete" \in log[j]
           h == FtwGetLastWriteHeader(log)
<1>0. DOMAIN log = 1 .. n
  BY DEF WellLogged
<1>1. n \in Nat
  BY DEF WellLogged
<1>2. \A i \in 1 .. n : /\ "alloc" \in log[i]
                        /\ i < n => "complete" \in log[i] /\ "torn" \notin log[i]
                        /\ log[i] \in SUBSET EntryBits
  BY <1>0 DEF WellLogged
<1>3. h = CHOOSE i \in 1 .. n + 1 : P(i)
  BY DEF FtwGetLastWriteHeader
<1> HIDE DEF h
<1>4. TornTail(log) <=> n > 0 /\ "torn" \in log[n]
  <2>1. TornTail(log) <=> \E i \in 1 .. n : "torn" \in log[i]
    BY <1>0 DEF TornTail
  <2>2. n > 0 => n \in 1 .. n
    BY <1>1
  <2>3. ASSUME NEW i \in 1 .. n, "torn" \in log[i] PROVE n > 0 /\ i = n
    <3>1. ~(i < n)
      BY <2>3, <1>2
    <3> QED BY <3>1, <1>1
  <2> QED BY <2>1, <2>2, <2>3
<1>5. CASE Open(log)
  <2>1. n \in 1 .. n /\ "complete" \notin log[n]
    BY <1>5, <1>1 DEF Open
  <2>2. n \in 1 .. n + 1 /\ P(n)
    <3>1. \A j \in 1 .. n - 1 : j \in 1 .. n /\ j < n
      BY <1>1
    <3>2. \A j \in 1 .. n - 1 : "complete" \in log[j]
      BY <3>1, <1>2
    <3> QED BY <2>1, <1>1, <3>2
  <2>3. h \in 1 .. n + 1 /\ P(h)
    BY <2>2, <1>3
  <2>4. h = n
    <3>1. ~(h > n)
      <4> SUFFICES ASSUME h > n PROVE FALSE
        OBVIOUS
      <4>1. n \in 1 .. h - 1
        BY <1>1, <2>1, <2>3
      <4> QED BY <4>1, <2>1, <2>3
    <3>2. ~(h < n)
      <4> SUFFICES ASSUME h < n PROVE FALSE
        OBVIOUS
      <4>1. h \in 1 .. n /\ h # n + 1
        BY <1>1, <2>3
      <4> QED BY <4>1, <1>2, <2>3
    <3> QED BY <3>1, <3>2, <1>1, <2>3
  <2>5. FtwGetLastWriteRecord(log) = log[n]
    BY <2>4, <1>1 DEF FtwGetLastWriteRecord, h
  <2> QED BY <2>1, <2>4, <2>5, <1>1, <1>2, <1>4, <1>5 DEF h
<1>6. CASE ~Open(log)
  <2>1. \A i \in 1 .. n : "complete" \in log[i]
    <3> TAKE i \in 1 .. n
    <3> HIDE DEF n
    <3>1. i < n \/ i = n
      BY <1>1
    <3>2. i = n => "complete" \in log[i]
      BY <1>6, <1>1 DEF Open, n
    <3> QED BY <3>1, <3>2, <1>2
  <2>2. n + 1 \in 1 .. n + 1 /\ P(n + 1)
    BY <2>1, <1>1
  <2>3. h \in 1 .. n + 1 /\ P(h)
    BY <2>2, <1>3
  <2>4. h = n + 1
    BY <2>1, <2>3, <1>1
  <2>5. ~(h <= n)
    BY <2>4, <1>1
  <2>6. FtwGetLastWriteRecord(log) = {}
    BY <2>5 DEF FtwGetLastWriteRecord, h
  <2> QED BY <2>4, <2>6, <1>1, <1>4, <1>6 DEF h
<1> QED BY <1>5, <1>6

\* A log without entries.
LEMMA LogEmpty ==
    /\ WellLogged(<<>>) /\ ~Open(<<>>) /\ ~TornTail(<<>>)
    /\ FtwGetLastWriteRecord(<<>>) = {}
<1>1. <<>> \in Seq(SUBSET EntryBits) /\ Len(<<>>) = 0
  OBVIOUS
<1>2. WellLogged(<<>>)
  BY <1>1 DEF WellLogged
<1>3. ~Open(<<>>)
  BY <1>1 DEF Open
<1> QED BY <1>1, <1>2, <1>3, LogShape

\* More bits in the open entry.
LEMMA LogMark ==
    ASSUME NEW log, WellLogged(log), Open(log),
           NEW B \in SUBSET (EntryBits \ {"torn"}),
           "spare" \in B => ~TornTail(log)
    PROVE  LET m == [log EXCEPT ![Len(log)] = @ \cup B]
           IN  /\ WellLogged(m) /\ Len(m) = Len(log) /\ m # <<>>
               /\ TornTail(m) <=> TornTail(log)
               /\ "complete" \in B => FtwGetLastWriteRecord(m) = {} /\ ~Open(m)
               /\ "complete" \notin B =>
                    Open(m) /\ FtwGetLastWriteRecord(m) = FtwGetLastWriteRecord(log) \cup B
               /\ Len(log) \in DOMAIN log
<1> DEFINE n == Len(log)
           m == [log EXCEPT ![n] = @ \cup B]
<1>1. n \in Nat /\ DOMAIN log = 1 .. n /\ n \in 1 .. n
  BY LogShape DEF WellLogged
<1>2. log \in Seq(SUBSET EntryBits) /\ log[n] \cup B \in SUBSET EntryBits
  BY <1>1 DEF WellLogged
<1>3. m \in Seq(SUBSET EntryBits) /\ Len(m) = n
  BY <1>1, <1>2
<1>4. \A i \in 1 .. n : m[i] = IF i = n THEN log[n] \cup B ELSE log[i]
  BY <1>1
<1> HIDE DEF m
<1>5. TornTail(log) <=> "torn" \in log[n]
  BY <1>1, LogShape
<1>6. \A i \in 1 .. Len(m) :
         /\ "alloc" \in m[i]
         /\ i < Len(m) => "complete" \in m[i] /\ "torn" \notin m[i]
         /\ "torn" \in m[i] => "spare" \notin m[i]
  <2> SUFFICES ASSUME NEW i \in 1 .. n
               PROVE  /\ "alloc" \in m[i]
                      /\ i < n => "complete" \in m[i] /\ "torn" \notin m[i]
                      /\ "torn" \in m[i] => "spare" \notin m[i]
    BY <1>3
  <2>1. /\ "alloc" \in log[i]
        /\ i < n => "complete" \in log[i] /\ "torn" \notin log[i]
        /\ "torn" \in log[i] => "spare" \notin log[i]
    BY DEF WellLogged
  <2>2. CASE i = n
    <3>1. m[i] = log[n] \cup B /\ ~(i < n)
      BY <2>2, <1>4, <1>1
    <3>2. "torn" \notin B
      OBVIOUS
    <3> QED BY <2>1, <2>2, <3>1, <3>2, <1>5
  <2>3. CASE i # n
    BY <2>1, <2>3, <1>4
  <2> QED BY <2>2, <2>3
<1>7. WellLogged(m)
  BY <1>3, <1>6 DEF WellLogged
<1>8. TornTail(m) <=> TornTail(log)
  <2>1. TornTail(m) <=> "torn" \in m[n]
    BY <1>7, <1>3, <1>1, LogShape
  <2> QED BY <2>1, <1>5, <1>4, <1>1
<1>9. m[n] = log[n] \cup B /\ "complete" \notin log[n]
  BY <1>4, <1>1 DEF Open
<1>10. Open(m) <=> "complete" \notin B
  BY <1>9, <1>3, <1>1 DEF Open
<1>11. m # <<>>
  BY <1>3, <1>1
<1>12. FtwGetLastWriteRecord(log) = log[n]
  BY LogShape
<1>13. "complete" \in B => FtwGetLastWriteRecord(m) = {}
  BY <1>7, <1>10, LogShape
<1>14. "complete" \notin B => FtwGetLastWriteRecord(m) = FtwGetLastWriteRecord(log) \cup B
  BY <1>7, <1>10, <1>12, <1>9, <1>3, LogShape
<1>15. n \in DOMAIN log
  BY <1>1
<1> QED BY <1>3, <1>7, <1>8, <1>10, <1>11, <1>13, <1>14, <1>15 DEF m

\* One more entry.
LEMMA LogAppend ==
    ASSUME NEW log, WellLogged(log), ~Open(log), ~TornTail(log),
           NEW B \in SUBSET EntryBits, "alloc" \in B, "complete" \notin B, "spare" \notin B
    PROVE  LET m == Append(log, B)
           IN  /\ WellLogged(m) /\ Len(m) = Len(log) + 1 /\ Open(m)
               /\ TornTail(m) <=> "torn" \in B
               /\ FtwGetLastWriteRecord(m) = B
<1> DEFINE n == Len(log)
           m == Append(log, B)
<1>1. n \in Nat /\ log \in Seq(SUBSET EntryBits)
  BY LogShape DEF WellLogged
<1>2. /\ m \in Seq(SUBSET EntryBits) /\ Len(m) = n + 1 /\ m[n + 1] = B
      /\ \A i \in 1 .. n : m[i] = log[i]
  BY <1>1
<1> HIDE DEF m
<1>3. \A i \in 1 .. n : "complete" \in log[i] /\ "torn" \notin log[i]
  <2> TAKE i \in 1 .. n
  <2>1. n \in 1 .. n
    BY <1>1
  <2>2. "complete" \in log[n] /\ "torn" \notin log[n]
    BY <2>1, <1>1, LogShape DEF Open
  <2>3. i < n \/ i = n
    BY <1>1
  <2>4. i < n => "complete" \in log[i] /\ "torn" \notin log[i]
    BY DEF WellLogged
  <2> QED BY <2>2, <2>3, <2>4
<1>4. \A i \in 1 .. n + 1 :
         /\ "alloc" \in m[i]
         /\ i < n + 1 => "complete" \in m[i] /\ "torn" \notin m[i]
         /\ "torn" \in m[i] => "spare" \notin m[i]
  <2> TAKE i \in 1 .. n + 1
  <2>1. CASE i = n + 1
    BY <2>1, <1>2, <1>1
  <2>2. CASE i # n + 1
    <3>1. i \in 1 .. n
      BY <2>2, <1>1
    <3>2. "alloc" \in log[i]
      BY <3>1 DEF WellLogged
    <3> QED BY <3>1, <3>2, <1>2, <1>3
  <2> QED BY <2>1, <2>2
<1>5. WellLogged(m)
  BY <1>2, <1>4 DEF WellLogged
<1>6. Open(m)
  BY <1>2, <1>1 DEF Open
<1>7. TornTail(m) <=> "torn" \in B
  BY <1>5, <1>2, <1>1, LogShape
<1>8. FtwGetLastWriteRecord(m) = B
  BY <1>5, <1>6, <1>2, LogShape
<1> QED BY <1>2, <1>5, <1>6, <1>7, <1>8 DEF m

-----------------------------------------------------------------------------
(***************************************************************************)
(* The steps, as what they do with the operation at hand.                  *)
(***************************************************************************)
\* The driver goes on with k.
Goes(k) == todo' = k /\ UNCHANGED <<part, flash, power, asked, writes, cuts>>

\* Area a now holds y, and the driver goes on with k.
Becomes(a, y, k) ==
    /\ flash' = [flash EXCEPT ![a] = y]
    /\ todo' = k
    /\ UNCHANGED <<part, power, asked, writes, cuts>>

\* The power failed: before a step, or when area a held y.
Off   == /\ power' = "off" /\ todo' = <<>> /\ cuts' \in 0 .. MaxCuts
         /\ UNCHANGED <<part, asked, writes>>
Cut   == Off /\ UNCHANGED flash
\* The power fails and leaves y in area a.
CutAt(a, y) == Off /\ flash' = [flash EXCEPT ![a] = y]

\* A step with x at hand.
LEMMA NextAt ==
    ASSUME NEW x, NEW k, IsTodo(k), todo = Do(x, k), power # "off", Types, Next
    PROVE  /\ Head(todo) = x /\ Tail(todo) = k /\ todo # <<>>
           /\ \/ Cut
              \/ x.do # "call" /\ CutAt(x.at, Torn(x))
              \/ Flash \/ Functions
<1>1. todo # <<>> /\ Head(todo) = x /\ Tail(todo) = k
  BY DoSeq
<1>2. ASSUME PowerFails PROVE Cut \/ (x.do # "call" /\ CutAt(x.at, Torn(x)))
  <2>1. cuts + 1 \in 0 .. MaxCuts
    BY <1>2, BoundsAssumption DEF PowerFails, Types
  <2>2. Off
    BY <1>2, <2>1 DEF PowerFails, Off
  <2>3. UNCHANGED flash \/ (x.do # "call" /\ flash' = [flash EXCEPT ![x.at] = Torn(x)])
    <3>1. UNCHANGED flash \/ (Head(todo).do # "call"
            /\ flash' = [flash EXCEPT ![Head(todo).at] = Torn(Head(todo))])
      BY <1>2, Zenon DEF PowerFails
    <3> QED BY <1>1, <3>1
  <2> QED BY <2>2, <2>3 DEF Cut, CutAt
<1>3. ~FvbInitialize
  BY DEF FvbInitialize
<1>4. ~(\E t \in Targets : FtwWrite(t))
  BY <1>1 DEF FtwWrite
<1> QED BY <1>1, <1>2, <1>3, <1>4 DEF Next, Driver

\* A call at hand.
LEMMA CallStep ==
    ASSUME NEW x, NEW k, IsTodo(k), todo = Do(x, k), x.do = "call",
           power # "off", Types, Next
    PROVE  \/ Cut
           \/ Functions /\ AtHand("call") /\ Head(todo) = x /\ Tail(todo) = k
<1>1. Head(todo) = x /\ todo # <<>> /\ Tail(todo) = k /\ (Cut \/ Flash \/ Functions)
  BY NextAt
<1>2. ~Flash
  BY <1>1 DEF Flash, FvbEraseBlock, FvbWriteBlock, FtwUpdateFvState, WriteHeader, AtHand
<1> QED BY <1>1, <1>2 DEF AtHand

\* An erase at hand.
LEMMA EraseStep ==
    ASSUME NEW a, NEW p, NEW k, IsTodo(k), todo = Do(Erase(a, p), k),
           power # "off", Types, Next
    PROVE  LET y == ErasedIn(flash[a], p)
           IN  Cut \/ CutAt(a, y) \/ Becomes(a, y, k)
<1> DEFINE x == Erase(a, p)
<1>1. x.do = "erase" /\ x.at = a /\ x.parts = p
  BY DEF Erase
<1> HIDE DEF x
<1>2. /\ Head(todo) = x /\ Tail(todo) = k
      /\ Cut \/ CutAt(x.at, Torn(x)) \/ Flash \/ Functions
  BY NextAt DEF x
<1>3. Torn(x) = ErasedIn(flash[a], p)
  BY <1>1 DEF Torn
<1>4. ~Functions
  BY <1>1, <1>2 DEF Functions, Enter, AtHand, FlushSpareBlockToWorkingBlock,
     FlushSpareBlockToTargetBlock, FtwReclaimWorkSpace, FtwReclaimNewWorkSpace,
     WorkSpaceRefresh, TrySpareBlock, AbortUnready, AbortDone, CheckTail, RestartLast,
     HookProtocol, FtwAbort, FtwWriteRecord, FtwRestart, FtwWriteDescribe, FtwWriteStore
<1>5. Flash => Becomes(a, ErasedIn(flash[a], p), k)
  BY <1>1, <1>2 DEF Flash, FvbEraseBlock, FvbWriteBlock, FtwUpdateFvState, WriteHeader,
     AtHand, Operate, Becomes
<1> QED BY <1>1, <1>2, <1>3, <1>4, <1>5

\* A write at hand.
LEMMA WriteStep ==
    ASSUME NEW a, NEW p, NEW g, NEW k, IsTodo(k), todo = Do(Wrt(a, p, g), k),
           power # "off", Types, a \in Areas, Next
    PROVE  \/ Cut
           \/ p = {"ws"} /\ CutAt(a, WrittenIn(flash[a], p, [g EXCEPT !.log = <<>>]))
           \/ Becomes(a, WrittenIn(flash[a], p, g), k)
<1> DEFINE x == Wrt(a, p, g)
<1>1. x.do = "write" /\ x.at = a /\ x.parts = p /\ x.img = g
  BY DEF Wrt
<1> HIDE DEF x
<1>2. /\ Head(todo) = x /\ Tail(todo) = k
      /\ Cut \/ CutAt(x.at, Torn(x)) \/ Flash \/ Functions
  BY NextAt DEF x
<1>3. Torn(x) = IF p = {"ws"} THEN WrittenIn(flash[a], p, [g EXCEPT !.log = <<>>])
                              ELSE flash[a]
  BY <1>1 DEF Torn
<1>4. ~Functions
  BY <1>1, <1>2 DEF Functions, Enter, AtHand, FlushSpareBlockToWorkingBlock,
     FlushSpareBlockToTargetBlock, FtwReclaimWorkSpace, FtwReclaimNewWorkSpace,
     WorkSpaceRefresh, TrySpareBlock, AbortUnready, AbortDone, CheckTail, RestartLast,
     HookProtocol, FtwAbort, FtwWriteRecord, FtwRestart, FtwWriteDescribe, FtwWriteStore
<1>5. Flash => Becomes(a, WrittenIn(flash[a], p, g), k)
  BY <1>1, <1>2 DEF Flash, FvbEraseBlock, FvbWriteBlock, FtwUpdateFvState, WriteHeader,
     AtHand, Operate, Becomes
<1>6. [flash EXCEPT ![a] = flash[a]] = flash
  BY DEF Types
<1>7. CutAt(a, flash[a]) => Cut
  BY <1>6 DEF Cut, CutAt
<1> QED BY <1>1, <1>2, <1>3, <1>4, <1>5, <1>7

\* A bit of a header, or bits of a log entry, at hand.
LEMMA MarkStep ==
    ASSUME NEW x, NEW a \in Areas, NEW k, IsTodo(k), todo = Do(x, k), x.at = a,
           power # "off", Types, Next
    PROVE  /\ x.do = "header" => Cut \/ Becomes(a, [flash[a] EXCEPT !.hdr = @ \cup {x.bit}], k)
           /\ x.do = "record" => Cut \/ Becomes(a, WithBits(flash[a], x.idx, x.bits), k)
<1> SUFFICES ASSUME x.do \in {"header", "record"}
             PROVE  \/ Cut
                    \/ x.do = "header" /\ Becomes(a, [flash[a] EXCEPT !.hdr = @ \cup {x.bit}], k)
                    \/ x.do = "record" /\ Becomes(a, WithBits(flash[a], x.idx, x.bits), k)
  OBVIOUS
<1>2. /\ Head(todo) = x /\ Tail(todo) = k
      /\ Cut \/ CutAt(x.at, Torn(x)) \/ Flash \/ Functions
  BY NextAt
<1>3. Torn(x) = flash[a]
  BY DEF Torn
<1>4. ~Functions
  BY <1>2 DEF Functions, Enter, AtHand, FlushSpareBlockToWorkingBlock,
     FlushSpareBlockToTargetBlock, FtwReclaimWorkSpace, FtwReclaimNewWorkSpace,
     WorkSpaceRefresh, TrySpareBlock, AbortUnready, AbortDone, CheckTail, RestartLast,
     HookProtocol, FtwAbort, FtwWriteRecord, FtwRestart, FtwWriteDescribe, FtwWriteStore
<1>5. Flash => \/ x.do = "header" /\ Becomes(a, [flash[a] EXCEPT !.hdr = @ \cup {x.bit}], k)
               \/ x.do = "record" /\ Becomes(a, WithBits(flash[a], x.idx, x.bits), k)
  BY <1>2 DEF Flash, FvbEraseBlock, FvbWriteBlock, FtwUpdateFvState, WriteHeader,
     AtHand, Operate, Becomes
<1>6. [flash EXCEPT ![a] = flash[a]] = flash
  BY DEF Types
<1>7. CutAt(a, flash[a]) => Cut
  BY <1>6 DEF Cut, CutAt
<1> QED BY <1>2, <1>3, <1>4, <1>5, <1>7

\* A header mark at hand.
LEMMA HeaderStep ==
    ASSUME NEW a \in Areas, NEW b, NEW k, IsTodo(k), todo = Do(Hdr(a, b), k),
           power # "off", Types, Next
    PROVE  Cut \/ Becomes(a, [flash[a] EXCEPT !.hdr = @ \cup {b}], k)
<1> DEFINE x == Hdr(a, b)
<1>1. x.do = "header" /\ x.at = a /\ x.bit = b
  BY DEF Hdr
<1> HIDE DEF x
<1>2. todo = Do(x, k)
  BY DEF x
<1> QED BY <1>1, <1>2, MarkStep

\* A mark in a write record at hand.
LEMMA RecordStep ==
    ASSUME NEW a \in Areas, NEW i, NEW b, NEW k, IsTodo(k), todo = Do(Rcd(a, i, b), k),
           power # "off", Types, Next
    PROVE  Cut \/ Becomes(a, WithBits(flash[a], i, b), k)
<1> DEFINE x == Rcd(a, i, b)
<1>1. x.do = "record" /\ x.at = a /\ x.idx = i /\ x.bits = b
  BY DEF Rcd
<1> HIDE DEF x
<1>2. todo = Do(x, k)
  BY DEF x
<1> QED BY <1>1, <1>2, MarkStep

\* A new write header at hand.
LEMMA AppendStep ==
    ASSUME NEW k, IsTodo(k), todo = Do(Apd, k), power # "off", Types, Next
    PROVE  \/ Cut
           \/ CutAt("working", [Work EXCEPT !.log = Append(@, {"alloc", "torn"})])
           \/ Becomes("working", [Work EXCEPT !.log = Append(@, {"alloc"})], k)
<1> DEFINE x == Apd
<1>1. x.do = "append" /\ x.at = "working"
  BY DEF Apd
<1> HIDE DEF x
<1>2. /\ Head(todo) = x /\ Tail(todo) = k
      /\ Cut \/ CutAt(x.at, Torn(x)) \/ Flash \/ Functions
  BY <1>1, NextAt DEF x
<1>3. Torn(x) = [Work EXCEPT !.log = Append(@, {"alloc", "torn"})]
  BY <1>1 DEF Torn, Work
<1>4. ~Functions
  BY <1>1, <1>2 DEF Functions, Enter, AtHand, FlushSpareBlockToWorkingBlock,
     FlushSpareBlockToTargetBlock, FtwReclaimWorkSpace, FtwReclaimNewWorkSpace,
     WorkSpaceRefresh, TrySpareBlock, AbortUnready, AbortDone, CheckTail, RestartLast,
     HookProtocol, FtwAbort, FtwWriteRecord, FtwRestart, FtwWriteDescribe, FtwWriteStore
<1>5. Flash => Becomes("working", [Work EXCEPT !.log = Append(@, {"alloc"})], k)
  BY <1>1, <1>2 DEF Flash, FvbEraseBlock, FvbWriteBlock, FtwUpdateFvState, WriteHeader,
     AtHand, Operate, Becomes, Work
<1> QED BY <1>1, <1>2, <1>3, <1>4, <1>5

-----------------------------------------------------------------------------
(***************************************************************************)
(* The bodies of the functions, as operations and what follows them.       *)
(***************************************************************************)
\* Operations in a row, then k.
Then(a, b) == a \o b

\* Nothing, and then k.
LEMMA ThenEmpty ==
    ASSUME NEW k, IsTodo(k)
    PROVE  Then(<<>>, k) = k
  BY EmptyTodo DEF Then

\* The grouping of the operations does not matter, for up to seven groups.
LEMMA ThenAssoc ==
    ASSUME NEW a, NEW b, NEW c, IsTodo(a), IsTodo(b), IsTodo(c)
    PROVE  Then(Then(a, b), c) = Then(a, Then(b, c)) /\ IsTodo(Then(a, b)) /\ IsTodo(Then(b, c))
  BY Assoc, ConcatTodo DEF Then

\* Three groups and k.
LEMMA Then3 ==
    ASSUME NEW a, NEW b, NEW c, NEW k,
           IsTodo(a), IsTodo(b), IsTodo(c), IsTodo(k)
    PROVE  Then(Then(Then(a, b), c), k) = Then(a, Then(b, Then(c, k)))
<1>1. IsTodo(Then(c, k))
  BY ThenAssoc
<1>2. Then(Then(a, b), Then(c, k)) = Then(a, Then(b, Then(c, k))) /\ IsTodo(Then(a, b))
  BY <1>1, ThenAssoc, ThenAssoc
<1> QED BY <1>2, ThenAssoc

\* Four groups and k.
LEMMA Then4 ==
    ASSUME NEW a, NEW b, NEW c, NEW d, NEW k,
           IsTodo(a), IsTodo(b), IsTodo(c), IsTodo(d), IsTodo(k)
    PROVE  Then(Then(Then(Then(a, b), c), d), k) = Then(a, Then(b, Then(c, Then(d, k))))
<1>1. IsTodo(Then(d, k))
  BY ThenAssoc
<1>2. Then(Then(Then(a, b), c), Then(d, k)) = Then(a, Then(b, Then(c, Then(d, k)))) /\ IsTodo(Then(Then(a, b), c))
  BY <1>1, Then3, ThenAssoc
<1> QED BY <1>2, ThenAssoc

\* Five groups and k.
LEMMA Then5 ==
    ASSUME NEW a, NEW b, NEW c, NEW d, NEW e, NEW k,
           IsTodo(a), IsTodo(b), IsTodo(c), IsTodo(d), IsTodo(e), IsTodo(k)
    PROVE  Then(Then(Then(Then(Then(a, b), c), d), e), k) = Then(a, Then(b, Then(c, Then(d, Then(e, k)))))
<1>1. IsTodo(Then(e, k))
  BY ThenAssoc
<1>2. Then(Then(Then(Then(a, b), c), d), Then(e, k)) = Then(a, Then(b, Then(c, Then(d, Then(e, k))))) /\ IsTodo(Then(Then(Then(a, b), c), d))
  BY <1>1, Then4, ThenAssoc
<1> QED BY <1>2, ThenAssoc

\* Six groups and k.
LEMMA Then6 ==
    ASSUME NEW a, NEW b, NEW c, NEW d, NEW e, NEW f, NEW k,
           IsTodo(a), IsTodo(b), IsTodo(c), IsTodo(d), IsTodo(e), IsTodo(f), IsTodo(k)
    PROVE  Then(Then(Then(Then(Then(Then(a, b), c), d), e), f), k) = Then(a, Then(b, Then(c, Then(d, Then(e, Then(f, k))))))
<1>1. IsTodo(Then(f, k))
  BY ThenAssoc
<1>2. Then(Then(Then(Then(Then(a, b), c), d), e), Then(f, k)) = Then(a, Then(b, Then(c, Then(d, Then(e, Then(f, k)))))) /\ IsTodo(Then(Then(Then(Then(a, b), c), d), e))
  BY <1>1, Then5, ThenAssoc
<1> QED BY <1>2, ThenAssoc

\* Seven groups and k, as in InitFtwProtocol().
LEMMA Then7 ==
    ASSUME NEW a, NEW b, NEW c, NEW d, NEW e, NEW f, NEW g, NEW k,
           IsTodo(a), IsTodo(b), IsTodo(c), IsTodo(d), IsTodo(e), IsTodo(f), IsTodo(g), IsTodo(k)
    PROVE  Then(Then(Then(Then(Then(Then(Then(a, b), c), d), e), f), g), k) = Then(a, Then(b, Then(c, Then(d, Then(e, Then(f, Then(g, k)))))))
<1>1. IsTodo(Then(g, k))
  BY ThenAssoc
<1>2. Then(Then(Then(Then(Then(Then(a, b), c), d), e), f), Then(g, k)) = Then(a, Then(b, Then(c, Then(d, Then(e, Then(f, Then(g, k))))))) /\ IsTodo(Then(Then(Then(Then(Then(a, b), c), d), e), f))
  BY <1>1, Then6, ThenAssoc
<1> QED BY <1>2, ThenAssoc

\* One operation, the erase of an area and the writing of one.
LEMMA CallPiece ==
    ASSUME NEW k, IsTodo(k), NEW f
    PROVE  Then(Call(f), k) = Do(Fn(f), k)
  BY DoOne DEF Call, Fn, Then

\* A header mark.
LEMMA HeaderPiece ==
    ASSUME NEW k, IsTodo(k), NEW a, NEW b
    PROVE  Then(SetHeader(a, b), k) = Do(Hdr(a, b), k)
  BY DoOne DEF SetHeader, Hdr, Then

\* A mark in a write record.
LEMMA RecordPiece ==
    ASSUME NEW k, IsTodo(k), NEW a, NEW i, NEW b
    PROVE  Then(SetRecord(a, i, b), k) = Do(Rcd(a, i, b), k)
  BY DoOne DEF SetRecord, Rcd, Then

\* Two operations.
LEMMA PairPiece ==
    ASSUME NEW k, IsTodo(k), NEW x, NEW y
    PROVE  Then(<<x, y>>, k) = Do(x, Do(y, k))
<1>1. IsTodo(<<y>>) /\ <<y>> \o k = Do(y, k)
  BY DoOne
<1>2. <<x, y>> = Do(x, <<y>>)
  BY PairSeq
<1>3. ASSUME NEW q, IsTodo(q) PROVE Do(x, q) \o k = Do(x, q \o k)
  BY <1>3, DoConcat
<1>4. Do(x, <<y>>) \o k = Do(x, <<y>> \o k)
  BY ONLY <1>1, <1>3
<1> QED BY <1>1, <1>2, <1>4 DEF Then

\* The erase of an area.
LEMMA ErasePiece ==
    ASSUME NEW k, IsTodo(k), NEW a
    PROVE  Then(EraseBlocks(a), k) = EraseOf(a, k)
<1>1. CASE part.sector = "4K"
  BY <1>1, PairPiece DEF EraseBlocks, EraseOf
<1>2. CASE part.sector # "4K"
  BY <1>2, DoOne DEF EraseBlocks, EraseOf, Then
<1> QED BY <1>1, <1>2

\* The writing of an area.
LEMMA WritePiece ==
    ASSUME NEW k, IsTodo(k), NEW a, NEW g
    PROVE  Then(WriteBlocks(a, g), k) = WriteOf(a, g, k)
  BY PairPiece DEF WriteBlocks, WriteOf, Wrt

\* Each of these can be followed.
LEMMA PieceTodos ==
    /\ \A f : IsTodo(Call(f))
    /\ \A a, b : IsTodo(SetHeader(a, b))
    /\ \A a, i, b : IsTodo(SetRecord(a, i, b))
    /\ \A a : IsTodo(EraseBlocks(a))
    /\ \A a, g : IsTodo(WriteBlocks(a, g))
<1>1. \A x : IsTodo(<<x>>)
  BY EmptyTodo, DoOne
<1>2. \A x, y : IsTodo(<<x, y>>)
  BY PairSeq
<1>3. /\ \A f : IsTodo(Call(f))
      /\ \A a, b : IsTodo(SetHeader(a, b))
      /\ \A a, i, b : IsTodo(SetRecord(a, i, b))
  BY <1>1 DEF Call, SetHeader, SetRecord
<1>4. \A a : IsTodo(EraseBlocks(a))
  BY <1>1, <1>2 DEF EraseBlocks
<1>5. \A a, g : IsTodo(WriteBlocks(a, g))
  BY <1>2 DEF WriteBlocks
<1> QED BY <1>3, <1>4, <1>5

\* What follows an operation can be followed.
LEMMA Todos ==
    ASSUME NEW k, IsTodo(k), NEW a, NEW g
    PROVE  /\ IsTodo(EraseOf(a, k)) /\ IsTodo(WriteOf(a, g, k)) /\ IsTodo(StoreOf(a, g, k))
           /\ IsTodo(FlValid(k)) /\ IsTodo(FlStore(g, k)) /\ IsTodo(FlInval(g, k))
           /\ IsTodo(FlMark(g, k)) /\ IsTodo(WrComplete(g, k)) /\ IsTodo(WrDest(g, k))
<1>1. \A x, s : IsTodo(s) => IsTodo(Do(x, s))
  BY DoSeq
<1>2. \A s : IsTodo(s) => IsTodo(EraseOf(a, s)) /\ IsTodo(EraseOf("working", s))
  BY <1>1 DEF EraseOf
<1>3. \A s : IsTodo(s) => IsTodo(WriteOf(a, g, s)) /\ IsTodo(WriteOf("working", g, s))
  BY <1>1 DEF WriteOf
<1>4. IsTodo(StoreOf(a, g, k)) /\ \A s : IsTodo(s) => IsTodo(StoreOf("working", g, s))
  BY <1>2, <1>3 DEF StoreOf
<1>5. IsTodo(FlValid(k))
  BY <1>1 DEF FlValid
<1>6. IsTodo(FlStore(g, k))
  BY <1>4, <1>5 DEF FlStore
<1>7. IsTodo(FlInval(g, k)) /\ IsTodo(FlMark(g, k))
  BY <1>1, <1>6 DEF FlInval, FlMark
<1>8. IsTodo(WrComplete(g, k)) /\ IsTodo(WrDest(g, k))
  BY <1>1 DEF WrComplete, WrDest
<1> QED BY <1>2, <1>3, <1>4, <1>5, <1>6, <1>7, <1>8

\* The fixed continuations.
LEMMA ContTodos ==
    /\ IsTodo(I1) /\ IsTodo(I2) /\ IsTodo(I3) /\ IsTodo(I4) /\ IsTodo(I5) /\ IsTodo(I6)
    /\ IsTodo(I7) /\ IsTodo(AbortHook)
    /\ \A t : IsTodo(AppendK(t)) /\ IsTodo(Do(FnOf("Describe", t), <<>>))
             /\ IsTodo(Do(FnOf("Store", t), <<>>))
    /\ \A c : IsTodo(Cont(c))
    /\ \A old : IsTodo(WrEnd(old))
<1>1. \A x, s : IsTodo(s) => IsTodo(Do(x, s))
  BY DoSeq
<1>2. IsTodo(<<>>)
  BY EmptyTodo
<1>3. IsTodo(I7) /\ IsTodo(I6) /\ IsTodo(I5) /\ IsTodo(I4)
  BY <1>1, <1>2 DEF I7, I6, I5, I4
<1>4. IsTodo(I3) /\ IsTodo(I2) /\ IsTodo(I1) /\ IsTodo(AbortHook)
  BY <1>1, <1>3 DEF I3, I2, I1, AbortHook
<1>5. ASSUME NEW t
      PROVE  IsTodo(AppendK(t)) /\ IsTodo(Do(FnOf("Describe", t), <<>>))
             /\ IsTodo(Do(FnOf("Store", t), <<>>))
  BY <1>1, <1>2 DEF AppendK
<1>6. ASSUME NEW c PROVE IsTodo(Cont(c))
  <2>1. IsTodo(Do(Fn("Refresh"), I3))
    BY <1>1, <1>4
  <2>2. Cont(c) \in {I2, I3, I4, I5, I6, I7, Do(Fn("Refresh"), I3), AppendK(c)}
    BY DEF Cont
  <2> QED BY <2>1, <2>2, <1>3, <1>4, <1>5
<1>7. ASSUME NEW old PROVE IsTodo(WrEnd(old))
  BY <1>2, <1>4, Todos DEF WrEnd
<1> QED BY <1>3, <1>4, <1>5, <1>6, <1>7

\* Reclaim's and WriteRecord's continuations.
LEMMA RcTodos ==
    ASSUME NEW old, NEW c
    PROVE  /\ IsTodo(RcBack(old, c)) /\ IsTodo(RcFlush(old, c))
           /\ IsTodo(RcInval(old, c)) /\ IsTodo(RcMark(old, c))
<1>1. IsTodo(RcBack(old, c))
  BY ContTodos, Todos DEF RcBack
<1>2. \A x, s : IsTodo(s) => IsTodo(Do(x, s))
  BY DoSeq
<1> QED BY <1>1, <1>2 DEF RcFlush, RcInval, RcMark

\* The bodies of the functions, and k.
LEMMA FlushProgram ==
    ASSUME NEW k, IsTodo(k)
    PROVE  Then(FlushBody, k) = FlMark(FlImage, k)
<1> DEFINE img == [flash["spare"] EXCEPT !.hdr = {"sig"}]
<1>1. img = FlImage
  BY DEF FlImage, Spare
<1> HIDE DEF img
<1>2. FlushBody = Then(Then(Then(Then(SetHeader("spare", "valid"), SetHeader("working", "invalid")), EraseBlocks("working")), WriteBlocks("working", img)), SetHeader("working", "valid"))
  BY DEF FlushBody, Then, FtwEraseBlock, img
<1>3. /\ IsTodo(SetHeader("spare", "valid")) /\ IsTodo(SetHeader("working", "invalid"))
      /\ IsTodo(EraseBlocks("working")) /\ IsTodo(WriteBlocks("working", img))
      /\ IsTodo(SetHeader("working", "valid"))
  BY PieceTodos, HeaderPiece, ErasePiece, WritePiece
<1>4. Then(FlushBody, k) = Then(SetHeader("spare", "valid"), Then(SetHeader("working", "invalid"), Then(EraseBlocks("working"), Then(WriteBlocks("working", img), Then(SetHeader("working", "valid"), k)))))
  BY <1>2, <1>3, Then5
<1>5. Then(SetHeader("working", "valid"), k) = FlValid(k) /\ IsTodo(FlValid(k))
  BY PieceTodos, HeaderPiece, Todos DEF FlValid
<1>6. /\ Then(WriteBlocks("working", img), FlValid(k)) = WriteOf("working", img, FlValid(k))
      /\ IsTodo(WriteOf("working", img, FlValid(k)))
  BY <1>5, PieceTodos, WritePiece, Todos
<1>7. /\ Then(EraseBlocks("working"), WriteOf("working", img, FlValid(k))) = FlStore(img, k)
      /\ IsTodo(FlStore(img, k))
  BY <1>6, PieceTodos, ErasePiece, Todos DEF FlStore, StoreOf
<1>8. Then(SetHeader("working", "invalid"), FlStore(img, k)) = FlInval(img, k) /\ IsTodo(FlInval(img, k))
  BY <1>7, PieceTodos, HeaderPiece, Todos DEF FlInval
<1>9. Then(SetHeader("spare", "valid"), FlInval(img, k)) = FlMark(img, k)
  BY <1>8, HeaderPiece DEF FlMark
<1> QED BY <1>1, <1>4, <1>5, <1>6, <1>7, <1>8, <1>9

\* Erase and write of an area, as FlushSpareBlockToTargetBlock() does them.
LEMMA StoreProgram ==
    ASSUME NEW a, NEW g, NEW k, IsTodo(k)
    PROVE  /\ Then(Then(EraseBlocks(a), WriteBlocks(a, g)), k) = StoreOf(a, g, k)
           /\ Then(EraseBlocks(a), Then(WriteBlocks(a, g), k)) = StoreOf(a, g, k)
<1>1. IsTodo(EraseBlocks(a)) /\ IsTodo(WriteBlocks(a, g))
  BY PieceTodos, ErasePiece, WritePiece
<1>2. Then(Then(EraseBlocks(a), WriteBlocks(a, g)), k) = Then(EraseBlocks(a), Then(WriteBlocks(a, g), k))
  BY <1>1, ThenAssoc
<1>3. Then(WriteBlocks(a, g), k) = WriteOf(a, g, k) /\ IsTodo(WriteOf(a, g, k))
  BY PieceTodos, WritePiece, Todos
<1>4. Then(EraseBlocks(a), WriteOf(a, g, k)) = EraseOf(a, WriteOf(a, g, k))
  BY <1>3, ErasePiece
<1> QED BY <1>2, <1>3, <1>4 DEF StoreOf

\* FtwReclaimWorkSpace() for either caller.
LEMMA ReclaimProgram ==
    ASSUME NEW h, NEW l, NEW k, IsTodo(k)
    PROVE  Then(ReclaimBody(h, l), k) =
             StoreOf("spare", [data |-> Work.data, hdr |-> h, log |-> l],
               Do(Hdr("spare", "valid"), Do(Hdr("working", "invalid"),
                 Do(Fn("FlushToWorking"), StoreOf("spare", Spare, k)))))
<1> DEFINE img == [data |-> Work.data, hdr |-> h, log |-> l]
           a == EraseBlocks("spare")
           b == WriteBlocks("spare", img)
           c == SetHeader("spare", "valid")
           d == SetHeader("working", "invalid")
           e == Call("FlushToWorking")
           f == WriteBlocks("spare", Spare)
           k1 == StoreOf("spare", Spare, k)
           k2 == Do(Fn("FlushToWorking"), k1)
           k3 == Do(Hdr("working", "invalid"), k2)
           k4 == Do(Hdr("spare", "valid"), k3)
<1>1. ReclaimBody(h, l) = Then(Then(Then(Then(Then(Then(a, b), c), d), e), a), f)
  BY DEF ReclaimBody, Then, FtwEraseSpareBlock, Work, Spare
<1>2. IsTodo(a) /\ IsTodo(b) /\ IsTodo(c) /\ IsTodo(d) /\ IsTodo(e) /\ IsTodo(f)
  BY PieceTodos
<1>3. IsTodo(k1) /\ IsTodo(k2) /\ IsTodo(k3) /\ IsTodo(k4)
  <2>1. IsTodo(k1)
    BY Todos
  <2>2. IsTodo(k2)
    BY <2>1, DoSeq
  <2>3. IsTodo(k3)
    BY <2>2, DoSeq
  <2>4. IsTodo(k4)
    BY <2>3, DoSeq
  <2> QED BY <2>1, <2>2, <2>3, <2>4
<1>4. Then(a, Then(f, k)) = k1 /\ Then(a, Then(b, k4)) = StoreOf("spare", img, k4)
  BY <1>3, StoreProgram
<1>5. Then(e, k1) = k2 /\ Then(d, k2) = k3 /\ Then(c, k3) = k4
  BY <1>3, CallPiece, HeaderPiece, RecordPiece, ErasePiece, WritePiece, PieceTodos
<1> HIDE DEF a, b, c, d, e, f, k1, k2, k3, k4
<1>6. Then(ReclaimBody(h, l), k) = Then(a, Then(b, Then(c, Then(d, Then(e, Then(a, Then(f, k)))))))
  BY <1>1, <1>2, Then7
<1>7. Then(ReclaimBody(h, l), k) = StoreOf("spare", img, k4)
  BY <1>4, <1>5, <1>6
<1> QED BY <1>7 DEF k1, k2, k3, k4

\* InitFtwProtocol() from its first call on.
LEMMA InitProgram == InitBody = I1
<1> DEFINE a == Call("Refresh") b == Call("TrySpare") c == Call("AbortUnready")
           d == Call("AbortDone") e == Call("CheckTail") f == Call("RestartLast")
           g == Call("Hook")
<1>0. IsTodo(<<>>)
  BY EmptyTodo, ThenEmpty
<1>1. InitBody = Then(Then(Then(Then(Then(Then(a, b), c), d), e), f), g)
  BY DEF InitBody, Then
<1>2. /\ IsTodo(a) /\ IsTodo(b) /\ IsTodo(c) /\ IsTodo(d) /\ IsTodo(e) /\ IsTodo(f)
      /\ IsTodo(g) /\ g = I7
  BY <1>0, PieceTodos, DoOne DEF I7, Fn, Call
<1>3. Then(f, I7) = I6 /\ Then(e, I6) = I5 /\ Then(d, I5) = I4 /\ Then(c, I4) = I3 /\ Then(b, I3) = I2 /\ Then(a, I2) = I1
  BY ContTodos, CallPiece, HeaderPiece, RecordPiece, ErasePiece, WritePiece, PieceTodos DEF I1, I2, I3, I4, I5, I6
<1> HIDE DEF a, b, c, d, e, f, g
<1>4. InitBody = Then(a, Then(b, Then(c, Then(d, Then(e, Then(f, g))))))
  BY <1>1, <1>2, Then6
<1> QED BY <1>2, <1>3, <1>4

\* FtwWriteRecord() for the working block and for another volume.
LEMMA RecordProgram ==
    ASSUME NEW i, NEW b, NEW k, IsTodo(k), b \in BOOLEAN
    PROVE  Then(Then(Then(IF b THEN Then(SetRecord("spare", i, {"spare"}), Call("FlushToWorking"))
                   ELSE Call("FlushToTarget"), SetRecord("working", i, {"dest"})), SetRecord("working", i, {"complete"})), k) =
           IF b THEN Do(Rcd("spare", i, {"spare"}), Do(Fn("FlushToWorking"), WrDest(i, k)))
                ELSE Do(Fn("FlushToTarget"), WrDest(i, k))
<1> DEFINE r == SetRecord("spare", i, {"spare"}) f == Call("FlushToWorking")
           h == Call("FlushToTarget")
           d == SetRecord("working", i, {"dest"}) e == SetRecord("working", i, {"complete"})
           k1 == WrDest(i, k)
           s == Do(Fn("FlushToWorking"), k1)
<1>1. IsTodo(r) /\ IsTodo(f) /\ IsTodo(h) /\ IsTodo(d) /\ IsTodo(e)
  BY PieceTodos
<1>2. IsTodo(k1) /\ IsTodo(WrComplete(i, k))
  BY Todos
<1>3. Then(e, k) = WrComplete(i, k)
  BY CallPiece, HeaderPiece, RecordPiece, ErasePiece, WritePiece, PieceTodos DEF WrComplete
<1>4. Then(d, WrComplete(i, k)) = k1
  BY <1>2, CallPiece, HeaderPiece, RecordPiece, ErasePiece, WritePiece, PieceTodos DEF WrDest
<1>5. Then(h, k1) = Do(Fn("FlushToTarget"), k1) /\ Then(f, k1) = s /\ IsTodo(s)
  BY <1>2, PieceTodos, CallPiece, DoSeq
<1>6. Then(r, s) = Do(Rcd("spare", i, {"spare"}), s)
  BY <1>5, CallPiece, HeaderPiece, RecordPiece, ErasePiece, WritePiece, PieceTodos
<1> HIDE DEF r, f, h, d, e, k1, s
<1>7. Then(Then(Then(h, d), e), k) = Then(h, k1)
  BY <1>1, <1>3, <1>4, Then3
<1>8. Then(Then(Then(Then(r, f), d), e), k) = Then(r, s)
  BY <1>1, <1>3, <1>4, <1>5, Then4
<1>9. CASE b
  BY <1>9, <1>8, <1>6 DEF r, f, d, e, s, k1
<1>10. CASE ~b
  BY <1>10, <1>7, <1>5 DEF h, d, e, k1
<1> QED BY <1>9, <1>10

\* FtwWrite() from the erase of the spare block to its restoration.
LEMMA StoredProgram ==
    ASSUME NEW g, NEW o, NEW i, NEW k, IsTodo(k)
    PROVE  Then(Then(Then(Then(Then(Then(FtwEraseSpareBlock, WriteBlocks("spare", g)), SetRecord("working", i, {"spare"})), Call("WriteRecord")), FtwEraseSpareBlock), WriteBlocks("spare", o)), k) =
           StoreOf("spare", g, Do(Rcd("working", i, {"spare"}),
             Do(Fn("WriteRecord"), StoreOf("spare", o, k))))
<1> DEFINE a == EraseBlocks("spare") b == WriteBlocks("spare", g)
           c == SetRecord("working", i, {"spare"}) d == Call("WriteRecord")
           e == WriteBlocks("spare", o)
           k1 == StoreOf("spare", o, k)
           k2 == Do(Fn("WriteRecord"), k1)
           k3 == Do(Rcd("working", i, {"spare"}), k2)
<1>1. IsTodo(a) /\ IsTodo(b) /\ IsTodo(c) /\ IsTodo(d) /\ IsTodo(e)
  BY PieceTodos
<1>2. IsTodo(k1)
  BY Todos
<1>3. IsTodo(k2)
  BY <1>2, DoSeq
<1>4. IsTodo(k3)
  BY <1>3, DoSeq
<1>5. Then(a, Then(e, k)) = k1 /\ Then(a, Then(b, k3)) = StoreOf("spare", g, k3)
  BY <1>4, StoreProgram
<1>6. Then(d, k1) = k2 /\ Then(c, k2) = k3
  BY <1>2, <1>3, CallPiece, HeaderPiece, RecordPiece, ErasePiece, WritePiece, PieceTodos
<1>7. FtwEraseSpareBlock = a
  BY DEF FtwEraseSpareBlock
<1> HIDE DEF a, b, c, d, e, k1, k2, k3
<1>8. Then(Then(Then(Then(Then(Then(a, b), c), d), a), e), k) = StoreOf("spare", g, k3)
  BY <1>1, <1>5, <1>6, Then6
<1> QED BY <1>7, <1>8 DEF b, c, d, e, k1, k2, k3

\* FlushSpareBlockToWorkingBlock()
LEMMA FlushStep ==
    ASSUME NEW k, IsTodo(k), todo = Do(Fn("FlushToWorking"), k), power # "off", Types, Next
    PROVE  Cut \/ Goes(FlMark(FlImage, k))
<1> DEFINE x == Fn("FlushToWorking")
<1>1. x.do = "call" /\ x.fn = "FlushToWorking"
  BY DEF Fn
<1> HIDE DEF x
<1>2. Cut \/ (Functions /\ Head(todo) = x /\ Tail(todo) = k)
  BY <1>1, CallStep DEF x
<1>3. SUFFICES ASSUME Functions, Head(todo) = x, Tail(todo) = k
             PROVE  Goes(FlMark(FlImage, k))
  BY <1>2
<1>4. FlushSpareBlockToWorkingBlock
  BY <1>1, <1>3 DEF Functions, Enter, FlushSpareBlockToWorkingBlock,
     FlushSpareBlockToTargetBlock, FtwReclaimWorkSpace, FtwReclaimNewWorkSpace,
     WorkSpaceRefresh, TrySpareBlock, AbortUnready, AbortDone, CheckTail, RestartLast,
     HookProtocol, FtwAbort, FtwWriteRecord, FtwRestart, FtwWriteDescribe, FtwWriteStore
<1>5. Goes(Then(FlushBody, k))
  BY <1>3, <1>4 DEF FlushSpareBlockToWorkingBlock, Enter, Goes, Then
<1> QED BY <1>5, FlushProgram
\* FlushSpareBlockToTargetBlock()
LEMMA TargetStep ==
    ASSUME NEW k, IsTodo(k), todo = Do(Fn("FlushToTarget"), k), power # "off", Types, Next
    PROVE  Cut \/ Goes(StoreOf("other", [Erased EXCEPT !.data = Spare.data], k))
<1> DEFINE x == Fn("FlushToTarget")
<1>1. x.do = "call" /\ x.fn = "FlushToTarget"
  BY DEF Fn
<1> HIDE DEF x
<1>2. Cut \/ (Functions /\ Head(todo) = x /\ Tail(todo) = k)
  BY <1>1, CallStep DEF x
<1>3. SUFFICES ASSUME Functions, Head(todo) = x, Tail(todo) = k
             PROVE  Goes(StoreOf("other", [Erased EXCEPT !.data = Spare.data], k))
  BY <1>2
<1>4. FlushSpareBlockToTargetBlock
  BY <1>1, <1>3 DEF Functions, Enter, FlushSpareBlockToWorkingBlock,
     FlushSpareBlockToTargetBlock, FtwReclaimWorkSpace, FtwReclaimNewWorkSpace,
     WorkSpaceRefresh, TrySpareBlock, AbortUnready, AbortDone, CheckTail, RestartLast,
     HookProtocol, FtwAbort, FtwWriteRecord, FtwRestart, FtwWriteDescribe, FtwWriteStore
<1> DEFINE g == [Erased EXCEPT !.data = flash["spare"].data]
<1>5. Goes(Then(Then(EraseBlocks("other"), WriteBlocks("other", g)), k))
  BY <1>3, <1>4 DEF FlushSpareBlockToTargetBlock, FtwEraseBlock, Enter, Goes, Then
<1> HIDE DEF g
<1>6. Then(Then(EraseBlocks("other"), WriteBlocks("other", g)), k) = StoreOf("other", g, k)
  BY StoreProgram
<1> QED BY <1>5, <1>6 DEF g, Spare
\* FtwReclaimWorkSpace() with the log kept
LEMMA ReclaimStep ==
    ASSUME NEW k, IsTodo(k), todo = Do(Fn("Reclaim"), k), power # "off", Types, Next
    PROVE  Cut \/ Goes(StoreOf("spare", [data |-> Work.data, hdr |-> Work.hdr \ {"valid", "invalid"}, log |-> Preserved(Work.log)],
               Do(Hdr("spare", "valid"), Do(Hdr("working", "invalid"),
                 Do(Fn("FlushToWorking"), StoreOf("spare", Spare, k))))))
<1> DEFINE x == Fn("Reclaim")
<1>1. x.do = "call" /\ x.fn = "Reclaim"
  BY DEF Fn
<1> HIDE DEF x
<1>2. Cut \/ (Functions /\ Head(todo) = x /\ Tail(todo) = k)
  BY <1>1, CallStep DEF x
<1>3. SUFFICES ASSUME Functions, Head(todo) = x, Tail(todo) = k
             PROVE  Goes(StoreOf("spare", [data |-> Work.data, hdr |-> Work.hdr \ {"valid", "invalid"}, log |-> Preserved(Work.log)],
               Do(Hdr("spare", "valid"), Do(Hdr("working", "invalid"),
                 Do(Fn("FlushToWorking"), StoreOf("spare", Spare, k))))))
  BY <1>2
<1>4. FtwReclaimWorkSpace
  BY <1>1, <1>3 DEF Functions, Enter, FlushSpareBlockToWorkingBlock,
     FlushSpareBlockToTargetBlock, FtwReclaimWorkSpace, FtwReclaimNewWorkSpace,
     WorkSpaceRefresh, TrySpareBlock, AbortUnready, AbortDone, CheckTail, RestartLast,
     HookProtocol, FtwAbort, FtwWriteRecord, FtwRestart, FtwWriteDescribe, FtwWriteStore
<1> DEFINE h == Work.hdr \ {"valid", "invalid"}
           l == Preserved(Work.log)
<1>5. Goes(Then(ReclaimBody(h, l), k))
  BY <1>3, <1>4 DEF FtwReclaimWorkSpace, Enter, Goes, Then, Work
<1> HIDE DEF h, l
<1>6. Then(ReclaimBody(h, l), k) = StoreOf("spare", [data |-> Work.data, hdr |-> h, log |-> l],
               Do(Hdr("spare", "valid"), Do(Hdr("working", "invalid"),
                 Do(Fn("FlushToWorking"), StoreOf("spare", Spare, k)))))
  BY ReclaimProgram
<1> QED BY <1>5, <1>6 DEF h, l
\* FtwReclaimWorkSpace() with a new log
LEMMA ReclaimNewStep ==
    ASSUME NEW k, IsTodo(k), todo = Do(Fn("ReclaimNew"), k), power # "off", Types, Next
    PROVE  Cut \/ Goes(StoreOf("spare", [data |-> Work.data, hdr |-> {"sig"}, log |-> <<>>],
               Do(Hdr("spare", "valid"), Do(Hdr("working", "invalid"),
                 Do(Fn("FlushToWorking"), StoreOf("spare", Spare, k))))))
<1> DEFINE x == Fn("ReclaimNew")
<1>1. x.do = "call" /\ x.fn = "ReclaimNew"
  BY DEF Fn
<1> HIDE DEF x
<1>2. Cut \/ (Functions /\ Head(todo) = x /\ Tail(todo) = k)
  BY <1>1, CallStep DEF x
<1>3. SUFFICES ASSUME Functions, Head(todo) = x, Tail(todo) = k
             PROVE  Goes(StoreOf("spare", [data |-> Work.data, hdr |-> {"sig"}, log |-> <<>>],
               Do(Hdr("spare", "valid"), Do(Hdr("working", "invalid"),
                 Do(Fn("FlushToWorking"), StoreOf("spare", Spare, k))))))
  BY <1>2
<1>4. FtwReclaimNewWorkSpace
  BY <1>1, <1>3 DEF Functions, Enter, FlushSpareBlockToWorkingBlock,
     FlushSpareBlockToTargetBlock, FtwReclaimWorkSpace, FtwReclaimNewWorkSpace,
     WorkSpaceRefresh, TrySpareBlock, AbortUnready, AbortDone, CheckTail, RestartLast,
     HookProtocol, FtwAbort, FtwWriteRecord, FtwRestart, FtwWriteDescribe, FtwWriteStore
<1>5. Goes(Then(ReclaimBody({"sig"}, <<>>), k))
  BY <1>3, <1>4 DEF FtwReclaimNewWorkSpace, Enter, Goes, Then
<1> QED BY <1>5, ReclaimProgram
\* WorkSpaceRefresh()
LEMMA RefreshStep ==
    ASSUME NEW k, IsTodo(k), todo = Do(Fn("Refresh"), k), power # "off", Types, Next
    PROVE  Cut \/ Goes(IF Full(Work.log) THEN Do(Fn("Reclaim"), k) ELSE k)
<1> DEFINE x == Fn("Refresh")
<1>1. x.do = "call" /\ x.fn = "Refresh"
  BY DEF Fn
<1> HIDE DEF x
<1>2. Cut \/ (Functions /\ Head(todo) = x /\ Tail(todo) = k)
  BY <1>1, CallStep DEF x
<1>3. SUFFICES ASSUME Functions, Head(todo) = x, Tail(todo) = k
             PROVE  Goes(IF Full(Work.log) THEN Do(Fn("Reclaim"), k) ELSE k)
  BY <1>2
<1>4. WorkSpaceRefresh
  BY <1>1, <1>3 DEF Functions, Enter, FlushSpareBlockToWorkingBlock,
     FlushSpareBlockToTargetBlock, FtwReclaimWorkSpace, FtwReclaimNewWorkSpace,
     WorkSpaceRefresh, TrySpareBlock, AbortUnready, AbortDone, CheckTail, RestartLast,
     HookProtocol, FtwAbort, FtwWriteRecord, FtwRestart, FtwWriteDescribe, FtwWriteStore
<1>5. Goes(Then(IF Full(Work.log) THEN Call("Reclaim") ELSE <<>>, k))
  BY <1>3, <1>4 DEF Enter, Goes, Then, WorkSpaceRefresh, Work
<1>6. Then(IF Full(Work.log) THEN Call("Reclaim") ELSE <<>>, k) = (IF Full(Work.log) THEN Do(Fn("Reclaim"), k) ELSE k)
  BY CallPiece, HeaderPiece, RecordPiece, ErasePiece, WritePiece, PieceTodos, EmptyTodo, ThenEmpty
<1> QED BY <1>5, <1>6
\* InitFtwProtocol(): a work space that is not valid
LEMMA TrySpareStep ==
    ASSUME NEW k, IsTodo(k), todo = Do(Fn("TrySpare"), k), power # "off", Types, Next
    PROVE  Cut \/ Goes(IF Valid(Work) THEN k ELSE
                       IF Valid(Spare)
                         THEN Do(Fn("FlushToWorking"), Do(Fn("Abort"), Do(Fn("Refresh"), k)))
                         ELSE Do(Fn("ReclaimNew"), k))
<1> DEFINE x == Fn("TrySpare")
<1>1. x.do = "call" /\ x.fn = "TrySpare"
  BY DEF Fn
<1> HIDE DEF x
<1>2. Cut \/ (Functions /\ Head(todo) = x /\ Tail(todo) = k)
  BY <1>1, CallStep DEF x
<1>3. SUFFICES ASSUME Functions, Head(todo) = x, Tail(todo) = k
             PROVE  Goes(IF Valid(Work) THEN k ELSE
                       IF Valid(Spare)
                         THEN Do(Fn("FlushToWorking"), Do(Fn("Abort"), Do(Fn("Refresh"), k)))
                         ELSE Do(Fn("ReclaimNew"), k))
  BY <1>2
<1>4. TrySpareBlock
  BY <1>1, <1>3 DEF Functions, Enter, FlushSpareBlockToWorkingBlock,
     FlushSpareBlockToTargetBlock, FtwReclaimWorkSpace, FtwReclaimNewWorkSpace,
     WorkSpaceRefresh, TrySpareBlock, AbortUnready, AbortDone, CheckTail, RestartLast,
     HookProtocol, FtwAbort, FtwWriteRecord, FtwRestart, FtwWriteDescribe, FtwWriteStore
<1>5. Goes(Then(IF Valid(Work) THEN <<>> ELSE IF Valid(Spare)
              THEN Then(Then(Call("FlushToWorking"), Call("Abort")), Call("Refresh"))
              ELSE Call("ReclaimNew"), k))
  BY <1>3, <1>4 DEF TrySpareBlock, Enter, Goes, Then, IsValidWorkSpace, Valid, Work, Spare
<1>6. Then(Call("ReclaimNew"), k) = Do(Fn("ReclaimNew"), k) /\ Then(<<>>, k) = k
  BY CallPiece, EmptyTodo, ThenEmpty
<1>7. Then(Then(Then(Call("FlushToWorking"), Call("Abort")), Call("Refresh")), k)
        = Do(Fn("FlushToWorking"), Do(Fn("Abort"), Do(Fn("Refresh"), k)))
  <2>1. IsTodo(Call("FlushToWorking")) /\ IsTodo(Call("Abort")) /\ IsTodo(Call("Refresh"))
    BY PieceTodos, CallPiece
  <2>2. Then(Call("Refresh"), k) = Do(Fn("Refresh"), k) /\ IsTodo(Do(Fn("Refresh"), k))
    BY PieceTodos, CallPiece, DoSeq
  <2>3. /\ Then(Call("Abort"), Do(Fn("Refresh"), k)) = Do(Fn("Abort"), Do(Fn("Refresh"), k))
        /\ IsTodo(Do(Fn("Abort"), Do(Fn("Refresh"), k)))
    BY <2>2, PieceTodos, CallPiece, DoSeq
  <2>4. Then(Call("FlushToWorking"), Do(Fn("Abort"), Do(Fn("Refresh"), k)))
          = Do(Fn("FlushToWorking"), Do(Fn("Abort"), Do(Fn("Refresh"), k)))
    BY <2>3, CallPiece
  <2> QED BY <2>1, <2>2, <2>3, <2>4, Then3
<1> QED BY <1>5, <1>6, <1>7
\* InitFtwProtocol(): a write that never got to the spare block
LEMMA UnreadyStep ==
    ASSUME NEW k, IsTodo(k), todo = Do(Fn("AbortUnready"), k), power # "off", Types, Next
    PROVE  Cut \/ Goes(IF "alloc" \in Last /\ "spare" \notin Last THEN Do(Fn("Abort"), k) ELSE k)
<1> DEFINE x == Fn("AbortUnready")
<1>1. x.do = "call" /\ x.fn = "AbortUnready"
  BY DEF Fn
<1> HIDE DEF x
<1>2. Cut \/ (Functions /\ Head(todo) = x /\ Tail(todo) = k)
  BY <1>1, CallStep DEF x
<1>3. SUFFICES ASSUME Functions, Head(todo) = x, Tail(todo) = k
             PROVE  Goes(IF "alloc" \in Last /\ "spare" \notin Last THEN Do(Fn("Abort"), k) ELSE k)
  BY <1>2
<1>4. AbortUnready
  BY <1>1, <1>3 DEF Functions, Enter, FlushSpareBlockToWorkingBlock,
     FlushSpareBlockToTargetBlock, FtwReclaimWorkSpace, FtwReclaimNewWorkSpace,
     WorkSpaceRefresh, TrySpareBlock, AbortUnready, AbortDone, CheckTail, RestartLast,
     HookProtocol, FtwAbort, FtwWriteRecord, FtwRestart, FtwWriteDescribe, FtwWriteStore
<1>5. Goes(Then(IF "alloc" \in Last /\ "spare" \notin Last THEN Call("Abort") ELSE <<>>, k))
  BY <1>3, <1>4 DEF Enter, Goes, Then, AbortUnready, Work
<1>6. Then(IF "alloc" \in Last /\ "spare" \notin Last THEN Call("Abort") ELSE <<>>, k) = (IF "alloc" \in Last /\ "spare" \notin Last THEN Do(Fn("Abort"), k) ELSE k)
  BY CallPiece, HeaderPiece, RecordPiece, ErasePiece, WritePiece, PieceTodos, EmptyTodo, ThenEmpty
<1> QED BY <1>5, <1>6
\* InitFtwProtocol(): a write that only lacks its last mark
LEMMA DoneStep ==
    ASSUME NEW k, IsTodo(k), todo = Do(Fn("AbortDone"), k), power # "off", Types, Next
    PROVE  Cut \/ Goes(IF "dest" \in Last THEN Do(Fn("Abort"), k) ELSE k)
<1> DEFINE x == Fn("AbortDone")
<1>1. x.do = "call" /\ x.fn = "AbortDone"
  BY DEF Fn
<1> HIDE DEF x
<1>2. Cut \/ (Functions /\ Head(todo) = x /\ Tail(todo) = k)
  BY <1>1, CallStep DEF x
<1>3. SUFFICES ASSUME Functions, Head(todo) = x, Tail(todo) = k
             PROVE  Goes(IF "dest" \in Last THEN Do(Fn("Abort"), k) ELSE k)
  BY <1>2
<1>4. AbortDone
  BY <1>1, <1>3 DEF Functions, Enter, FlushSpareBlockToWorkingBlock,
     FlushSpareBlockToTargetBlock, FtwReclaimWorkSpace, FtwReclaimNewWorkSpace,
     WorkSpaceRefresh, TrySpareBlock, AbortUnready, AbortDone, CheckTail, RestartLast,
     HookProtocol, FtwAbort, FtwWriteRecord, FtwRestart, FtwWriteDescribe, FtwWriteStore
<1>5. Goes(Then(IF "dest" \in Last THEN Call("Abort") ELSE <<>>, k))
  BY <1>3, <1>4 DEF Enter, Goes, Then, AbortDone, Work
<1>6. Then(IF "dest" \in Last THEN Call("Abort") ELSE <<>>, k) = (IF "dest" \in Last THEN Do(Fn("Abort"), k) ELSE k)
  BY CallPiece, HeaderPiece, RecordPiece, ErasePiece, WritePiece, PieceTodos, EmptyTodo, ThenEmpty
<1> QED BY <1>5, <1>6
\* InitFtwProtocol(): a log that does not end
LEMMA TailStep ==
    ASSUME NEW k, IsTodo(k), todo = Do(Fn("CheckTail"), k), power # "off", Types, Next
    PROVE  Cut \/ Goes(IF TornTail(Work.log) THEN Do(Fn("Reclaim"), k) ELSE k)
<1> DEFINE x == Fn("CheckTail")
<1>1. x.do = "call" /\ x.fn = "CheckTail"
  BY DEF Fn
<1> HIDE DEF x
<1>2. Cut \/ (Functions /\ Head(todo) = x /\ Tail(todo) = k)
  BY <1>1, CallStep DEF x
<1>3. SUFFICES ASSUME Functions, Head(todo) = x, Tail(todo) = k
             PROVE  Goes(IF TornTail(Work.log) THEN Do(Fn("Reclaim"), k) ELSE k)
  BY <1>2
<1>4. CheckTail
  BY <1>1, <1>3 DEF Functions, Enter, FlushSpareBlockToWorkingBlock,
     FlushSpareBlockToTargetBlock, FtwReclaimWorkSpace, FtwReclaimNewWorkSpace,
     WorkSpaceRefresh, TrySpareBlock, AbortUnready, AbortDone, CheckTail, RestartLast,
     HookProtocol, FtwAbort, FtwWriteRecord, FtwRestart, FtwWriteDescribe, FtwWriteStore
<1>5. Goes(Then(IF TornTail(Work.log) THEN Call("Reclaim") ELSE <<>>, k))
  BY <1>3, <1>4 DEF Enter, Goes, Then, CheckTail, Work
<1>6. Then(IF TornTail(Work.log) THEN Call("Reclaim") ELSE <<>>, k) = (IF TornTail(Work.log) THEN Do(Fn("Reclaim"), k) ELSE k)
  BY CallPiece, HeaderPiece, RecordPiece, ErasePiece, WritePiece, PieceTodos, EmptyTodo, ThenEmpty
<1> QED BY <1>5, <1>6
\* InitFtwProtocol(): a write that is complete in the spare block
LEMMA LastStep ==
    ASSUME NEW k, IsTodo(k), todo = Do(Fn("RestartLast"), k), power # "off", Types, Next
    PROVE  Cut \/ Goes(IF "spare" \in Last THEN Do(Fn("Restart"), Do(Fn("Abort"), k)) ELSE k)
<1> DEFINE x == Fn("RestartLast")
<1>1. x.do = "call" /\ x.fn = "RestartLast"
  BY DEF Fn
<1> HIDE DEF x
<1>2. Cut \/ (Functions /\ Head(todo) = x /\ Tail(todo) = k)
  BY <1>1, CallStep DEF x
<1>3. SUFFICES ASSUME Functions, Head(todo) = x, Tail(todo) = k
             PROVE  Goes(IF "spare" \in Last THEN Do(Fn("Restart"), Do(Fn("Abort"), k)) ELSE k)
  BY <1>2
<1>4. RestartLast
  BY <1>1, <1>3 DEF Functions, Enter, FlushSpareBlockToWorkingBlock,
     FlushSpareBlockToTargetBlock, FtwReclaimWorkSpace, FtwReclaimNewWorkSpace,
     WorkSpaceRefresh, TrySpareBlock, AbortUnready, AbortDone, CheckTail, RestartLast,
     HookProtocol, FtwAbort, FtwWriteRecord, FtwRestart, FtwWriteDescribe, FtwWriteStore
<1>5. Goes(Then(IF "spare" \in Last THEN Then(Call("Restart"), Call("Abort")) ELSE <<>>, k))
  BY <1>3, <1>4 DEF RestartLast, Enter, Goes, Then
<1>6. Then(Call("Abort"), k) = Do(Fn("Abort"), k) /\ IsTodo(Do(Fn("Abort"), k)) /\ Then(<<>>, k) = k
  BY PieceTodos, CallPiece, EmptyTodo, ThenEmpty, DoSeq
<1>7. IsTodo(Call("Restart")) /\ IsTodo(Call("Abort"))
  BY PieceTodos, CallPiece
<1>8. Then(Then(Call("Restart"), Call("Abort")), k) = Then(Call("Restart"), Do(Fn("Abort"), k))
  BY <1>6, <1>7, ThenAssoc
<1>9. Then(Call("Restart"), Do(Fn("Abort"), k)) = Do(Fn("Restart"), Do(Fn("Abort"), k))
  BY <1>6, CallPiece
<1> QED BY <1>5, <1>6, <1>8, <1>9
\* FtwAbort()
LEMMA AbortStep ==
    ASSUME NEW k, IsTodo(k), todo = Do(Fn("Abort"), k), power # "off", Types, Next
    PROVE  Cut \/ Goes(Do(Fn("Refresh"), IF "alloc" \in Last
                     THEN Do(Rcd("working", FtwGetLastWriteHeader(Work.log), {"complete"}), k) ELSE k))
<1> DEFINE x == Fn("Abort")
<1>1. x.do = "call" /\ x.fn = "Abort"
  BY DEF Fn
<1> HIDE DEF x
<1>2. Cut \/ (Functions /\ Head(todo) = x /\ Tail(todo) = k)
  BY <1>1, CallStep DEF x
<1>3. SUFFICES ASSUME Functions, Head(todo) = x, Tail(todo) = k
             PROVE  Goes(Do(Fn("Refresh"), IF "alloc" \in Last
                     THEN Do(Rcd("working", FtwGetLastWriteHeader(Work.log), {"complete"}), k) ELSE k))
  BY <1>2
<1>4. FtwAbort
  BY <1>1, <1>3 DEF Functions, Enter, FlushSpareBlockToWorkingBlock,
     FlushSpareBlockToTargetBlock, FtwReclaimWorkSpace, FtwReclaimNewWorkSpace,
     WorkSpaceRefresh, TrySpareBlock, AbortUnready, AbortDone, CheckTail, RestartLast,
     HookProtocol, FtwAbort, FtwWriteRecord, FtwRestart, FtwWriteDescribe, FtwWriteStore
<1> DEFINE i == FtwGetLastWriteHeader(Work.log)
           s == IF "alloc" \in Last THEN SetRecord("working", i, {"complete"}) ELSE <<>>
           m == IF "alloc" \in Last THEN Do(Rcd("working", i, {"complete"}), k) ELSE k
<1>5. Goes(Then(Then(Call("Refresh"), s), k))
  BY <1>3, <1>4 DEF FtwAbort, Enter, Goes, Then, Work
<1> HIDE DEF i
<1>6. IsTodo(s) /\ Then(s, k) = m /\ IsTodo(m) /\ IsTodo(Call("Refresh"))
  BY PieceTodos, RecordPiece, EmptyTodo, ThenEmpty, DoSeq
<1> HIDE DEF s, m
<1>7. Then(Then(Call("Refresh"), s), k) = Then(Call("Refresh"), m)
  BY <1>6, ThenAssoc
<1>8. Then(Call("Refresh"), m) = Do(Fn("Refresh"), m)
  BY <1>6, CallPiece
<1> QED BY <1>5, <1>7, <1>8 DEF i, m
\* FtwWriteRecord()
LEMMA WriteRecordStep ==
    ASSUME NEW k, IsTodo(k), todo = Do(Fn("WriteRecord"), k), power # "off", Types, Next
    PROVE  Cut \/ Goes(LET i == FtwGetLastWriteHeader(Work.log)
                       IN  IF "working" \in Last
                             THEN Do(Rcd("spare", i, {"spare"}),
                                     Do(Fn("FlushToWorking"), WrDest(i, k)))
                             ELSE Do(Fn("FlushToTarget"), WrDest(i, k)))
<1> DEFINE x == Fn("WriteRecord")
<1>1. x.do = "call" /\ x.fn = "WriteRecord"
  BY DEF Fn
<1> HIDE DEF x
<1>2. Cut \/ (Functions /\ Head(todo) = x /\ Tail(todo) = k)
  BY <1>1, CallStep DEF x
<1>3. SUFFICES ASSUME Functions, Head(todo) = x, Tail(todo) = k
             PROVE  Goes(LET i == FtwGetLastWriteHeader(Work.log)
                       IN  IF "working" \in Last
                             THEN Do(Rcd("spare", i, {"spare"}),
                                     Do(Fn("FlushToWorking"), WrDest(i, k)))
                             ELSE Do(Fn("FlushToTarget"), WrDest(i, k)))
  BY <1>2
<1>4. FtwWriteRecord
  BY <1>1, <1>3 DEF Functions, Enter, FlushSpareBlockToWorkingBlock,
     FlushSpareBlockToTargetBlock, FtwReclaimWorkSpace, FtwReclaimNewWorkSpace,
     WorkSpaceRefresh, TrySpareBlock, AbortUnready, AbortDone, CheckTail, RestartLast,
     HookProtocol, FtwAbort, FtwWriteRecord, FtwRestart, FtwWriteDescribe, FtwWriteStore
<1> DEFINE i == FtwGetLastWriteHeader(Work.log)
           b == "working" \in Last
<1>5. Goes(Then(Then(Then(IF b THEN Then(SetRecord("spare", i, {"spare"}), Call("FlushToWorking"))
                   ELSE Call("FlushToTarget"), SetRecord("working", i, {"dest"})), SetRecord("working", i, {"complete"})), k))
  BY <1>3, <1>4 DEF FtwWriteRecord, Enter, Goes, Then, Work
<1>6. b \in BOOLEAN
  OBVIOUS
<1> HIDE DEF i, b
<1> QED BY <1>5, <1>6, RecordProgram DEF i, b
\* FtwRestart()
LEMMA RestartStep ==
    ASSUME NEW k, IsTodo(k), todo = Do(Fn("Restart"), k), power # "off", Types, Next
    PROVE  Cut \/ Goes(Do(Fn("Refresh"), Do(Fn("WriteRecord"), EraseOf("spare", k))))
<1> DEFINE x == Fn("Restart")
<1>1. x.do = "call" /\ x.fn = "Restart"
  BY DEF Fn
<1> HIDE DEF x
<1>2. Cut \/ (Functions /\ Head(todo) = x /\ Tail(todo) = k)
  BY <1>1, CallStep DEF x
<1>3. SUFFICES ASSUME Functions, Head(todo) = x, Tail(todo) = k
             PROVE  Goes(Do(Fn("Refresh"), Do(Fn("WriteRecord"), EraseOf("spare", k))))
  BY <1>2
<1>4. FtwRestart
  BY <1>1, <1>3 DEF Functions, Enter, FlushSpareBlockToWorkingBlock,
     FlushSpareBlockToTargetBlock, FtwReclaimWorkSpace, FtwReclaimNewWorkSpace,
     WorkSpaceRefresh, TrySpareBlock, AbortUnready, AbortDone, CheckTail, RestartLast,
     HookProtocol, FtwAbort, FtwWriteRecord, FtwRestart, FtwWriteDescribe, FtwWriteStore
<1> DEFINE a == Call("Refresh") b == Call("WriteRecord") c == EraseBlocks("spare")
<1>5. Goes(Then(Then(Then(a, b), c), k))
  BY <1>3, <1>4 DEF FtwRestart, FtwEraseSpareBlock, Enter, Goes, Then
<1>6. IsTodo(a) /\ IsTodo(b) /\ IsTodo(c) /\ Then(c, k) = EraseOf("spare", k) /\ IsTodo(EraseOf("spare", k))
  BY PieceTodos, ErasePiece, Todos
<1>7. /\ Then(b, EraseOf("spare", k)) = Do(Fn("WriteRecord"), EraseOf("spare", k))
      /\ IsTodo(Do(Fn("WriteRecord"), EraseOf("spare", k)))
  BY <1>6, PieceTodos, CallPiece, DoSeq
<1>8. Then(a, Do(Fn("WriteRecord"), EraseOf("spare", k)))
        = Do(Fn("Refresh"), Do(Fn("WriteRecord"), EraseOf("spare", k)))
  BY <1>7, CallPiece
<1> HIDE DEF a, b, c
<1>9. Then(Then(Then(a, b), c), k) = Then(a, Then(b, Then(c, k)))
  BY <1>6, Then3
<1> QED BY <1>5, <1>6, <1>7, <1>8, <1>9
\* FtwWrite(): the record says where the data go
LEMMA DescribeStep ==
    ASSUME NEW k, NEW t, IsTodo(k), todo = Do(FnOf("Describe", t), k), power # "off", Types, Next
    PROVE  Cut \/ Goes(Do(Rcd("working", FtwGetLastWriteHeader(Work.log), {"rec", t}), Do(FnOf("Store", t), k)))
<1> DEFINE x == FnOf("Describe", t)
<1>1. x.do = "call" /\ x.fn = "Describe" /\ x.target = t
  BY DEF FnOf
<1> HIDE DEF x
<1>2. Cut \/ (Functions /\ Head(todo) = x /\ Tail(todo) = k)
  BY <1>1, CallStep DEF x
<1>3. SUFFICES ASSUME Functions, Head(todo) = x, Tail(todo) = k
             PROVE  Goes(Do(Rcd("working", FtwGetLastWriteHeader(Work.log), {"rec", t}), Do(FnOf("Store", t), k)))
  BY <1>2
<1>4. FtwWriteDescribe
  BY <1>1, <1>3 DEF Functions, Enter, FlushSpareBlockToWorkingBlock,
     FlushSpareBlockToTargetBlock, FtwReclaimWorkSpace, FtwReclaimNewWorkSpace,
     WorkSpaceRefresh, TrySpareBlock, AbortUnready, AbortDone, CheckTail, RestartLast,
     HookProtocol, FtwAbort, FtwWriteRecord, FtwRestart, FtwWriteDescribe, FtwWriteStore
<1> DEFINE i == FtwGetLastWriteHeader(Work.log)
           s == <<FnOf("Store", t)>>
<1>5. Goes(Then(Then(SetRecord("working", i, {"rec", t}), s), k))
  BY <1>1, <1>3, <1>4 DEF FtwWriteDescribe, Enter, Goes, Then, Work, FnOf
<1> HIDE DEF i
<1>6. IsTodo(s) /\ Then(s, k) = Do(FnOf("Store", t), k) /\ IsTodo(Do(FnOf("Store", t), k))
  BY DoOne, DoSeq DEF Then
<1>7. IsTodo(SetRecord("working", i, {"rec", t}))
  BY PieceTodos, RecordPiece
<1> HIDE DEF s
<1>8. Then(Then(SetRecord("working", i, {"rec", t}), s), k)
        = Then(SetRecord("working", i, {"rec", t}), Do(FnOf("Store", t), k))
  BY <1>6, <1>7, ThenAssoc
<1>9. Then(SetRecord("working", i, {"rec", t}), Do(FnOf("Store", t), k))
        = Do(Rcd("working", i, {"rec", t}), Do(FnOf("Store", t), k))
  BY <1>6, RecordPiece
<1> QED BY <1>5, <1>8, <1>9 DEF i
\* FtwWrite(): the image goes to the spare block
LEMMA StoreStep ==
    ASSUME NEW k, NEW t, IsTodo(k), todo = Do(FnOf("Store", t), k), power # "off", Types, Next
    PROVE  Cut \/ Goes(StoreOf("spare", WriteImage(t),
                       Do(Rcd("working", FtwGetLastWriteHeader(Work.log), {"spare"}),
                          Do(Fn("WriteRecord"), StoreOf("spare", Spare, k)))))
<1> DEFINE x == FnOf("Store", t)
<1>1. x.do = "call" /\ x.fn = "Store" /\ x.target = t
  BY DEF FnOf
<1> HIDE DEF x
<1>2. Cut \/ (Functions /\ Head(todo) = x /\ Tail(todo) = k)
  BY <1>1, CallStep DEF x
<1>3. SUFFICES ASSUME Functions, Head(todo) = x, Tail(todo) = k
             PROVE  Goes(StoreOf("spare", WriteImage(t),
                       Do(Rcd("working", FtwGetLastWriteHeader(Work.log), {"spare"}),
                          Do(Fn("WriteRecord"), StoreOf("spare", Spare, k)))))
  BY <1>2
<1>4. FtwWriteStore
  BY <1>1, <1>3 DEF Functions, Enter, FlushSpareBlockToWorkingBlock,
     FlushSpareBlockToTargetBlock, FtwReclaimWorkSpace, FtwReclaimNewWorkSpace,
     WorkSpaceRefresh, TrySpareBlock, AbortUnready, AbortDone, CheckTail, RestartLast,
     HookProtocol, FtwAbort, FtwWriteRecord, FtwRestart, FtwWriteDescribe, FtwWriteStore
<1> DEFINE i == FtwGetLastWriteHeader(Work.log)
           g == WriteImage(t)
<1>5. Goes(Then(Then(Then(Then(Then(Then(FtwEraseSpareBlock, WriteBlocks("spare", g)), SetRecord("working", i, {"spare"})), Call("WriteRecord")), FtwEraseSpareBlock), WriteBlocks("spare", Spare)), k))
  BY <1>1, <1>3, <1>4 DEF FtwWriteStore, Enter, Goes, Then, WriteImage, Work, Spare
<1> HIDE DEF i, g
<1>6. Then(Then(Then(Then(Then(Then(FtwEraseSpareBlock, WriteBlocks("spare", g)), SetRecord("working", i, {"spare"})), Call("WriteRecord")), FtwEraseSpareBlock), WriteBlocks("spare", Spare)), k)
        = StoreOf("spare", g, Do(Rcd("working", i, {"spare"}),
             Do(Fn("WriteRecord"), StoreOf("spare", Spare, k))))
  BY StoredProgram
<1> QED BY <1>5, <1>6 DEF i, g

\* HookProtocol()
LEMMA HookStep ==
    ASSUME NEW k, IsTodo(k), todo = Do(Fn("Hook"), k), power # "off", Types, Next
    PROVE  \/ Cut
           \/ /\ todo' = k /\ power' = "ready"
              /\ asked' = [t \in Targets |-> flash[t].data]
              /\ UNCHANGED <<part, flash, writes, cuts>>
<1> DEFINE x == Fn("Hook")
<1>1. x.do = "call" /\ x.fn = "Hook"
  BY DEF Fn
<1> HIDE DEF x
<1>2. Cut \/ (Functions /\ Head(todo) = x /\ Tail(todo) = k)
  BY <1>1, CallStep DEF x
<1>3. Functions /\ Head(todo) = x => HookProtocol
  BY <1>1 DEF Functions, Enter, FlushSpareBlockToWorkingBlock,
     FlushSpareBlockToTargetBlock, FtwReclaimWorkSpace, FtwReclaimNewWorkSpace,
     WorkSpaceRefresh, TrySpareBlock, AbortUnready, AbortDone, CheckTail, RestartLast,
     FtwAbort, FtwWriteRecord, FtwRestart, FtwWriteDescribe, FtwWriteStore
<1> QED BY <1>2, <1>3 DEF HookProtocol

\* With nothing at hand the board is switched on, or a caller writes.
LEMMA RestStep ==
    ASSUME todo = <<>>, Types, Next
    PROVE  /\ power = "off" => FvbInitialize
           /\ power # "off" => Cut \/ (\E t \in Targets : FtwWrite(t))
<1>1. ~Flash /\ ~Functions
  BY DEF Flash, FvbEraseBlock, FvbWriteBlock, FtwUpdateFvState, WriteHeader, AtHand,
     Functions, Enter, FlushSpareBlockToWorkingBlock,
     FlushSpareBlockToTargetBlock, FtwReclaimWorkSpace, FtwReclaimNewWorkSpace,
     WorkSpaceRefresh, TrySpareBlock, AbortUnready, AbortDone, CheckTail, RestartLast,
     HookProtocol, FtwAbort, FtwWriteRecord, FtwRestart, FtwWriteDescribe, FtwWriteStore
<1>2. PowerFails => Cut /\ power # "off"
  <2>1. PowerFails => cuts + 1 \in 0 .. MaxCuts
    BY BoundsAssumption DEF PowerFails, Types
  <2> QED BY <2>1 DEF PowerFails, Cut, Off
<1>3. power = "off" => ~(\E t \in Targets : FtwWrite(t))
  BY DEF FtwWrite
<1>4. FvbInitialize => power = "off"
  BY DEF FvbInitialize
<1> QED BY <1>1, <1>2, <1>3, <1>4 DEF Next, Driver

\* FvbInitialize() with the repairs there are.
LEMMA InitStep ==
    ASSUME FvbInitialize
    PROVE  LET w == Erase("working", RepairParts)
               o == Erase("other", RepairParts)
               rest == IF Other.data # Lost THEN I1 ELSE Do(o, I1)
           IN  /\ power' = "boot" /\ UNCHANGED <<part, flash, asked, writes, cuts>>
               /\ todo' = IF Work.data # Lost THEN rest ELSE Do(w, rest)
<1> DEFINE w == Erase("working", RepairParts)
           o == Erase("other", RepairParts)
           rw == IF Work.data # Lost THEN <<>> ELSE <<w>>
           ro == IF Other.data # Lost THEN <<>> ELSE <<o>>
           rest == IF Other.data # Lost THEN I1 ELSE Do(o, I1)
<1>1. /\ todo' = Then(Then(rw, ro), InitBody)
      /\ power' = "boot" /\ UNCHANGED <<part, flash, asked, writes, cuts>>
  BY DEF FvbInitialize, Then, RepairParts, Work, Other
<1>2. IsTodo(I1) /\ InitBody = I1 /\ IsTodo(<<>>)
  BY ContTodos, InitProgram, EmptyTodo
<1> HIDE DEF w, o
<1>3. IsTodo(rw) /\ IsTodo(ro)
  BY <1>2, DoOne
<1>4. Then(ro, I1) = rest /\ IsTodo(rest)
  BY <1>2, ThenEmpty, DoOne, DoSeq DEF Then
<1>5. Then(rw, rest) = IF Work.data # Lost THEN rest ELSE Do(w, rest)
  BY <1>4, ThenEmpty, DoOne DEF Then
<1>6. Then(Then(rw, ro), I1) = Then(rw, Then(ro, I1))
  BY <1>2, <1>3, ThenAssoc
<1> HIDE DEF rw, ro, rest
<1>7. todo' = IF Work.data # Lost THEN rest ELSE Do(w, rest)
  BY <1>1, <1>2, <1>4, <1>5, <1>6
<1> QED BY <1>1, <1>7 DEF rest, w, o

\* FtwWrite() before its first step.
LEMMA WriteCallStep ==
    ASSUME NEW t, FtwWrite(t)
    PROVE  todo' = Do(Fn("Refresh"), AppendK(t))
<1> DEFINE a == Call("Refresh") b == <<Apd>> c == <<FnOf("Describe", t)>>
<1>1. todo' = Then(Then(a, b), c)
  BY DEF FtwWrite, Then, Apd, FnOf
<1>2. IsTodo(<<>>) /\ IsTodo(a) /\ IsTodo(AppendK(t))
  BY EmptyTodo, PieceTodos, ContTodos
<1>3. c = Do(FnOf("Describe", t), <<>>) /\ IsTodo(c) /\ IsTodo(b)
  BY <1>2, DoOne
<1>4. Then(b, c) = AppendK(t)
  BY <1>3, DoOne DEF AppendK, Then
<1>5. Then(a, AppendK(t)) = Do(Fn("Refresh"), AppendK(t))
  BY <1>2, CallPiece
<1> HIDE DEF a, b, c
<1>6. Then(Then(a, b), c) = Then(a, Then(b, c))
  BY <1>2, <1>3, ThenAssoc
<1> QED BY <1>1, <1>4, <1>5, <1>6

-----------------------------------------------------------------------------
(***************************************************************************)
(* What a step leaves alone.                                               *)
(***************************************************************************)
\* A step that does not touch the flash.
LEMMA GoesOn ==
    ASSUME NEW k, Goes(k), Types, FlashOK
    PROVE  /\ Types' /\ FlashOK' /\ UNCHANGED <<part, flash, power, asked, writes, cuts>>
           /\ todo' = k /\ Work' = Work /\ Spare' = Spare /\ Other' = Other
<1>1. UNCHANGED <<part, flash, power, asked, writes, cuts>> /\ todo' = k
  BY DEF Goes
<1>2. Types'
  BY <1>1 DEF Types
<1>3. Work' = Work /\ Spare' = Spare /\ Other' = Other
  BY <1>1 DEF Work, Spare, Other
<1>4. FlashOK'
  BY <1>1 DEF FlashOK, AllFit, AreaOK, ImageOK, GoodLog, Work, Spare, Other
<1> QED BY <1>1, <1>2, <1>3, <1>4

\* A power failure between two steps.
LEMMA CutInv ==
    ASSUME Cut, FtwInv
    PROVE  FtwInv'
<1>1. UNCHANGED <<part, flash, asked, writes>> /\ power' = "off" /\ todo' = <<>> /\ cuts' \in 0 .. MaxCuts
  BY DEF Cut, Off
<1>2. Types'
  BY <1>1 DEF FtwInv, Types
<1>3. FlashOK'
  BY <1>1 DEF FtwInv, FlashOK, AllFit, AreaOK, ImageOK, GoodLog, Work, Spare, Other
<1>4. Point'
  BY <1>1 DEF Point
<1> QED BY <1>2, <1>3, <1>4 DEF FtwInv

\* The areas after a step that changes area a.
After(a, y, b) == IF b = a THEN y ELSE flash[b]

\* A step that changes an area, and goes on.
LEMMA AreaBecomes ==
    ASSUME NEW a \in Areas, NEW y, NEW k, Becomes(a, y, k), Types,
           AllFit(After(a, y, "working"), After(a, y, "spare"), After(a, y, "other"))
    PROVE  /\ Types' /\ FlashOK' /\ UNCHANGED <<part, power, asked, writes, cuts>> /\ todo' = k
           /\ Work' = After(a, y, "working") /\ Spare' = After(a, y, "spare")
           /\ Other' = After(a, y, "other")
<1>1. /\ UNCHANGED <<part, power, asked, writes, cuts>> /\ todo' = k
      /\ flash' = [flash EXCEPT ![a] = y]
  BY DEF Becomes
<1>2. Types'
  BY <1>1 DEF Types
<1>3. /\ Work' = After(a, y, "working") /\ Spare' = After(a, y, "spare")
      /\ Other' = After(a, y, "other")
  BY <1>1 DEF Work, Spare, Other, After, Types, Areas
<1>4. FlashOK'
  BY <1>1, <1>3 DEF FlashOK, AllFit, AreaOK, ImageOK, GoodLog
<1> QED BY <1>1, <1>2, <1>3, <1>4

\* A step that changes an area and ends in a power failure.
LEMMA CutAtInv ==
    ASSUME NEW a \in Areas, NEW y, CutAt(a, y), Types,
           AllFit(After(a, y, "working"), After(a, y, "spare"), After(a, y, "other"))
    PROVE  FtwInv'
<1>1. /\ UNCHANGED <<part, asked, writes>> /\ todo' = <<>> /\ power' = "off" /\ cuts' \in 0 .. MaxCuts
      /\ flash' = [flash EXCEPT ![a] = y]
  BY DEF CutAt, Off
<1>2. Types'
  BY <1>1 DEF Types
<1>3. /\ Work' = After(a, y, "working") /\ Spare' = After(a, y, "spare")
      /\ Other' = After(a, y, "other")
  BY <1>1 DEF Work, Spare, Other, After, Types, Areas
<1>4. FlashOK'
  BY <1>1, <1>3 DEF FlashOK, AllFit, AreaOK, ImageOK, GoodLog
<1>5. Point'
  BY <1>1 DEF Point
<1> QED BY <1>2, <1>4, <1>5 DEF FtwInv

-----------------------------------------------------------------------------
(***************************************************************************)
(* The contents of the areas.                                              *)
(***************************************************************************)
Area(d, h, l) == [data |-> d, hdr |-> h, log |-> l]

\* The parts of an area's contents.
LEMMA AreaFields ==
    \A d, h, l : Area(d, h, l).data = d /\ Area(d, h, l).hdr = h /\ Area(d, h, l).log = l
  BY DEF Area

\* Contents with the log of an area, or with none.
LEMMA Forms ==
    ASSUME Types, NEW x, AreaOK(x)
    PROVE  /\ x = Area(x.data, x.hdr, x.log)
           /\ x.data \in Images /\ x.hdr \in SUBSET HeaderBits /\ WellLogged(x.log)
           /\ \A d \in Images, h \in SUBSET HeaderBits :
                /\ AreaOK(Area(d, h, x.log))
                /\ ImageOK(x) => ImageOK(Area(d, h, x.log))
           /\ \A h : [x EXCEPT !.hdr = h] = Area(x.data, h, x.log)
           /\ \A d : [x EXCEPT !.data = d] = Area(d, x.hdr, x.log)
           /\ \A l : [x EXCEPT !.log = l] = Area(x.data, x.hdr, l)
           /\ ErasedIn(x, {"data"}) = Area(Lost, x.hdr, x.log)
           /\ ErasedIn(x, {"ws"}) = Area(x.data, {}, <<>>)
           /\ Lost \in Images
<1>1. x \in [data : Images, hdr : SUBSET HeaderBits, log : Seq(SUBSET EntryBits)]
  BY DEF AreaOK, AreaContents
<1>2. x = Area(x.data, x.hdr, x.log) /\ x.data \in Images /\ x.hdr \in SUBSET HeaderBits
  BY <1>1 DEF Area
<1>3. WellLogged(x.log)
  BY DEF AreaOK, GoodLog
<1>4. ASSUME NEW d \in Images, NEW h \in SUBSET HeaderBits
      PROVE  /\ AreaOK(Area(d, h, x.log))
             /\ ImageOK(x) => ImageOK(Area(d, h, x.log))
  <2>1. Area(d, h, x.log) \in AreaContents
    BY <1>1 DEF Area, AreaContents
  <2> QED BY <2>1, AreaFields DEF AreaOK, ImageOK, Lst
<1>5. /\ \A h : [x EXCEPT !.hdr = h] = Area(x.data, h, x.log)
      /\ \A d : [x EXCEPT !.data = d] = Area(d, x.hdr, x.log)
      /\ \A l : [x EXCEPT !.log = l] = Area(x.data, x.hdr, l)
  BY <1>1 DEF Area
<1>6. /\ ErasedIn(x, {"data"}) = Area(Lost, x.hdr, x.log)
      /\ ErasedIn(x, {"ws"}) = Area(x.data, {}, <<>>)
  BY DEF ErasedIn, Area
<1>7. Lost \in Images
  BY BoundsAssumption DEF Lost, Images
<1> QED BY <1>2, <1>3, <1>4, <1>5, <1>6, <1>7

\* Contents with an empty log are well formed, an erased area too.
LEMMA EmptyForms ==
    ASSUME Types
    PROVE  /\ \A d \in Images, h \in SUBSET HeaderBits :
                /\ ImageOK(Area(d, h, <<>>)) /\ AreaOK(Area(d, h, <<>>))
                /\ Lst(Area(d, h, <<>>)) = {} /\ ~Full(<<>>)
           /\ Erased = Area(Lost, {}, <<>>)
           /\ ImageOK(Erased)
           /\ \A d : [Erased EXCEPT !.data = d] = Area(d, {}, <<>>)
           /\ \A x : ErasedIn(x, {"data", "ws"}) = Erased
<1>1. part.cap \in Nat /\ writes \in Nat /\ part.cap > 0
  BY PartsAssumption DEF Types
<1>2. ASSUME NEW d \in Images, NEW h \in SUBSET HeaderBits
      PROVE  /\ ImageOK(Area(d, h, <<>>)) /\ AreaOK(Area(d, h, <<>>))
             /\ Lst(Area(d, h, <<>>)) = {}
  <2>1. Area(d, h, <<>>) \in AreaContents
    BY DEF Area, AreaContents
  <2>2. GoodLog(<<>>) /\ ~TornTail(<<>>) /\ FtwGetLastWriteRecord(<<>>) = {}
    BY <1>1, LogEmpty DEF GoodLog
  <2> QED BY <2>1, <2>2, AreaFields DEF AreaOK, ImageOK, Lst
<1>3. ~Full(<<>>)
  <2>1. FtwGetLastWriteHeader(<<>>) = 1
    BY LogEmpty, LogShape
  <2> QED BY <2>1, <1>1 DEF Full
<1>4. Erased = Area(Lost, {}, <<>>)
  BY DEF Erased, Area
<1>5. Lost \in Images
  BY BoundsAssumption DEF Lost, Images
<1>6. ASSUME NEW d PROVE [Erased EXCEPT !.data = d] = Area(d, {}, <<>>)
  <2> DEFINE e == [data |-> Lost, hdr |-> {}, log |-> <<>>]
             y == [e EXCEPT !.data = d]
  <2>1. DOMAIN y = {"data", "hdr", "log"} /\ y.data = d /\ y.hdr = {} /\ y.log = <<>>
    OBVIOUS
  <2> DEFINE H == {{}} L == {<<>>} D == {Lost, d}
  <2>3. e \in [data : D, hdr : H, log : L]
    OBVIOUS
  <2> HIDE DEF e
  <2>4. y \in [data : D, hdr : H, log : L]
    BY <2>3
  <2>2. y = [data |-> d, hdr |-> {}, log |-> <<>>]
    <3> HIDE DEF y
    <3>1. y = [data |-> y.data, hdr |-> y.hdr, log |-> y.log]
      BY <2>4
    <3> QED BY <3>1, <2>1
  <2> QED BY <2>2 DEF Erased, Area, e
<1>7. \A x : ErasedIn(x, {"data", "ws"}) = Erased
  BY DEF ErasedIn, Erased
<1> QED BY <1>2, <1>3, <1>4, <1>5, <1>6, <1>7

\* The parts of FlashOK.
LEMMA FlashFacts ==
    ASSUME FlashOK
    PROVE  /\ AreaOK(Work) /\ AreaOK(Spare) /\ ImageOK(Spare) /\ AreaOK(Other)
           /\ WellLogged(Work.log) /\ WellLogged(Spare.log)
           /\ Last = Lst(Work)
           /\ Spare \in Image
           /\ Work.hdr \in SUBSET HeaderBits
<1>1. AreaOK(Work) /\ AreaOK(Spare) /\ ImageOK(Spare) /\ AreaOK(Other)
  BY DEF FlashOK, AllFit, ImageOK
<1>2. Last = Lst(Work)
  BY DEF Last, Lst, Work
<1>3. Spare \in AreaContents /\ Work \in AreaContents
  BY <1>1 DEF AreaOK
<1> QED BY <1>1, <1>2, <1>3 DEF AreaOK, GoodLog, Image, AreaContents

\* The spare block may be changed while no write is committed in it.
LEMMA SpareTo ==
    ASSUME FlashOK, ~Committed, NEW y, ImageOK(y)
    PROVE  AllFit(After("spare", y, "working"), After("spare", y, "spare"), After("spare", y, "other"))
<1>1. /\ After("spare", y, "working") = Work /\ After("spare", y, "spare") = y
      /\ After("spare", y, "other") = Other
  BY DEF After, Work, Other
<1> QED BY <1>1 DEF FlashOK, AllFit, Fits, Committed

\* The other volume may take any contents.
LEMMA OtherTo ==
    ASSUME FlashOK, NEW y, AreaOK(y)
    PROVE  AllFit(After("other", y, "working"), After("other", y, "spare"), After("other", y, "other"))
<1>1. /\ After("other", y, "working") = Work /\ After("other", y, "spare") = Spare
      /\ After("other", y, "other") = y
  BY DEF After, Work, Spare
<1> QED BY <1>1 DEF FlashOK, AllFit

\* The working block may take contents that fit the spare block.
LEMMA WorkTo ==
    ASSUME FlashOK, NEW y, AreaOK(y), Fits(y, Spare), y.log # <<>> => "sig" \in y.hdr
    PROVE  AllFit(After("working", y, "working"), After("working", y, "spare"), After("working", y, "other"))
<1>1. /\ After("working", y, "working") = y /\ After("working", y, "spare") = Spare
      /\ After("working", y, "other") = Other
  BY DEF After, Spare, Other
<1> QED BY <1>1 DEF FlashOK, AllFit

-----------------------------------------------------------------------------
(***************************************************************************)
(* Storing an image in an area.                                            *)
(***************************************************************************)
\* The contents on the way from x to g.
Partial(x, g) ==
    (IF part.sector = "4K" THEN {Area(Lost, x.hdr, x.log)} ELSE {})
      \cup {Erased, Area(g.data, {}, <<>>)}

\* A step of storing g in area a: the power fails, the area is on its way to g, or it is g.
LEMMA StoringStep ==
    ASSUME NEW a \in Areas, NEW g, NEW k, IsTodo(k), Storing(a, g, k),
           AreaOK(g), AreaOK(flash[a]), power # "off", Types, Next
    PROVE  \/ Cut
           \/ CutAt(a, Area(g.data, g.hdr, <<>>))
           \/ Becomes(a, g, k)
           \/ \E y \in Partial(flash[a], g) :
                CutAt(a, y) \/ (\E t : Becomes(a, y, t) /\ Storing(a, g, k)')
<1> DEFINE w1 == Do(Wrt(a, {"ws"}, g), k)
           w0 == WriteOf(a, g, k)
           x == flash[a]
           e1 == Do(Erase(a, {"ws"}), w0)
<1>1. IsTodo(w1) /\ IsTodo(w0) /\ IsTodo(e1)
  <2>1. IsTodo(w1)
    BY DoSeq
  <2>2. IsTodo(w0)
    BY Todos
  <2> QED BY <2>1, <2>2, DoSeq
<1>2. w0 = Do(Wrt(a, {"data"}, g), w1)
  BY DEF WriteOf
<1>3. /\ x = Area(x.data, x.hdr, x.log) /\ g = Area(g.data, g.hdr, g.log)
      /\ ErasedIn(x, {"data"}) = Area(Lost, x.hdr, x.log)
      /\ ErasedIn(x, {"ws"}) = Area(x.data, {}, <<>>)
      /\ [g EXCEPT !.log = <<>>] = Area(g.data, g.hdr, <<>>)
  BY Forms
<1>4. /\ ErasedIn(x, {"data", "ws"}) = Erased /\ Erased = Area(Lost, {}, <<>>)
      /\ [Erased EXCEPT !.data = g.data] = Area(g.data, {}, <<>>)
  BY EmptyForms
<1>5. part.sector \in {"4K", "64K"}
  BY PartsAssumption DEF Types
<1>6. ASSUME NEW y, NEW t, Becomes(a, y, t)
      PROVE  flash'[a] = y /\ todo' = t /\ part' = part
  BY <1>6 DEF Becomes, Types
<1>7. CASE todo = StoreOf(a, g, k)
  <2>1. CASE part.sector = "4K"
    <3>1. todo = Do(Erase(a, {"data"}), e1)
      BY <1>7, <2>1 DEF StoreOf, EraseOf
    <3> DEFINE y == Area(Lost, x.hdr, x.log)
    <3>2. Cut \/ CutAt(a, y) \/ Becomes(a, y, e1)
      BY <3>1, <1>1, <1>3, EraseStep
    <3>3. y \in Partial(x, g)
      BY <2>1 DEF Partial
    <3>4. y.data = Lost
      BY AreaFields
    <3> HIDE DEF y, x
    <3>5. ASSUME Becomes(a, y, e1) PROVE Storing(a, g, k)'
      <4>1. part'.sector = "4K" /\ todo' = e1 /\ flash'[a].data = Lost
        BY <1>6, <2>1, <3>4, <3>5
      <4> QED BY <4>1 DEF Storing, WriteOf
    <3> QED BY <3>2, <3>3, <3>5 DEF x
  <2>2. CASE part.sector = "64K"
    <3>1. todo = Do(Erase(a, {"data", "ws"}), w0)
      BY <1>7, <2>2 DEF StoreOf, EraseOf
    <3>2. Cut \/ CutAt(a, Erased) \/ Becomes(a, Erased, w0)
      BY <3>1, <1>1, <1>4, EraseStep
    <3>3. Erased \in Partial(x, g)
      BY DEF Partial
    <3>4. ASSUME Becomes(a, Erased, w0) PROVE Storing(a, g, k)'
      <4>1. todo' = w0 /\ flash'[a] = Erased
        BY <1>6, <3>4
      <4> QED BY <4>1 DEF Storing, WriteOf, Erased
    <3> QED BY <3>2, <3>3, <3>4
  <2> QED BY <2>1, <2>2, <1>5
<1>8. CASE todo = e1 /\ x.data = Lost
  <2>1. Cut \/ CutAt(a, Erased) \/ Becomes(a, Erased, w0)
    BY <1>8, <1>1, <1>3, <1>4, EraseStep
  <2>2. Erased \in Partial(x, g)
    BY DEF Partial
  <2>3. ASSUME Becomes(a, Erased, w0) PROVE Storing(a, g, k)'
    <3>1. todo' = w0 /\ flash'[a] = Erased
      BY <1>6, <2>3
    <3> QED BY <3>1 DEF Storing, WriteOf, Erased
  <2> QED BY <2>1, <2>2, <2>3
<1>9. CASE todo = w0 /\ x = Erased
  <2> DEFINE y == Area(g.data, {}, <<>>)
  <2>1. WrittenIn(x, {"data"}, g) = y
    BY <1>9, <1>4, AreaFields DEF WrittenIn, Area
  <2>2. {"data"} # {"ws"}
    OBVIOUS
  <2>3. Cut \/ Becomes(a, y, w1)
    BY <2>1, <2>2, <1>9, <1>1, <1>2, WriteStep
  <2>4. y \in Partial(x, g)
    BY DEF Partial
  <2>5. ASSUME Becomes(a, y, w1) PROVE Storing(a, g, k)'
    <3>1. todo' = w1 /\ flash'[a] = [Erased EXCEPT !.data = g.data]
      BY <1>6, <2>5, <1>4
    <3> QED BY <3>1 DEF Storing, Erased
  <2> HIDE DEF y, x, w1
  <2> QED BY <2>3, <2>4, <2>5 DEF x
<1>10. CASE todo = w1 /\ x = [Erased EXCEPT !.data = g.data]
  <2>1. x = Area(g.data, {}, <<>>)
    BY <1>10, <1>4
  <2>2. WrittenIn(x, {"ws"}, g) = Area(g.data, g.hdr, g.log)
    BY <2>1, AreaFields DEF WrittenIn, Area
  <2>3. WrittenIn(x, {"ws"}, [g EXCEPT !.log = <<>>]) = Area(g.data, g.hdr, <<>>)
    BY <2>1, <1>3, AreaFields DEF WrittenIn, Area
  <2>4. Cut \/ CutAt(a, Area(g.data, g.hdr, <<>>)) \/ Becomes(a, g, k)
    BY <2>2, <2>3, <1>10, <1>3, WriteStep
  <2> QED BY <2>4
<1> QED BY <1>7, <1>8, <1>9, <1>10 DEF Storing

-----------------------------------------------------------------------------
(***************************************************************************)
(* Facts the points share.                                                 *)
(***************************************************************************)
LEMMA ContIs ==
    /\ Cont("try") = I2 /\ Cont("unready") = I3 /\ Cont("done") = I4 /\ Cont("tail") = I5
    /\ Cont("restart") = I6 /\ Cont("hook") = I7 /\ Cont("again") = Do(Fn("Refresh"), I3)
    /\ \A t \in Targets : Cont(t) = AppendK(t)
    /\ \A c \in ReclaimConts : c \notin Targets => c \in {"try", "unready", "again", "restart", "hook"}
    /\ Targets \subseteq ReclaimConts
    /\ {"try", "unready", "again", "restart", "hook"} \subseteq ReclaimConts \ Targets
<1>1. /\ Cont("try") = I2 /\ Cont("unready") = I3 /\ Cont("done") = I4 /\ Cont("tail") = I5
      /\ Cont("restart") = I6 /\ Cont("hook") = I7 /\ Cont("again") = Do(Fn("Refresh"), I3)
  BY DEF Cont
<1>2. Cont("working") = AppendK("working") /\ Cont("other") = AppendK("other")
  BY DEF Cont
<1> QED BY <1>1, <1>2 DEF Targets, ReclaimConts

\* A log without room.
LEMMA FullShape ==
    ASSUME Types, NEW log, GoodLog(log)
    PROVE  /\ Full(log) => /\ FtwGetLastWriteRecord(log) = {} /\ log # <<>> /\ ~TornTail(log)
                           /\ Len(log) = part.cap
           /\ ~Full(log) /\ FtwGetLastWriteRecord(log) = {} /\ ~TornTail(log) => Len(log) < part.cap
<1>1. part.cap \in Nat /\ part.cap > 0
  BY PartsAssumption DEF Types
<1>2. WellLogged(log) /\ Len(log) <= part.cap
  BY DEF GoodLog
<1>3. Len(log) \in Nat
  BY <1>2, LogShape
<1>4. CASE Open(log)
  BY <1>1, <1>2, <1>3, <1>4, LogShape DEF Full
<1>5. CASE ~Open(log)
  <2>1. FtwGetLastWriteHeader(log) = Len(log) + 1 /\ FtwGetLastWriteRecord(log) = {}
    BY <1>2, <1>5, LogShape
  <2>2. FtwGetLastWriteHeader(log) > part.cap <=> Len(log) = part.cap
    BY <2>1, <1>1, <1>2, <1>3
  <2>3. Len(log) # part.cap => Len(log) < part.cap
    BY <1>1, <1>2, <1>3
  <2>4. Len(log) = part.cap => log # <<>>
    BY <1>1
  <2> QED BY <2>1, <2>2, <2>3, <2>4 DEF Full
<1> QED BY <1>4, <1>5

\* The last write and the working block's log.
LEMMA LastShape ==
    ASSUME Types, FlashOK
    PROVE  /\ Last # {} => /\ Open(Work.log) /\ "alloc" \in Last
                           /\ FtwGetLastWriteHeader(Work.log) = Len(Work.log)
                           /\ ~Full(Work.log)
                           /\ Last = Work.log[Len(Work.log)]
           /\ Full(Work.log) => Last = {} /\ "sig" \in Work.hdr
           /\ TornTail(Work.log) => "spare" \notin Last
           /\ Last = Lst(Work)
           /\ Len(Work.log) \in Nat
<1>1. GoodLog(Work.log) /\ WellLogged(Work.log) /\ Last = Lst(Work)
  BY FlashFacts DEF AreaOK
<1>2. Last = FtwGetLastWriteRecord(Work.log)
  BY <1>1 DEF Lst
<1>3. Full(Work.log) => Last = {} /\ Work.log # <<>>
  BY <1>1, <1>2, FullShape
<1>4. Full(Work.log) => "sig" \in Work.hdr
  BY <1>3 DEF FlashOK, AllFit
<1>5. Last # {} => Open(Work.log)
  BY <1>1, <1>2, LogShape
<1>6. Open(Work.log) => /\ "alloc" \in Last
                        /\ FtwGetLastWriteHeader(Work.log) = Len(Work.log)
                        /\ Last = Work.log[Len(Work.log)]
                        /\ Len(Work.log) \in 1 .. Len(Work.log)
  BY <1>1, <1>2, LogShape
<1>7. TornTail(Work.log) => "spare" \notin Last
  <2> SUFFICES ASSUME TornTail(Work.log), "spare" \in Last PROVE FALSE
    OBVIOUS
  <2>1. Last = Work.log[Len(Work.log)] /\ Len(Work.log) \in 1 .. Len(Work.log)
    BY <1>5, <1>6
  <2>2. "torn" \in Work.log[Len(Work.log)]
    BY <1>1, LogShape
  <2> QED BY <2>1, <2>2, <1>1 DEF WellLogged
<1>8. Len(Work.log) \in Nat
  BY <1>1, LogShape
<1> QED BY <1>1, <1>3, <1>4, <1>5, <1>6, <1>7, <1>8

\* What does not depend on the flash.
LEMMA Kept ==
    ASSUME UNCHANGED <<part, writes>>
    PROVE  /\ Image' = Image
           /\ \A a, k : EraseOf(a, k)' = EraseOf(a, k)
           /\ \A a, g, k : StoreOf(a, g, k)' = StoreOf(a, g, k)
           /\ \A old, c : /\ RcBack(old, c)' = RcBack(old, c) /\ RcFlush(old, c)' = RcFlush(old, c)
                          /\ RcInval(old, c)' = RcInval(old, c) /\ RcMark(old, c)' = RcMark(old, c)
           /\ \A g, k : FlStore(g, k)' = FlStore(g, k) /\ FlInval(g, k)' = FlInval(g, k)
           /\ \A g, k : FlMark(g, k)' = FlMark(g, k)
           /\ power' = power => \A old : WrEnd(old)' = WrEnd(old)
           /\ \A log : Full(log)' <=> Full(log)
           /\ \A x : AreaOK(x)' <=> AreaOK(x)
<1>1. part' = part /\ writes' = writes
  OBVIOUS
<1>2. Image' = Image
  BY <1>1 DEF Image, ImageOK, AreaOK, GoodLog, Lst
<1>3. \A a, k : EraseOf(a, k)' = EraseOf(a, k)
  BY <1>1 DEF EraseOf
<1>4. \A a, g, k : StoreOf(a, g, k)' = StoreOf(a, g, k)
  BY <1>1, <1>3 DEF StoreOf, EraseOf
<1>5. \A old, c : RcBack(old, c)' = RcBack(old, c)
  BY <1>4 DEF RcBack
<1>6. \A old, c : RcFlush(old, c)' = RcFlush(old, c)
  BY <1>5 DEF RcFlush
<1>7. \A old, c : RcInval(old, c)' = RcInval(old, c)
  BY <1>6 DEF RcInval
<1>8. \A old, c : RcMark(old, c)' = RcMark(old, c)
  BY <1>7 DEF RcMark
<1>9. \A g, k : FlStore(g, k)' = FlStore(g, k)
  BY <1>4 DEF FlStore
<1>10. \A g, k : FlInval(g, k)' = FlInval(g, k)
  BY <1>9 DEF FlInval
<1>11. \A g, k : FlMark(g, k)' = FlMark(g, k)
  BY <1>10 DEF FlMark
<1>12. power' = power => \A old : WrEnd(old)' = WrEnd(old)
  BY <1>3, <1>4 DEF WrEnd
<1>13. \A log : Full(log)' <=> Full(log)
  BY <1>1 DEF Full
<1>14. \A x : AreaOK(x)' <=> AreaOK(x)
  BY <1>1 DEF AreaOK, GoodLog
<1> QED BY <1>2, <1>3, <1>4, <1>5, <1>6, <1>7, <1>8, <1>9, <1>10, <1>11, <1>12, <1>13, <1>14

\* The state after a step that does not touch the flash.
LEMMA GoesSame ==
    ASSUME NEW k, Goes(k), Types, FlashOK
    PROVE  /\ Types' /\ FlashOK' /\ UNCHANGED <<part, power, asked, writes>>
           /\ todo' = k /\ Work' = Work /\ Spare' = Spare /\ Other' = Other
           /\ Last' = Last /\ Image' = Image
           /\ Full(Work.log)' <=> Full(Work.log)
           /\ Committed' <=> Committed
           /\ Clean' <=> Clean
           /\ \A c, d : Keeps(c, d)' <=> Keeps(c, d)
           /\ \A a \in Areas : flash[a]' = flash[a]
           /\ AskedAll' <=> AskedAll
<1>1. /\ Types' /\ FlashOK' /\ UNCHANGED <<part, flash, power, asked, writes, cuts>>
      /\ todo' = k /\ Work' = Work /\ Spare' = Spare /\ Other' = Other
  BY GoesOn
<1>3. Last' = Last
  BY <1>1 DEF Last
<1>4. (Committed' <=> Committed) /\ (Clean' <=> Clean)
  BY <1>1 DEF Committed, Clean
<1>5. \A c, d : Keeps(c, d)' <=> Keeps(c, d)
  BY <1>1 DEF Keeps, AskedBut
<1>6. AskedAll' <=> AskedAll
  BY <1>1 DEF AskedAll
<1>7. \A a \in Areas : flash[a]' = flash[a]
  BY <1>1
<1>8. Full(Work.log)' <=> Full(Work.log)
  BY <1>1 DEF Full
<1>9. Image' = Image
  BY <1>1, Kept
<1> QED BY <1>1, <1>3, <1>4, <1>5, <1>6, <1>7, <1>8, <1>9

-----------------------------------------------------------------------------
(***************************************************************************)
(* The points, one lemma each: a step from there leads to a point.         *)
(***************************************************************************)
\* A step that does not touch the flash keeps the invariant if it leads to a point.
LEMMA GoesInv ==
    ASSUME NEW k, Goes(k), FtwInv, Point'
    PROVE  FtwInv'
  BY GoesSame DEF FtwInv

\* WorkSpaceRefresh() at the start of InitFtwProtocol()
LEMMA PointI1 ==
    ASSUME FtwInv, Next, power = "boot", AtI1
    PROVE  FtwInv'
<1>1. Types /\ FlashOK /\ power # "off"
  BY DEF FtwInv
<1>2. IsTodo(I2) /\ todo = Do(Fn("Refresh"), I2)
  BY ContTodos DEF AtI1, I1
<1>3. Cut \/ Goes(IF Full(Work.log) THEN Do(Fn("Reclaim"), I2) ELSE I2)
  BY <1>1, <1>2, RefreshStep
<1>4. CASE Cut
  BY <1>4, CutInv
<1>5. CASE Full(Work.log) /\ Goes(Do(Fn("Reclaim"), I2))
  <2>1. Last = {}
    BY <1>1, <1>5, LastShape
  <2>2. /\ Last' = Last /\ power' = power /\ todo' = Do(Fn("Reclaim"), I2)
        /\ Full(Work.log)'
    BY <1>1, <1>5, GoesSame
  <2>3. Reclaimable'
    BY <2>1, <2>2 DEF Reclaimable
  <2>4. "try" \in ReclaimConts /\ "try" \notin Targets /\ Cont("try") = I2
    BY ContIs
  <2>5. Keeps("try", Work.data)'
    BY <2>2, <2>4 DEF Keeps
  <2>6. ReclaimAt("try")'
    BY <2>2, <2>3, <2>4, <2>5 DEF ReclaimAt
  <2> QED BY <2>4, <2>6, <1>5, GoesInv DEF Point
<1>6. CASE ~Full(Work.log) /\ Goes(I2)
  <2>1. power' = power /\ todo' = I2 /\ ~Full(Work.log)'
    BY <1>1, <1>6, GoesSame
  <2>2. Booting'
    BY <2>1 DEF Booting, AtI2
  <2> QED BY <2>2, <1>6, GoesInv DEF Point
<1> QED BY <1>3, <1>4, <1>5, <1>6

\* TrySpareBlock
LEMMA PointI2 ==
    ASSUME FtwInv, Next, power = "boot", AtI2
    PROVE  FtwInv'
<1> DEFINE kf == Do(Fn("Abort"), Cont("again"))
<1>1. Types /\ FlashOK /\ power # "off" /\ ~Full(Work.log)
  BY DEF FtwInv, AtI2
<1>2. IsTodo(I3) /\ todo = Do(Fn("TrySpare"), I3)
  BY ContTodos DEF AtI2, I2
<1>3. Cont("again") = Do(Fn("Refresh"), I3)
  BY ContIs
<1>4. Cut \/ Goes(IF Valid(Work) THEN I3 ELSE IF Valid(Spare) THEN Do(Fn("FlushToWorking"), kf)
                   ELSE Do(Fn("ReclaimNew"), I3))
  BY <1>1, <1>2, <1>3, TrySpareStep
<1> HIDE DEF kf
<1>5. CASE Cut
  BY <1>5, CutInv
<1>6. CASE Valid(Work) /\ Goes(I3)
  <2>1. power' = power /\ todo' = I3 /\ Work' = Work
    BY <1>1, <1>6, GoesSame
  <2>2. Booting'
    BY <2>1, <1>6 DEF Booting, AtI3
  <2> QED BY <2>2, <1>6, GoesInv DEF Point
<1>7. CASE ~Valid(Work) /\ Valid(Spare) /\ Goes(Do(Fn("FlushToWorking"), kf))
  <2>1. /\ power' = power /\ todo' = Do(Fn("FlushToWorking"), kf) /\ Work' = Work
        /\ Spare' = Spare /\ ~Full(Work.log)'
    BY <1>1, <1>7, GoesSame
  <2>2. FlushesFound(kf)'
    BY <2>1 DEF FlushesFound, kf
  <2>3. Flushes(kf)' /\ Mirrored'
    BY <2>1, <2>2, <1>7 DEF Flushes, Mirrored
  <2>4. FlushBegins(kf)'
    BY <2>1, <2>3 DEF FlushBegins
  <2> QED BY <2>4, <1>7, GoesInv DEF Point
<1>8. CASE ~Valid(Work) /\ ~Valid(Spare) /\ Goes(Do(Fn("ReclaimNew"), I3))
  <2>1. /\ power' = power /\ todo' = Do(Fn("ReclaimNew"), I3) /\ Work' = Work
        /\ Spare' = Spare /\ ~Full(Work.log)'
    BY <1>1, <1>8, GoesSame
  <2>2. NewAt'
    BY <2>1, <1>8 DEF NewAt, Unusable
  <2> QED BY <2>2, <1>8, GoesInv DEF Point
<1> QED BY <1>4, <1>5, <1>6, <1>7, <1>8

\* AbortUnready
LEMMA PointI3 ==
    ASSUME FtwInv, Next, power = "boot", AtI3
    PROVE  FtwInv'
<1>1. Types /\ FlashOK /\ power # "off" /\ Valid(Work)
  BY DEF FtwInv, AtI3
<1>2. IsTodo(I4) /\ todo = Do(Fn("AbortUnready"), I4) /\ Cont("done") = I4
  BY ContTodos, ContIs DEF AtI3, I3
<1>3. Cut \/ Goes(IF "alloc" \in Last /\ "spare" \notin Last THEN Do(Fn("Abort"), I4) ELSE I4)
  BY <1>1, <1>2, UnreadyStep
<1>4. Last # {} => "alloc" \in Last
  BY <1>1, LastShape
<1>5. Last = Lst(Work)
  BY <1>1, LastShape
<1>6. CASE Cut
  BY <1>6, CutInv
<1>7. CASE "alloc" \in Last /\ "spare" \notin Last /\ Goes(Do(Fn("Abort"), I4))
  <2>1. /\ power' = power /\ todo' = Do(Fn("Abort"), I4) /\ Work' = Work /\ Last' = Last
        /\ Committed' <=> Committed
    BY <1>1, <1>7, GoesSame
  <2>2. ~Committed
    BY <1>5, <1>7 DEF Committed, CommittedIn
  <2>3. AbortFits("done")'
    BY <2>1, <2>2, <1>1, <1>7 DEF AbortFits
  <2>4. Aborting("done")'
    BY <2>1, <2>3, <1>2 DEF Aborting
  <2>5. "done" \in AbortConts
    BY DEF AbortConts
  <2> QED BY <2>4, <2>5, <1>7, GoesInv DEF Point
<1>8. CASE ~("alloc" \in Last /\ "spare" \notin Last) /\ Goes(I4)
  <2>1. power' = power /\ todo' = I4 /\ Work' = Work /\ Last' = Last
    BY <1>1, <1>8, GoesSame
  <2>2. Booting'
    BY <2>1, <1>1, <1>4, <1>8 DEF Booting, AtI4
  <2> QED BY <2>2, <1>8, GoesInv DEF Point
<1> QED BY <1>3, <1>6, <1>7, <1>8

\* AbortDone
LEMMA PointI4 ==
    ASSUME FtwInv, Next, power = "boot", AtI4
    PROVE  FtwInv'
<1>1. Types /\ FlashOK /\ power # "off" /\ Valid(Work) /\ (Last = {} \/ "spare" \in Last)
  BY DEF FtwInv, AtI4
<1>2. IsTodo(I5) /\ todo = Do(Fn("AbortDone"), I5) /\ Cont("tail") = I5
  BY ContTodos, ContIs DEF AtI4, I4
<1>3. Cut \/ Goes(IF "dest" \in Last THEN Do(Fn("Abort"), I5) ELSE I5)
  BY <1>1, <1>2, DoneStep
<1>5. Last = Lst(Work)
  BY <1>1, LastShape
<1>6. CASE Cut
  BY <1>6, CutInv
<1>7. CASE "dest" \in Last /\ Goes(Do(Fn("Abort"), I5))
  <2>1. /\ power' = power /\ todo' = Do(Fn("Abort"), I5) /\ Work' = Work /\ Last' = Last
        /\ Committed' <=> Committed
    BY <1>1, <1>7, GoesSame
  <2>2. ~Committed
    BY <1>5, <1>7 DEF Committed, CommittedIn
  <2>3. AbortFits("tail")'
    BY <2>1, <2>2, <1>1, <1>7 DEF AbortFits
  <2>4. Aborting("tail")'
    BY <2>1, <2>3, <1>2 DEF Aborting
  <2>5. "tail" \in AbortConts
    BY DEF AbortConts
  <2> QED BY <2>4, <2>5, <1>7, GoesInv DEF Point
<1>8. CASE "dest" \notin Last /\ Goes(I5)
  <2>1. /\ power' = power /\ todo' = I5 /\ Work' = Work /\ Last' = Last
        /\ Committed' <=> Committed
    BY <1>1, <1>8, GoesSame
  <2>2. Last = {} \/ Committed
    BY <1>1, <1>5, <1>8 DEF Committed, CommittedIn
  <2>3. Booting'
    BY <2>1, <2>2, <1>1 DEF Booting, AtI5
  <2> QED BY <2>3, <1>8, GoesInv DEF Point
<1> QED BY <1>3, <1>6, <1>7, <1>8

\* CheckTail
LEMMA PointI5 ==
    ASSUME FtwInv, Next, power = "boot", AtI5
    PROVE  FtwInv'
<1>1. Types /\ FlashOK /\ power # "off" /\ Valid(Work) /\ (Last = {} \/ Committed)
  BY DEF FtwInv, AtI5
<1>2. IsTodo(I6) /\ todo = Do(Fn("CheckTail"), I6) /\ Cont("restart") = I6
  BY ContTodos, ContIs DEF AtI5, I5
<1>3. Cut \/ Goes(IF TornTail(Work.log) THEN Do(Fn("Reclaim"), I6) ELSE I6)
  BY <1>1, <1>2, TailStep
<1>6. CASE Cut
  BY <1>6, CutInv
<1>7. CASE TornTail(Work.log) /\ Goes(Do(Fn("Reclaim"), I6))
  <2>1. /\ power' = power /\ todo' = Do(Fn("Reclaim"), I6) /\ Work' = Work /\ Last' = Last
    BY <1>1, <1>7, GoesSame
  <2>2. Last = {}
    BY <1>1, <1>7, LastShape DEF Committed, CommittedIn
  <2>3. Reclaimable'
    BY <2>1, <2>2, <1>1 DEF Reclaimable
  <2>4. "restart" \in ReclaimConts /\ "restart" \notin Targets
    BY ContIs
  <2>5. Keeps("restart", Work.data)'
    BY <2>1, <2>4 DEF Keeps
  <2>6. ReclaimAt("restart")'
    BY <2>1, <2>3, <2>5, <1>2 DEF ReclaimAt
  <2> QED BY <2>4, <2>6, <1>7, GoesInv DEF Point
<1>8. CASE ~TornTail(Work.log) /\ Goes(I6)
  <2>1. /\ power' = power /\ todo' = I6 /\ Work' = Work /\ Last' = Last
        /\ Committed' <=> Committed
    BY <1>1, <1>8, GoesSame
  <2>2. Booting'
    BY <2>1, <1>1, <1>8 DEF Booting, AtI6
  <2> QED BY <2>2, <1>8, GoesInv DEF Point
<1> QED BY <1>3, <1>6, <1>7, <1>8

\* RestartLast
LEMMA PointI6 ==
    ASSUME FtwInv, Next, power = "boot", AtI6
    PROVE  FtwInv'
<1>1. /\ Types /\ FlashOK /\ power # "off" /\ Valid(Work) /\ (Last = {} \/ Committed)
      /\ ~TornTail(Work.log) /\ Last = Lst(Work)
  BY LastShape DEF FtwInv, AtI6
<1>2. IsTodo(I7) /\ todo = Do(Fn("RestartLast"), I7)
  BY ContTodos DEF AtI6, I6
<1>3. Cut \/ Goes(IF "spare" \in Last THEN Do(Fn("Restart"), AbortHook) ELSE I7)
  BY <1>1, <1>2, LastStep DEF AbortHook
<1>6. CASE Cut
  BY <1>6, CutInv
<1>7. CASE "spare" \in Last /\ Goes(Do(Fn("Restart"), AbortHook))
  <2>1. /\ power' = power /\ todo' = Do(Fn("Restart"), AbortHook) /\ Work' = Work
        /\ Committed' <=> Committed
    BY <1>1, <1>7, GoesSame
  <2>2. Restarting'
    BY <2>1, <1>1, <1>7 DEF Restarting, Record
  <2> QED BY <2>2, <1>7, GoesInv DEF Point
<1>8. CASE "spare" \notin Last /\ Goes(I7)
  <2>1. power' = power /\ todo' = I7 /\ (Clean' <=> Clean)
    BY <1>1, <1>8, GoesSame
  <2>2. Clean
    BY <1>1, <1>8 DEF Clean, CleanIn, Committed, CommittedIn
  <2>3. Booting'
    BY <2>1, <2>2 DEF Booting, AtI7
  <2> QED BY <2>3, <1>8, GoesInv DEF Point
<1> QED BY <1>3, <1>6, <1>7, <1>8

\* HookProtocol
LEMMA PointI7 ==
    ASSUME FtwInv, Next, power = "boot", AtI7
    PROVE  FtwInv'
<1>1. Types /\ FlashOK /\ power # "off" /\ Clean
  BY DEF FtwInv, AtI7
<1>2. IsTodo(<<>>) /\ todo = Do(Fn("Hook"), <<>>)
  BY EmptyTodo DEF AtI7, I7
<1>3. CASE Cut
  BY <1>3, CutInv
<1>4. CASE /\ todo' = <<>> /\ power' = "ready"
           /\ asked' = [t \in Targets |-> flash[t].data]
           /\ UNCHANGED <<part, flash, writes, cuts>>
  <2>1. \A t \in Targets : flash[t].data \in Images
    BY <1>1, FlashFacts, Forms DEF Targets, Work, Other
  <2>2. Types'
    BY <1>1, <1>4, <2>1 DEF Types
  <2>3. FlashOK'
    BY <1>1, <1>4 DEF FlashOK, AllFit, AreaOK, ImageOK, GoodLog, Work, Spare, Other
  <2>4. Clean'
    BY <1>1, <1>4 DEF Clean, Work
  <2>5. AskedAll'
    BY <1>4 DEF AskedAll
  <2>6. Resting'
    BY <1>4, <2>4, <2>5 DEF Resting
  <2> QED BY <2>2, <2>3, <2>6 DEF FtwInv, Point
<1> QED BY <1>1, <1>2, <1>3, <1>4, HookStep

\* WorkSpaceRefresh() after the working block came from the spare block
LEMMA PointAgain ==
    ASSUME FtwInv, Next, power = "boot", AtAgain
    PROVE  FtwInv'
<1>1. Types /\ FlashOK /\ power # "off" /\ Valid(Work) /\ Last = {}
  BY DEF FtwInv, AtAgain
<1>2. IsTodo(I3) /\ todo = Do(Fn("Refresh"), I3)
  BY ContTodos DEF AtAgain
<1>3. Cut \/ Goes(IF Full(Work.log) THEN Do(Fn("Reclaim"), I3) ELSE I3)
  BY <1>1, <1>2, RefreshStep
<1>4. CASE Cut
  BY <1>4, CutInv
<1>5. CASE Goes(Do(Fn("Reclaim"), I3))
  <2>2. /\ Last' = Last /\ power' = power /\ todo' = Do(Fn("Reclaim"), I3) /\ Work' = Work
    BY <1>1, <1>5, GoesSame
  <2>3. Reclaimable'
    BY <1>1, <2>2 DEF Reclaimable
  <2>4. "unready" \in ReclaimConts /\ "unready" \notin Targets /\ Cont("unready") = I3
    BY ContIs
  <2>5. Keeps("unready", Work.data)'
    BY <2>2, <2>4 DEF Keeps
  <2>6. ReclaimAt("unready")'
    BY <2>2, <2>3, <2>4, <2>5 DEF ReclaimAt
  <2> QED BY <2>4, <2>6, <1>5, GoesInv DEF Point
<1>6. CASE Goes(I3)
  <2>1. power' = power /\ todo' = I3 /\ Work' = Work
    BY <1>1, <1>6, GoesSame
  <2>2. Booting'
    BY <1>1, <2>1 DEF Booting, AtI3
  <2> QED BY <2>2, <1>6, GoesInv DEF Point
<1> QED BY <1>3, <1>4, <1>5, <1>6

\* FtwAbort() after FtwRestart()
LEMMA PointAbortNone ==
    ASSUME FtwInv, Next, AbortingNone
    PROVE  FtwInv'
<1>1. Types /\ FlashOK /\ power = "boot" /\ power # "off" /\ Clean
  BY DEF FtwInv, AbortingNone
<1>2. IsTodo(I7) /\ Last = {} /\ Valid(Work)
  BY <1>1, ContTodos, LastShape DEF Clean, CleanIn
<1>3. CASE todo = AbortHook
  <2>1. todo = Do(Fn("Abort"), I7)
    BY <1>3 DEF AbortHook
  <2>2. Cut \/ Goes(Do(Fn("Refresh"), IF "alloc" \in Last
                     THEN Do(Rcd("working", FtwGetLastWriteHeader(Work.log), {"complete"}), I7) ELSE I7))
    BY <1>1, <1>2, <2>1, AbortStep
  <2>3. Cut \/ Goes(Do(Fn("Refresh"), I7))
    BY <1>2, <2>2
  <2>4. CASE Cut
    BY <2>4, CutInv
  <2>5. CASE Goes(Do(Fn("Refresh"), I7))
    <3>1. power' = power /\ (Clean' <=> Clean) /\ todo' = Do(Fn("Refresh"), I7)
      BY <1>1, <2>5, GoesSame
    <3>2. AbortingNone'
      BY <1>1, <3>1 DEF AbortingNone
    <3> QED BY <3>2, <2>5, GoesInv DEF Point
  <2> QED BY <2>3, <2>4, <2>5
<1>4. CASE todo = Do(Fn("Refresh"), I7)
  <2>1. Cut \/ Goes(IF Full(Work.log) THEN Do(Fn("Reclaim"), I7) ELSE I7)
    BY <1>1, <1>2, <1>4, RefreshStep
  <2>2. CASE Cut
    BY <2>2, CutInv
  <2>3. CASE Goes(Do(Fn("Reclaim"), I7))
    <3>2. /\ Last' = Last /\ power' = power /\ todo' = Do(Fn("Reclaim"), I7) /\ Work' = Work
      BY <1>1, <2>3, GoesSame
    <3>3. Reclaimable'
      BY <1>2, <3>2 DEF Reclaimable
    <3>4. "hook" \in ReclaimConts /\ "hook" \notin Targets /\ Cont("hook") = I7
      BY ContIs
    <3>5. Keeps("hook", Work.data)'
      BY <1>1, <3>2, <3>4 DEF Keeps
    <3>6. ReclaimAt("hook")'
      BY <3>2, <3>3, <3>4, <3>5 DEF ReclaimAt
    <3> QED BY <3>4, <3>6, <2>3, GoesInv DEF Point
  <2>4. CASE Goes(I7)
    <3>1. power' = power /\ todo' = I7 /\ (Clean' <=> Clean)
      BY <1>1, <2>4, GoesSame
    <3>2. Booting'
      BY <1>1, <3>1 DEF Booting, AtI7
    <3> QED BY <3>2, <2>4, GoesInv DEF Point
  <2> QED BY <2>1, <2>2, <2>3, <2>4
<1> QED BY <1>3, <1>4 DEF AbortingNone

\* More bits in the open entry of an area's log.
LEMMA BitsForm ==
    ASSUME Types, NEW x, AreaOK(x), Lst(x) # {}, NEW B \in SUBSET (EntryBits \ {"torn"}),
           "spare" \in B => ~TornTail(x.log)
    PROVE  LET y == WithBits(x, Len(x.log), B)
           IN  /\ AreaOK(y) /\ y.data = x.data /\ y.hdr = x.hdr
               /\ Len(y.log) = Len(x.log)
               /\ TornTail(y.log) <=> TornTail(x.log)
               /\ "complete" \in B => Lst(y) = {}
               /\ "complete" \notin B => Lst(y) = Lst(x) \cup B
               /\ x.log # <<>>
<1> DEFINE n == Len(x.log)
           m == [x.log EXCEPT ![n] = @ \cup B]
           y == WithBits(x, n, B)
<1>1. /\ WellLogged(x.log) /\ Open(x.log)
      /\ x \in [data : Images, hdr : SUBSET HeaderBits, log : Seq(SUBSET EntryBits)]
      /\ n <= part.cap /\ n <= writes
  BY LogShape DEF AreaOK, GoodLog, AreaContents, Lst
<1>2. /\ WellLogged(m) /\ Len(m) = n
      /\ TornTail(m) <=> TornTail(x.log)
      /\ "complete" \in B => FtwGetLastWriteRecord(m) = {}
      /\ "complete" \notin B => FtwGetLastWriteRecord(m) = FtwGetLastWriteRecord(x.log) \cup B
      /\ n \in DOMAIN x.log
  BY <1>1, LogMark
<1>3. y = [x EXCEPT !.log = m]
  BY <1>1, <1>2 DEF WithBits
<1>4. m \in Seq(SUBSET EntryBits)
  BY <1>2 DEF WellLogged
<1> HIDE DEF m, y
<1>5. /\ y.log = m /\ y.data = x.data /\ y.hdr = x.hdr /\ y \in AreaContents
  BY <1>1, <1>3, <1>4 DEF AreaContents
<1>6. AreaOK(y)
  BY <1>1, <1>2, <1>5 DEF AreaOK, GoodLog
<1>7. x.log # <<>>
  BY <1>1, LogEmpty
<1> QED BY <1>2, <1>5, <1>6, <1>7 DEF y, Lst

\* A mark in the last record, other than its completion.
LEMMA BitsSet ==
    ASSUME Types, NEW x, AreaOK(x), Lst(x) # {}, NEW n, n = Len(x.log),
           NEW B \in SUBSET (EntryBits \ {"torn"}), ~TornTail(x.log), "complete" \notin B
    PROVE  /\ AreaOK(WithBits(x, n, B)) /\ Lst(WithBits(x, n, B)) = Lst(x) \cup B
           /\ WithBits(x, n, B).data = x.data /\ WithBits(x, n, B).hdr = x.hdr
  BY BitsForm

\* A mark in the working block's log that ends or does not commit the last write.
LEMMA WorkMark ==
    ASSUME Types, FlashOK, Last # {}, NEW B \in SUBSET (EntryBits \ {"torn"}),
           "spare" \in B => ~TornTail(Work.log), NEW k,
           Becomes("working", WithBits(Work, Len(Work.log), B), k),
           Fits(WithBits(Work, Len(Work.log), B), Spare)
    PROVE  /\ Types' /\ FlashOK' /\ UNCHANGED <<part, power, asked, writes>> /\ todo' = k
           /\ Work' = WithBits(Work, Len(Work.log), B)
           /\ Spare' = Spare /\ Other' = Other
           /\ Work'.data = Work.data /\ Work'.hdr = Work.hdr
           /\ Len(Work'.log) = Len(Work.log)
           /\ TornTail(Work'.log) <=> TornTail(Work.log)
           /\ "complete" \in B => Lst(Work') = {}
           /\ "complete" \notin B => Lst(Work') = Last \cup B
           /\ Last' = Lst(Work')
           /\ Image' = Image
<1> DEFINE y == WithBits(Work, Len(Work.log), B)
<1>1. AreaOK(Work) /\ Lst(Work) = Last
  BY FlashFacts
<1>2. /\ AreaOK(y) /\ y.data = Work.data /\ y.hdr = Work.hdr
      /\ Len(y.log) = Len(Work.log)
      /\ TornTail(y.log) <=> TornTail(Work.log)
      /\ "complete" \in B => Lst(y) = {}
      /\ "complete" \notin B => Lst(y) = Lst(Work) \cup B
      /\ Work.log # <<>>
  BY <1>1, BitsForm
<1>3. Becomes("working", y, k) /\ Fits(y, Spare)
  OBVIOUS
<1> HIDE DEF y
<1>4. "sig" \in y.hdr
  BY <1>2 DEF FlashOK, AllFit
<1>5. AllFit(After("working", y, "working"), After("working", y, "spare"), After("working", y, "other"))
  BY <1>2, <1>3, <1>4, WorkTo
<1>6. "working" \in Areas
  BY DEF Areas
<1>7. /\ Types' /\ FlashOK' /\ UNCHANGED <<part, power, asked, writes>> /\ todo' = k
      /\ Work' = y /\ Spare' = Spare /\ Other' = Other
  BY <1>3, <1>5, <1>6, AreaBecomes DEF After, Spare, Other
<1>8. Last' = Lst(Work') /\ Image' = Image
  BY <1>7, Kept DEF Last, Lst, Work
<1> QED BY <1>1, <1>2, <1>7, <1>8 DEF y

\* FtwAbort()
LEMMA PointAbort ==
    ASSUME FtwInv, Next, NEW b \in AbortConts, Aborting(b)
    PROVE  FtwInv'
<1>1. /\ Types /\ FlashOK /\ power = "boot" /\ power # "off" /\ Valid(Work) /\ AbortFits(b)
      /\ IsTodo(Cont(b))
  BY ContTodos DEF FtwInv, Aborting, AbortFits
<1>2. Last = Lst(Work)
  BY <1>1, LastShape
<1> DEFINE r == Do(Rcd("working", Len(Work.log), {"complete"}), Cont(b))
<1>3. IsTodo(r) /\ r = AbortMark(b)
  BY <1>1, DoSeq DEF AbortMark
<1>4. ASSUME NEW k, Goes(k) PROVE AbortFits(b)' /\ AbortMark(b)' = AbortMark(b) /\ todo' = k /\ Last' = Last
  <2>1. /\ power' = power /\ Work' = Work /\ Spare' = Spare /\ Last' = Last
        /\ Committed' <=> Committed
        /\ todo' = k
    BY <1>1, <1>4, GoesSame
  <2> QED BY <2>1, <1>1 DEF AbortFits, AbortMark
<1> HIDE DEF r
<1>5. CASE todo = Do(Fn("Abort"), Cont(b))
  <2>1. Cut \/ Goes(Do(Fn("Refresh"), IF "alloc" \in Last
                     THEN Do(Rcd("working", FtwGetLastWriteHeader(Work.log), {"complete"}), Cont(b)) ELSE Cont(b)))
    BY <1>1, <1>5, AbortStep
  <2>2. Last # {} => "alloc" \in Last /\ FtwGetLastWriteHeader(Work.log) = Len(Work.log)
    BY <1>1, LastShape
  <2>3. \/ Cut
        \/ Last # {} /\ Goes(Do(Fn("Refresh"), r))
        \/ Last = {} /\ Goes(Do(Fn("Refresh"), Cont(b)))
    BY <2>1, <2>2 DEF r
  <2>4. CASE Cut
    BY <2>4, CutInv
  <2>5. CASE Last # {} /\ Goes(Do(Fn("Refresh"), r))
    <3>1. Aborting(b)'
      BY <1>3, <1>4, <2>5 DEF Aborting
    <3> QED BY <3>1, <2>5, GoesInv DEF Point
  <2>6. CASE Last = {} /\ Goes(Do(Fn("Refresh"), Cont(b)))
    <3>1. Aborting(b)'
      BY <1>4, <2>6 DEF Aborting
    <3> QED BY <3>1, <2>6, GoesInv DEF Point
  <2> QED BY <2>3, <2>4, <2>5, <2>6
<1>6. CASE Last # {} /\ todo = Do(Fn("Refresh"), r)
  <2>1. Cut \/ Goes(IF Full(Work.log) THEN Do(Fn("Reclaim"), r) ELSE r)
    BY <1>1, <1>3, <1>6, RefreshStep
  <2>2. ~Full(Work.log)
    BY <1>1, <1>6, LastShape
  <2>3. CASE Cut
    BY <2>3, CutInv
  <2>4. CASE Goes(r)
    <3>1. Aborting(b)'
      BY <1>3, <1>4, <1>6, <2>4 DEF Aborting
    <3> QED BY <3>1, <2>4, GoesInv DEF Point
  <2> QED BY <2>1, <2>2, <2>3, <2>4
<1>7. CASE Last # {} /\ todo = r
  <2> DEFINE y == WithBits(Work, Len(Work.log), {"complete"})
             B == {"complete"}
  <2>1. flash["working"] = Work /\ "working" \in Areas
    BY DEF Work, Areas
  <2>2. Cut \/ Becomes("working", y, Cont(b))
    BY <1>1, <1>7, <2>1, RecordStep DEF r
  <2>3. CASE Cut
    BY <2>3, CutInv
  <2>4. CASE Becomes("working", y, Cont(b))
    <3>1. B \in SUBSET (EntryBits \ {"torn"}) /\ "spare" \notin B /\ "complete" \in B
      BY DEF EntryBits
    <3>2. AreaOK(Work)
      BY <1>1, FlashFacts
    <3>3. Lst(y) = {}
      BY <1>1, <1>2, <1>7, <3>1, <3>2, BitsForm
    <3>4. Fits(y, Spare)
      BY <3>3 DEF Fits, CommittedIn
    <3>5. /\ Types' /\ FlashOK' /\ power' = power /\ todo' = Cont(b)
          /\ Work'.hdr = Work.hdr /\ Lst(Work') = {} /\ Last' = Lst(Work')
      BY <1>1, <1>7, <2>4, <3>1, <3>4, WorkMark
    <3>6. Valid(Work)' /\ Last' = {} /\ power' = "boot"
      BY <1>1, <3>5 DEF Valid
    <3>7. b \in {"done", "tail", "again"}
      BY DEF AbortConts
    <3>8. Booting'
      BY <3>5, <3>6, <3>7, ContIs DEF Booting, AtI4, AtI5, AtAgain
    <3> QED BY <3>5, <3>8 DEF FtwInv, Point
  <2> QED BY <2>2, <2>3, <2>4
<1>8. CASE Last = {} /\ todo = Do(Fn("Refresh"), Cont(b))
  <2>0. b = "again"
    BY <1>1, <1>8 DEF AbortFits
  <2>1. Cut \/ Goes(IF Full(Work.log) THEN Do(Fn("Reclaim"), Cont(b)) ELSE Cont(b))
    BY <1>1, <1>8, RefreshStep
  <2>2. CASE Cut
    BY <2>2, CutInv
  <2>3. CASE Goes(Do(Fn("Reclaim"), Cont(b)))
    <3>2. /\ Last' = Last /\ power' = power /\ todo' = Do(Fn("Reclaim"), Cont(b)) /\ Work' = Work
      BY <1>1, <2>3, GoesSame
    <3>3. Reclaimable'
      BY <1>1, <1>8, <3>2 DEF Reclaimable
    <3>4. "again" \in ReclaimConts /\ "again" \notin Targets
      BY ContIs
    <3>5. Keeps("again", Work.data)'
      BY <1>1, <3>2, <3>4 DEF Keeps
    <3>6. ReclaimAt("again")'
      BY <2>0, <3>2, <3>3, <3>4, <3>5 DEF ReclaimAt
    <3> QED BY <3>4, <3>6, <2>3, GoesInv DEF Point
  <2>4. CASE Goes(Cont(b))
    <3>1. power' = power /\ todo' = Do(Fn("Refresh"), I3) /\ Work' = Work /\ Last' = Last
      BY <1>1, <2>0, <2>4, GoesSame, ContIs
    <3>2. Booting'
      BY <1>1, <1>8, <3>1 DEF Booting, AtAgain
    <3> QED BY <3>2, <2>4, GoesInv DEF Point
  <2> QED BY <2>1, <2>2, <2>3, <2>4
<1> QED BY <1>3, <1>5, <1>6, <1>7, <1>8 DEF Aborting

\* FtwReclaimWorkSpace(), before the spare block is erased
LEMMA PointReclaim ==
    ASSUME FtwInv, Next, NEW c \in ReclaimConts, ReclaimAt(c)
    PROVE  FtwInv'
<1>1. Types /\ FlashOK /\ Reclaimable /\ Keeps(c, Work.data) /\ IsTodo(Cont(c))
      /\ todo = Do(Fn("Reclaim"), Cont(c)) /\ power # "off"
  BY ContTodos DEF FtwInv, ReclaimAt, Keeps
<1>2. Preserved(Work.log) = <<>>
  <2>1. FtwGetLastWriteRecord(Work.log) = {}
    BY <1>1 DEF Reclaimable, Last, Work
  <2> QED BY <2>1 DEF Preserved
<1>3. Work.hdr \ {"valid", "invalid"} = {"sig"}
  <2>1. "sig" \in Work.hdr
    BY <1>1, LastShape DEF Reclaimable, Valid
  <2>2. Work.hdr \in SUBSET {"sig", "valid", "invalid"}
    BY <1>1, FlashFacts DEF HeaderBits
  <2> QED BY <2>1, <2>2
<1>4. Cut \/ Goes(StoreOf("spare", Cleaned, RcMark(Spare, c)))
  BY <1>1, <1>2, <1>3, ReclaimStep DEF Cleaned, RcMark, RcInval, RcFlush, RcBack
<1>5. CASE Cut
  BY <1>5, CutInv
<1>6. CASE Goes(StoreOf("spare", Cleaned, RcMark(Spare, c)))
  <2>0. PICK g, old : g = Cleaned /\ old = Spare
    OBVIOUS
  <2>1. /\ todo' = StoreOf("spare", g, RcMark(old, c)) /\ part' = part /\ writes' = writes
        /\ Image' = Image /\ Work' = Work /\ Last' = Last /\ (Full(Work.log)' <=> Full(Work.log))
        /\ Keeps(c, Work.data)'
    <3>1. todo' = StoreOf("spare", g, RcMark(old, c))
      BY <1>6, <2>0 DEF Goes
    <3>2. /\ part' = part /\ writes' = writes /\ power' = power /\ asked' = asked
          /\ Image' = Image /\ Work' = Work /\ Last' = Last /\ (Full(Work.log)' <=> Full(Work.log))
          /\ Other' = Other
      BY <1>1, <1>6, GoesSame
    <3>3. Keeps(c, Work.data)'
      BY <1>1, <3>2 DEF Keeps, AskedBut
    <3> QED BY <3>1, <3>2, <3>3
  <2>2. Reclaimable' /\ Cleaned' = g
    BY <1>1, <2>0, <2>1 DEF Reclaimable, Cleaned
  <2>3. old \in Image'
    BY <1>1, <2>0, <2>1, FlashFacts
  <2>4. StoreOf("spare", g, RcMark(old, c))' = StoreOf("spare", g, RcMark(old, c))
    <3>1. PICK k : k = RcMark(old, c)
      OBVIOUS
    <3>2. RcMark(old, c)' = k /\ StoreOf("spare", g, k)' = StoreOf("spare", g, k)
      BY <2>1, <3>1, Kept
    <3> QED BY <3>1, <3>2
  <2>5. Cleaning(c)'
    BY <2>1, <2>2, <2>3, <2>4 DEF Cleaning, Storing
  <2> QED BY <2>5, <1>6, GoesInv DEF Point
<1> QED BY <1>4, <1>5, <1>6

\* FtwReclaimWorkSpace() of a work space that cannot be used
LEMMA PointNew ==
    ASSUME FtwInv, Next, NewAt
    PROVE  FtwInv'
<1>1. Types /\ FlashOK /\ Unusable /\ power = "boot" /\ power # "off"
      /\ todo = Do(Fn("ReclaimNew"), Cont("unready")) /\ IsTodo(Cont("unready"))
      /\ "unready" \in ReclaimConts /\ "unready" \notin Targets
  BY ContTodos, ContIs DEF FtwInv, NewAt
<1> DEFINE c == "unready"
<1>4. Cut \/ Goes(StoreOf("spare", Cleaned, RcMark(Spare, c)))
  BY <1>1, ReclaimNewStep DEF Cleaned, RcMark, RcInval, RcFlush, RcBack
<1>5. CASE Cut
  BY <1>5, CutInv
<1>6. CASE Goes(StoreOf("spare", Cleaned, RcMark(Spare, c)))
  <2>0. PICK g, old : g = Cleaned /\ old = Spare
    OBVIOUS
  <2>1. todo' = StoreOf("spare", g, RcMark(old, c))
    BY <1>6, <2>0 DEF Goes
  <2>2. /\ part' = part /\ writes' = writes /\ power' = power /\ Spare' = Spare
        /\ Image' = Image /\ Work' = Work /\ (Full(Work.log)' <=> Full(Work.log))
    BY <1>1, <1>6, GoesSame
  <2>3. Unusable' /\ Cleaned' = g /\ Keeps(c, Work.data)'
    BY <1>1, <2>0, <2>2 DEF Unusable, Cleaned, Keeps
  <2>4. old \in Image'
    BY <1>1, <2>0, <2>2, FlashFacts
  <2>5. StoreOf("spare", g, RcMark(old, c))' = StoreOf("spare", g, RcMark(old, c))
    <3>1. PICK k : k = RcMark(old, c)
      OBVIOUS
    <3>2. RcMark(old, c)' = k /\ StoreOf("spare", g, k)' = StoreOf("spare", g, k)
      BY <2>2, <3>1, Kept
    <3> QED BY <3>1, <3>2
  <2>6. Cleaning(c)'
    BY <2>1, <2>3, <2>4, <2>5 DEF Cleaning, Storing
  <2> QED BY <2>6, <1>1, <1>6, GoesInv DEF Point
<1> QED BY <1>4, <1>5, <1>6

\* The state after a step that changes the spare block only.
SpareBecomes(y) ==
    /\ Types' /\ FlashOK' /\ UNCHANGED <<part, power, asked, writes>>
    /\ Work' = Work /\ Spare' = y /\ Other' = Other
    /\ Last' = Last /\ Image' = Image
    /\ Full(Work.log)' <=> Full(Work.log)
    /\ Clean' <=> Clean
    /\ AskedAll' <=> AskedAll
    /\ \A c, d : Keeps(c, d)' <=> Keeps(c, d)

\* A change of the spare block while no write is committed in it, done or cut short.
LEMMA SpareChange ==
    ASSUME Types, FlashOK, ~Committed, NEW y, ImageOK(y), NEW k
    PROVE  /\ Becomes("spare", y, k) => SpareBecomes(y) /\ todo' = k
           /\ CutAt("spare", y) => FtwInv'
<1>1. AllFit(After("spare", y, "working"), After("spare", y, "spare"), After("spare", y, "other"))
  BY SpareTo
<1>2. "spare" \in Areas
  BY DEF Areas
<1>3. CutAt("spare", y) => FtwInv'
  BY <1>1, <1>2, CutAtInv
<1>4. ASSUME Becomes("spare", y, k) PROVE SpareBecomes(y) /\ todo' = k
  <2>1. /\ Types' /\ FlashOK' /\ UNCHANGED <<part, power, asked, writes>> /\ todo' = k
        /\ Work' = Work /\ Spare' = y /\ Other' = Other
    BY <1>1, <1>2, <1>4, AreaBecomes DEF After, Work, Other
  <2>2. Image' = Image /\ (Full(Work.log)' <=> Full(Work.log))
    BY <2>1, Kept DEF Full
  <2>3. Last' = Last
    BY <2>1 DEF Last, Work
  <2>4. Clean' <=> Clean
    BY <2>1 DEF Clean
  <2>5. \A c, d : Keeps(c, d)' <=> Keeps(c, d)
    BY <2>1 DEF Keeps, AskedBut
  <2>6. AskedAll' <=> AskedAll
    BY <2>1 DEF AskedAll, Targets, Work, Other
  <2> QED BY <2>1, <2>2, <2>3, <2>4, <2>5, <2>6 DEF SpareBecomes
<1> QED BY <1>3, <1>4

\* Storing an image in the spare block while no write is committed there.
LEMMA SpareStoring ==
    ASSUME FtwInv, Next, ~Committed, power # "off",
           NEW g, ImageOK(g), NEW k, IsTodo(k), Storing("spare", g, k)
    PROVE  \/ FtwInv'
           \/ SpareBecomes(g) /\ todo' = k
           \/ \E y \in Partial(Spare, g) : SpareBecomes(y) /\ Storing("spare", g, k)'
<1>1. /\ Types /\ FlashOK /\ "spare" \in Areas /\ flash["spare"] = Spare /\ AreaOK(g)
      /\ AreaOK(Spare) /\ ImageOK(Spare)
  BY FlashFacts DEF FtwInv, Areas, Spare, ImageOK
<1>2. \/ Cut
      \/ CutAt("spare", Area(g.data, g.hdr, <<>>))
      \/ Becomes("spare", g, k)
      \/ \E y \in Partial(Spare, g) :
            CutAt("spare", y) \/ (\E t : Becomes("spare", y, t) /\ Storing("spare", g, k)')
  BY <1>1, StoringStep
<1>3. CASE Cut
  BY <1>3, CutInv
<1>4. g.data \in Images /\ g.hdr \in SUBSET HeaderBits /\ Spare.hdr \in SUBSET HeaderBits /\ Lost \in Images
  BY <1>1, Forms
<1>5. CASE CutAt("spare", Area(g.data, g.hdr, <<>>))
  <2>1. ImageOK(Area(g.data, g.hdr, <<>>))
    BY <1>1, <1>4, EmptyForms
  <2> QED BY <1>1, <1>5, <2>1, SpareChange
<1>6. CASE Becomes("spare", g, k)
  BY <1>1, <1>6, SpareChange
<1>7. ASSUME NEW y \in Partial(Spare, g) PROVE ImageOK(y)
  <2>1. ImageOK(Area(Lost, Spare.hdr, Spare.log))
    BY <1>1, <1>4, Forms
  <2>2. ImageOK(Erased) /\ ImageOK(Area(g.data, {}, <<>>))
    BY <1>1, <1>4, EmptyForms
  <2> QED BY <2>1, <2>2, <1>7 DEF Partial
<1>8. ASSUME NEW y \in Partial(Spare, g), CutAt("spare", y) PROVE FtwInv'
  BY <1>1, <1>7, <1>8, SpareChange
<1>9. ASSUME NEW y \in Partial(Spare, g), NEW t, Becomes("spare", y, t) PROVE SpareBecomes(y)
  BY <1>1, <1>7, <1>9, SpareChange
<1> QED BY <1>2, <1>3, <1>5, <1>6, <1>8, <1>9

\* The cleaned working block goes to the spare block
LEMMA PointCleaning ==
    ASSUME FtwInv, Next, NEW c \in ReclaimConts, Cleaning(c)
    PROVE  FtwInv'
<1>1. /\ Types /\ FlashOK /\ Keeps(c, Work.data) /\ power # "off" /\ (Reclaimable \/ Unusable)
      /\ "spare" \in Areas /\ flash["spare"] = Spare /\ AreaOK(Work) /\ AreaOK(Spare)
  BY FlashFacts DEF FtwInv, Cleaning, Keeps, Areas, Spare
<1>2. ~Committed /\ (Valid(Work) => Last = {})
  BY <1>1, LastShape DEF Reclaimable, Unusable, Committed, CommittedIn
<1>3. PICK old \in Image : \/ Storing("spare", Cleaned, RcMark(old, c))
                           \/ todo = RcMark(old, c) /\ Spare = Cleaned
  BY DEF Cleaning
<1>4. PICK g, k : g = Cleaned /\ k = RcMark(old, c)
  OBVIOUS
<1>5. g = Area(Work.data, {"sig"}, <<>>) /\ ImageOK(g)
  <2>1. Work.data \in Images /\ {"sig"} \in SUBSET HeaderBits
    BY <1>1, Forms DEF HeaderBits
  <2> QED BY <1>1, <1>4, <2>1, EmptyForms DEF Cleaned, Area
<1>6. IsTodo(k) /\ IsTodo(RcInval(old, c))
  BY <1>4, RcTodos
<1>7. ASSUME NEW y, SpareBecomes(y)
      PROVE  /\ Cleaned' = g /\ RcMark(old, c)' = k /\ old \in Image' /\ Keeps(c, Work.data)'
             /\ Valid(Work)' => Last' = {}
             /\ Reclaimable => Reclaimable'
             /\ Unusable /\ ~Valid(y) => Unusable'
  <2>1. /\ part' = part /\ writes' = writes /\ Work' = Work /\ Image' = Image /\ Spare' = y
        /\ Last' = Last /\ (Full(Work.log)' <=> Full(Work.log))
        /\ power' = power /\ asked' = asked /\ Other' = Other
    BY <1>7 DEF SpareBecomes
  <2>2. Cleaned' = g
    BY <1>4, <2>1 DEF Cleaned
  <2>3. RcMark(old, c)' = k
    BY <1>4, <2>1, Kept
  <2>4. Keeps(c, Work.data)'
    BY <1>1, <2>1 DEF Keeps, AskedBut
  <2>5. Reclaimable => Reclaimable'
    BY <2>1 DEF Reclaimable
  <2>6. Unusable /\ ~Valid(y) => Unusable'
    BY <2>1 DEF Unusable
  <2>7. Valid(Work)' => Last' = {}
    BY <1>2, <2>1
  <2> QED BY <2>1, <2>2, <2>3, <2>4, <2>5, <2>6, <2>7
<1>8. CASE Storing("spare", g, k)
  <2>1. \/ FtwInv'
        \/ SpareBecomes(g) /\ todo' = k
        \/ \E y \in Partial(Spare, g) : SpareBecomes(y) /\ Storing("spare", g, k)'
    BY <1>1, <1>2, <1>5, <1>6, <1>8, SpareStoring
  <2>2. CASE SpareBecomes(g) /\ todo' = k
    <3>1. ~Valid(g)
      BY <1>5, AreaFields DEF Valid
    <3>2. Spare' = g /\ Types' /\ FlashOK'
      BY <2>2 DEF SpareBecomes
    <3>3. /\ Cleaned' = g /\ RcMark(old, c)' = k /\ old \in Image' /\ Keeps(c, Work.data)'
          /\ Reclaimable' \/ Unusable'
      BY <1>1, <1>7, <2>2, <3>1
    <3>4. Cleaning(c)'
      BY <2>2, <3>2, <3>3 DEF Cleaning
    <3> QED BY <3>2, <3>4 DEF FtwInv, Point
  <2>3. ASSUME NEW y \in Partial(Spare, g), SpareBecomes(y), Storing("spare", g, k)'
        PROVE  FtwInv'
    <3>1. Unusable => ~Valid(y)
      <4>1. ~Valid(Erased) /\ ~Valid(Area(g.data, {}, <<>>))
        BY AreaFields DEF Valid, Erased
      <4>2. Unusable => ~Valid(Area(Lost, Spare.hdr, Spare.log))
        BY AreaFields DEF Valid, Unusable
      <4> QED BY <4>1, <4>2, <2>3 DEF Partial
    <3>2. Types' /\ FlashOK'
      BY <2>3 DEF SpareBecomes
    <3>3. /\ Cleaned' = g /\ RcMark(old, c)' = k /\ old \in Image' /\ Keeps(c, Work.data)'
          /\ Reclaimable' \/ Unusable'
      BY <1>1, <1>7, <2>3, <3>1
    <3>4. Storing("spare", Cleaned, RcMark(old, c))'
      BY <2>3, <3>3 DEF Storing
    <3>5. Cleaning(c)'
      BY <3>3, <3>4 DEF Cleaning
    <3> QED BY <3>2, <3>5 DEF FtwInv, Point
  <2> QED BY <2>1, <2>2, <2>3
<1>9. CASE todo = k /\ Spare = g
  <2> DEFINE y == [Spare EXCEPT !.hdr = @ \cup {"valid"}]
             z == Area(Work.data, {"sig", "valid"}, <<>>)
  <2>1. todo = Do(Hdr("spare", "valid"), RcInval(old, c))
    BY <1>4, <1>9 DEF RcMark
  <2>2. Cut \/ Becomes("spare", y, RcInval(old, c))
    BY <1>1, <1>6, <2>1, HeaderStep
  <2>3. y = z
    <3>1. Spare.hdr = {"sig"} /\ Spare.data = Work.data /\ Spare.log = <<>>
      BY <1>9, <1>5, AreaFields
    <3>2. {"sig"} \cup {"valid"} = {"sig", "valid"}
      OBVIOUS
    <3>3. y = Area(Spare.data, Spare.hdr \cup {"valid"}, Spare.log)
      BY <1>1, Forms
    <3> QED BY <3>1, <3>2, <3>3
  <2>4. ImageOK(z)
    <3>1. Work.data \in Images /\ {"sig", "valid"} \in SUBSET HeaderBits
      BY <1>1, Forms DEF HeaderBits
    <3> QED BY <1>1, <3>1, EmptyForms
  <2> HIDE DEF y, z
  <2>5. CASE Cut
    BY <2>5, CutInv
  <2>6. CASE Becomes("spare", z, RcInval(old, c))
    <3>1. SpareBecomes(z) /\ todo' = RcInval(old, c)
      BY <1>1, <1>2, <2>4, <2>6, SpareChange
    <3>2. /\ Types' /\ FlashOK' /\ Spare' = z /\ part' = part /\ writes' = writes /\ Work' = Work
      BY <3>1 DEF SpareBecomes
    <3>3. /\ old \in Image' /\ Keeps(c, Work.data)'
          /\ Valid(Work)' => Last' = {}
      BY <1>7, <3>1
    <3>4. RcInval(old, c)' = RcInval(old, c)
      BY <3>2, Kept
    <3>5. z = [g EXCEPT !.hdr = {"sig", "valid"}]
      <4>1. AreaOK(g)
        BY <1>5 DEF ImageOK
      <4>2. [g EXCEPT !.hdr = {"sig", "valid"}] = Area(g.data, {"sig", "valid"}, g.log)
        BY <1>1, <4>1, Forms
      <4> QED BY <4>2, <1>5, AreaFields DEF z
    <3>6. Spare' = [Cleaned EXCEPT !.hdr = {"sig", "valid"}]'
      BY <1>7, <3>1, <3>2, <3>5
    <3>7. Marking(c)'
      BY <3>1, <3>3, <3>4, <3>6 DEF Marking
    <3> QED BY <3>2, <3>7 DEF FtwInv, Point
  <2> QED BY <2>2, <2>3, <2>5, <2>6
<1> QED BY <1>3, <1>4, <1>8, <1>9

\* The working block is marked invalid
LEMMA PointMarking ==
    ASSUME FtwInv, Next, NEW c \in ReclaimConts, Marking(c)
    PROVE  FtwInv'
<1>1. /\ Types /\ FlashOK /\ Keeps(c, Work.data) /\ power # "off"
      /\ "working" \in Areas /\ flash["working"] = Work /\ AreaOK(Work) /\ AreaOK(Spare)
  BY FlashFacts DEF FtwInv, Marking, Keeps, Areas, Work
<1>2. PICK old \in Image : todo = RcInval(old, c) /\ Spare = [Cleaned EXCEPT !.hdr = {"sig", "valid"}]
  BY DEF Marking
<1>3. Valid(Spare) /\ Spare.data = Work.data /\ Spare.log = <<>>
  BY <1>2 DEF Cleaned, Valid
<1>4. PICK k : k = RcBack(old, c)
  OBVIOUS
<1>5. IsTodo(RcFlush(old, c)) /\ RcFlush(old, c) = Do(Fn("FlushToWorking"), k)
  BY <1>4, RcTodos DEF RcFlush
<1>6. todo = Do(Hdr("working", "invalid"), RcFlush(old, c))
  BY <1>2 DEF RcInval
<1> DEFINE y == [Work EXCEPT !.hdr = @ \cup {"invalid"}]
<1>7. Cut \/ Becomes("working", y, RcFlush(old, c))
  BY <1>1, <1>5, <1>6, HeaderStep
<1>8. y = Area(Work.data, Work.hdr \cup {"invalid"}, Work.log)
  BY <1>1, Forms
<1> HIDE DEF y
<1>9. /\ y.data = Work.data /\ y.hdr = Work.hdr \cup {"invalid"} /\ y.log = Work.log
      /\ AreaOK(y) /\ ~Valid(y)
  <2>1. Work.data \in Images /\ Work.hdr \cup {"invalid"} \in SUBSET HeaderBits
    BY <1>1, Forms DEF HeaderBits
  <2>2. AreaOK(y)
    BY <1>1, <1>8, <2>1, Forms
  <2>3. y.data = Work.data /\ y.hdr = Work.hdr \cup {"invalid"} /\ y.log = Work.log
    BY <1>8, AreaFields
  <2> QED BY <2>2, <2>3 DEF Valid
<1>10. CASE Cut
  BY <1>10, CutInv
<1>11. CASE Becomes("working", y, RcFlush(old, c))
  <2>1. AllFit(After("working", y, "working"), After("working", y, "spare"), After("working", y, "other"))
    <3>1. Fits(y, Spare) /\ (y.log # <<>> => "sig" \in y.hdr)
      BY <1>1, <1>9 DEF Fits, CommittedIn, FlashOK, AllFit
    <3> QED BY <1>1, <1>9, <3>1, WorkTo
  <2>2. /\ Types' /\ FlashOK' /\ UNCHANGED <<part, power, asked, writes>> /\ todo' = RcFlush(old, c)
        /\ Work' = y /\ Spare' = Spare /\ Other' = Other
    BY <1>1, <1>11, <2>1, AreaBecomes DEF After, Spare, Other
  <2>3. Image' = Image /\ RcBack(old, c)' = k
    BY <1>4, <2>2, Kept
  <2>4. Keeps(c, Spare.data)'
    BY <1>1, <1>3, <2>2 DEF Keeps, AskedBut
  <2>5. FlushesCleaned(k)'
    BY <1>3, <2>2, <2>3, <2>4 DEF FlushesCleaned
  <2>6. Flushes(k)' /\ Mirrored'
    BY <1>3, <1>9, <2>2, <2>5 DEF Flushes, Mirrored
  <2>7. FlushBegins(k)'
    BY <1>5, <2>2, <2>6 DEF FlushBegins
  <2> QED BY <2>2, <2>7 DEF FtwInv, Point
<1> QED BY <1>7, <1>10, <1>11

\* The spare block gets its content back after a reclaim
LEMMA PointPutBack ==
    ASSUME FtwInv, Next, NEW c \in ReclaimConts, PuttingBack(c)
    PROVE  FtwInv'
<1>1. /\ Types /\ FlashOK /\ Keeps(c, Work.data) /\ power # "off" /\ Valid(Work)
      /\ Work.log = <<>> /\ IsTodo(Cont(c)) /\ writes \in Nat
  BY ContTodos DEF FtwInv, PuttingBack, Keeps, Types
<1>2. PICK old \in Image : Storing("spare", old, Cont(c))
  BY DEF PuttingBack
<1>3. ImageOK(old)
  BY DEF Image
<1>4. Last = {} /\ ~TornTail(Work.log) /\ ~Full(Work.log) /\ Lst(Work) = {}
  <2>1. Last = Lst(Work)
    BY <1>1, LastShape
  <2>2. Lst(Work) = {} /\ ~TornTail(Work.log)
    BY <1>1, LogEmpty DEF Lst
  <2>3. ~Full(<<>>)
    <3>1. Lost \in Images /\ {} \in SUBSET HeaderBits
      BY BoundsAssumption DEF Lost, Images
    <3> QED BY <1>1, <3>1, EmptyForms
  <2> QED BY <1>1, <2>1, <2>2, <2>3
<1>5. ~Committed /\ Clean
  BY <1>1, <1>4 DEF Committed, CommittedIn, Clean, CleanIn
<1>6. \/ FtwInv'
      \/ SpareBecomes(old) /\ todo' = Cont(c)
      \/ \E y \in Partial(Spare, old) : SpareBecomes(y) /\ Storing("spare", old, Cont(c))'
  <2>1. PICK k : k = Cont(c)
    OBVIOUS
  <2>2. Storing("spare", old, k) /\ IsTodo(k)
    BY <1>1, <1>2, <2>1
  <2>3. \/ FtwInv'
        \/ SpareBecomes(old) /\ todo' = k
        \/ \E y \in Partial(Spare, old) : SpareBecomes(y) /\ Storing("spare", old, k)'
    BY <1>1, <1>3, <1>5, <2>2, SpareStoring
  <2> QED BY <2>1, <2>3
<1>7. ASSUME NEW y, SpareBecomes(y)
      PROVE  /\ Types' /\ FlashOK' /\ Valid(Work)' /\ Work'.log = <<>> /\ Keeps(c, Work.data)'
             /\ old \in Image' /\ Last' = {} /\ ~Full(Work.log)' /\ Clean' /\ writes' = writes
             /\ power' = power /\ ~TornTail(Work'.log)
  <2>1. /\ Types' /\ FlashOK' /\ UNCHANGED <<part, power, asked, writes>>
        /\ Work' = Work /\ Other' = Other /\ Last' = Last /\ Image' = Image
        /\ (Full(Work.log)' <=> Full(Work.log)) /\ (Clean' <=> Clean)
    BY <1>7 DEF SpareBecomes
  <2>2. Keeps(c, Work.data)'
    BY <1>1, <2>1 DEF Keeps, AskedBut
  <2> QED BY <1>1, <1>4, <1>5, <2>1, <2>2
<1>8. CASE SpareBecomes(old) /\ todo' = Cont(c)
  <2>1. /\ Types' /\ FlashOK' /\ Valid(Work)' /\ Work'.log = <<>> /\ Keeps(c, Work.data)'
        /\ Last' = {} /\ ~Full(Work.log)' /\ Clean' /\ writes' = writes /\ power' = power
        /\ ~TornTail(Work'.log)
    BY <1>7, <1>8
  <2>2. CASE c \in Targets
    <3>1. todo' = AppendK(c)
      BY <1>8, <2>2, ContIs
    <3>2. writes > 0 /\ Len(Work'.log) = 0
      BY <1>1, <2>1, <2>2 DEF Keeps
    <3>3. Allocating(c)'
      BY <1>1, <2>1, <3>1, <3>2 DEF Allocating
    <3> QED BY <2>1, <2>2, <3>3 DEF FtwInv, Point, Writing
  <2>3. CASE c \notin Targets
    <3>1. power' = "boot" /\ c \in {"try", "unready", "again", "restart", "hook"}
      BY <1>1, <2>1, <2>3, ContIs DEF Keeps
    <3>2. todo' \in {I2, I3, Do(Fn("Refresh"), I3), I6, I7}
      BY <1>8, <3>1, ContIs
    <3>3. Booting'
      BY <2>1, <3>1, <3>2 DEF Booting, AtI2, AtI3, AtAgain, AtI6, AtI7
    <3> QED BY <2>1, <3>3 DEF FtwInv, Point
  <2> QED BY <2>2, <2>3
<1>9. ASSUME NEW y \in Partial(Spare, old), SpareBecomes(y), Storing("spare", old, Cont(c))'
      PROVE  FtwInv'
  <2>1. /\ Types' /\ FlashOK' /\ Valid(Work)' /\ Work'.log = <<>> /\ Keeps(c, Work.data)'
        /\ old \in Image'
    BY <1>7, <1>9
  <2>2. PuttingBack(c)'
    BY <1>9, <2>1 DEF PuttingBack
  <2> QED BY <2>1, <2>2 DEF FtwInv, Point
<1> QED BY <1>6, <1>8, <1>9

\* What follows the flush to the working block.
LEMMA FlushTodo ==
    ASSUME NEW k, Flushes(k)
    PROVE  IsTodo(k) /\ power # "off" /\ Valid(Spare)
<1>1. CASE FlushesCleaned(k)
  BY <1>1, RcTodos DEF FlushesCleaned, Keeps, Flushes
<1>2. CASE FlushesFound(k)
  BY <1>2, ContTodos, DoSeq DEF FlushesFound, Flushes
<1>3. CASE FlushesWrite(k)
  BY <1>3, ContTodos, Todos DEF FlushesWrite, Flushes
<1> QED BY <1>1, <1>2, <1>3 DEF Flushes

\* A flush goes on while the spare block and the other volume stay as they are.
LEMMA FlushesSame ==
    ASSUME NEW k, Flushes(k), Spare' = Spare, Other' = Other,
           UNCHANGED <<part, power, asked, writes>>
    PROVE  Flushes(k)'
<1>1. Image' = Image
  BY Kept
<1>2. CASE FlushesCleaned(k)
  <2>1. PICK c \in ReclaimConts, old \in Image : k = RcBack(old, c) /\ Keeps(c, Spare.data)
    BY <1>2 DEF FlushesCleaned
  <2>2. RcBack(old, c)' = k
    BY <2>1, Kept
  <2>3. Keeps(c, Spare.data)'
    BY <2>1 DEF Keeps, AskedBut
  <2>4. FlushesCleaned(k)'
    BY <1>1, <1>2, <2>2, <2>3 DEF FlushesCleaned
  <2> QED BY <2>4 DEF Flushes
<1>3. CASE FlushesFound(k)
  BY <1>3 DEF FlushesFound, Flushes
<1>4. CASE FlushesWrite(k)
  <2>1. PICK old \in Image : k = WrDest(Len(Spare.log), WrEnd(old))
    BY <1>4 DEF FlushesWrite
  <2>2. PICK e : e = WrEnd(old)
    OBVIOUS
  <2>3. WrEnd(old)' = e /\ Len(Spare.log)' = Len(Spare.log)
    BY <2>2, Kept
  <2>4. k = WrDest(Len(Spare.log), WrEnd(old))'
    BY <2>1, <2>2, <2>3 DEF WrDest, WrComplete
  <2>5. FlushesWrite(k)'
    BY <1>1, <1>4, <2>4 DEF FlushesWrite, SpareLast
  <2> QED BY <2>5 DEF Flushes
<1> QED BY <1>2, <1>3, <1>4 DEF Flushes

\* A step that changes the working block only.
WorkBecomes(y) ==
    /\ Types' /\ FlashOK' /\ UNCHANGED <<part, power, asked, writes>>
    /\ Work' = y /\ Spare' = Spare /\ Other' = Other /\ Last' = Lst(y) /\ Image' = Image

\* A change of the working block that fits the spare block, done or cut short.
LEMMA WorkChange ==
    ASSUME Types, FlashOK, NEW y, AreaOK(y), Fits(y, Spare), y.log # <<>> => "sig" \in y.hdr, NEW k
    PROVE  /\ Becomes("working", y, k) => WorkBecomes(y) /\ todo' = k
           /\ CutAt("working", y) => FtwInv'
<1>1. AllFit(After("working", y, "working"), After("working", y, "spare"), After("working", y, "other"))
  BY WorkTo
<1>2. "working" \in Areas
  BY DEF Areas
<1>3. CutAt("working", y) => FtwInv'
  BY <1>1, <1>2, CutAtInv
<1>4. ASSUME Becomes("working", y, k) PROVE WorkBecomes(y) /\ todo' = k
  <2>1. /\ Types' /\ FlashOK' /\ UNCHANGED <<part, power, asked, writes>> /\ todo' = k
        /\ Work' = y /\ Spare' = Spare /\ Other' = Other
    BY <1>1, <1>2, <1>4, AreaBecomes DEF After, Spare, Other
  <2>2. Image' = Image /\ Last' = Lst(y)
    BY <2>1, Kept DEF Last, Lst, Work
  <2> QED BY <2>1, <2>2 DEF WorkBecomes
<1> QED BY <1>3, <1>4

\* FlushSpareBlockToWorkingBlock() up to the invalid mark
LEMMA PointFlushBegins ==
    ASSUME FtwInv, Next, NEW k, FlushBegins(k)
    PROVE  FtwInv'
<1>1. /\ Types /\ FlashOK /\ Flushes(k) /\ Mirrored /\ IsTodo(k) /\ power # "off" /\ Valid(Spare)
      /\ {"working", "spare"} \subseteq Areas /\ flash["working"] = Work /\ flash["spare"] = Spare
      /\ AreaOK(Work) /\ AreaOK(Spare)
  BY FlashFacts, FlushTodo DEF FtwInv, FlushBegins, Areas, Work, Spare
<1>2. PICK g : g = FlImage
  OBVIOUS
<1>3. /\ IsTodo(FlStore(g, k)) /\ IsTodo(FlInval(g, k))
  BY <1>1, Todos
<1>4. ASSUME Work' = Work, Spare' = Spare, Other' = Other, UNCHANGED <<part, power, asked, writes>>,
             todo' = FlMark(g, k) \/ todo' = FlInval(g, k)
      PROVE  FlushBegins(k)'
  <2>1. Flushes(k)'
    BY <1>1, <1>4, FlushesSame
  <2>2. Last' = Last
    BY <1>4 DEF Last, Work
  <2>3. Mirrored'
    BY <1>1, <1>4, <2>2 DEF Mirrored, Committed, Full
  <2>4. FlImage' = g
    BY <1>2, <1>4 DEF FlImage
  <2>5. FlMark(g, k)' = FlMark(g, k) /\ FlInval(g, k)' = FlInval(g, k)
    BY <1>4, Kept
  <2>6. FlMark(FlImage, k)' = FlMark(g, k) /\ FlInval(FlImage, k)' = FlInval(g, k)
    <3>1. FlMark(FlImage, k)' = FlMark(g, k)' /\ FlInval(FlImage, k)' = FlInval(g, k)'
      BY <2>4 DEF FlMark, FlInval, FlStore, StoreOf, EraseOf, WriteOf, Wrt
    <3> QED BY <3>1, <2>5
  <2> QED BY <1>4, <2>1, <2>3, <2>6 DEF FlushBegins
<1>5. CASE todo = Do(Fn("FlushToWorking"), k)
  <2>1. Cut \/ Goes(FlMark(g, k))
    BY <1>1, <1>2, <1>5, FlushStep
  <2>2. CASE Cut
    BY <2>2, CutInv
  <2>3. CASE Goes(FlMark(g, k))
    <3>1. /\ Work' = Work /\ Spare' = Spare /\ Other' = Other /\ UNCHANGED <<part, power, asked, writes>>
          /\ todo' = FlMark(g, k)
      BY <1>1, <2>3, GoesSame
    <3> QED BY <1>4, <3>1, <2>3, GoesInv DEF Point
  <2> QED BY <2>1, <2>2, <2>3
<1>6. CASE todo = FlMark(g, k)
  <2> DEFINE y == [Spare EXCEPT !.hdr = @ \cup {"valid"}]
  <2>1. Cut \/ Becomes("spare", y, FlInval(g, k))
    BY <1>1, <1>3, <1>6, HeaderStep DEF FlMark
  <2>2. y = Spare
    <3>1. y = Area(Spare.data, Spare.hdr \cup {"valid"}, Spare.log) /\ Spare = Area(Spare.data, Spare.hdr, Spare.log)
      BY <1>1, Forms
    <3>2. Spare.hdr \cup {"valid"} = Spare.hdr
      BY <1>1 DEF Valid
    <3> QED BY <3>1, <3>2
  <2>3. CASE Cut
    BY <2>3, CutInv
  <2>4. CASE Becomes("spare", Spare, FlInval(g, k))
    <3>1. Goes(FlInval(g, k))
      BY <1>1, <2>4 DEF Becomes, Goes, Types, Spare
    <3>2. /\ Work' = Work /\ Spare' = Spare /\ Other' = Other /\ UNCHANGED <<part, power, asked, writes>>
          /\ todo' = FlInval(g, k)
      BY <1>1, <3>1, GoesSame
    <3> QED BY <1>4, <3>1, <3>2, GoesInv DEF Point
  <2> QED BY <2>1, <2>2, <2>3, <2>4
<1>7. CASE todo = FlInval(g, k)
  <2> DEFINE y == [Work EXCEPT !.hdr = @ \cup {"invalid"}]
  <2>1. Cut \/ Becomes("working", y, FlStore(g, k))
    BY <1>1, <1>3, <1>7, HeaderStep DEF FlInval
  <2>2. y = Area(Work.data, Work.hdr \cup {"invalid"}, Work.log)
    BY <1>1, Forms
  <2> HIDE DEF y
  <2>3. /\ y.data = Work.data /\ y.hdr = Work.hdr \cup {"invalid"} /\ y.log = Work.log
        /\ AreaOK(y) /\ ~Valid(y)
    <3>1. Work.data \in Images /\ Work.hdr \cup {"invalid"} \in SUBSET HeaderBits
      BY <1>1, Forms DEF HeaderBits
    <3>2. AreaOK(y)
      BY <1>1, <2>2, <3>1, Forms
    <3>3. y.data = Work.data /\ y.hdr = Work.hdr \cup {"invalid"} /\ y.log = Work.log
      BY <2>2, AreaFields
    <3> QED BY <3>2, <3>3 DEF Valid
  <2>4. Fits(y, Spare) /\ (y.log # <<>> => "sig" \in y.hdr)
    BY <1>1, <2>3 DEF Fits, CommittedIn, FlashOK, AllFit
  <2>5. CASE Cut
    BY <2>5, CutInv
  <2>6. CASE Becomes("working", y, FlStore(g, k))
    <3>1. WorkBecomes(y) /\ todo' = FlStore(g, k)
      BY <1>1, <2>3, <2>4, <2>6, WorkChange
    <3>2. /\ Types' /\ FlashOK' /\ Work' = y /\ Spare' = Spare /\ Other' = Other
          /\ UNCHANGED <<part, power, asked, writes>>
      BY <3>1 DEF WorkBecomes
    <3>3. Flushes(k)'
      BY <1>1, <3>2, FlushesSame
    <3>4. ~Valid(Work)' /\ FlImage' = g
      BY <1>2, <2>3, <3>2 DEF FlImage
    <3>5. Full(Work.log)' => Work'.data = Spare'.data
      <4>1. Full(Work.log)' <=> Full(Work.log)
        BY <2>3, <3>2 DEF Full
      <4>2. Full(Work.log) => Last = {}
        BY <1>1, LastShape
      <4>3. Full(Work.log) => ~Valid(Work)
        BY <1>1, <4>2, LastShape DEF Mirrored, Committed, CommittedIn
      <4>4. Full(Work.log) => Work.data = Spare.data
        BY <1>1, <4>3 DEF Mirrored
      <4> QED BY <4>1, <4>4, <2>3, <3>2
    <3>6. StoreOf("working", FlImage, FlValid(k))' = FlStore(g, k)
      <4>1. StoreOf("working", FlImage, FlValid(k))' = StoreOf("working", g, FlValid(k))'
        BY <3>4 DEF StoreOf, EraseOf, WriteOf, Wrt
      <4>2. StoreOf("working", g, FlValid(k))' = FlStore(g, k)
        BY <3>2 DEF FlStore, StoreOf, EraseOf, WriteOf, Wrt, FlValid
      <4> QED BY <4>1, <4>2
    <3>7. Storing("working", FlImage, FlValid(k))'
      BY <3>1, <3>6 DEF Storing
    <3>8. FlushStores(k)'
      BY <3>3, <3>4, <3>5, <3>7 DEF FlushStores
    <3> QED BY <3>2, <3>8 DEF FtwInv, Point
  <2> QED BY <2>1, <2>5, <2>6
<1> QED BY <1>2, <1>5, <1>6, <1>7 DEF FlushBegins

\* The spare block's image.
LEMMA FlImageForm ==
    ASSUME Types, FlashOK
    PROVE  /\ FlImage = Area(Spare.data, {"sig"}, Spare.log) /\ AreaOK(FlImage)
           /\ FlImage.data = Spare.data /\ FlImage.hdr = {"sig"} /\ FlImage.log = Spare.log
           /\ ~Valid(FlImage)
<1>1. AreaOK(Spare)
  BY FlashFacts
<1>2. FlImage = Area(Spare.data, {"sig"}, Spare.log)
  BY <1>1, Forms DEF FlImage
<1>3. Spare.data \in Images /\ {"sig"} \in SUBSET HeaderBits
  BY <1>1, Forms DEF HeaderBits
<1>4. AreaOK(Area(Spare.data, {"sig"}, Spare.log))
  BY <1>1, <1>3, Forms
<1>5. FlImage.data = Spare.data /\ FlImage.hdr = {"sig"} /\ FlImage.log = Spare.log
  BY <1>2, AreaFields
<1> QED BY <1>2, <1>4, <1>5 DEF Valid

\* The working block is erased and written
LEMMA PointFlushStores ==
    ASSUME FtwInv, Next, NEW k, FlushStores(k)
    PROVE  FtwInv'
<1>1. /\ Types /\ FlashOK /\ Flushes(k) /\ IsTodo(k) /\ power # "off" /\ Valid(Spare) /\ ~Valid(Work)
      /\ "working" \in Areas /\ flash["working"] = Work
      /\ AreaOK(Work) /\ AreaOK(Spare)
      /\ (part.sector = "64K" /\ Full(Work.log)) => Work.data = Spare.data
  BY FlashFacts, FlushTodo DEF FtwInv, FlushStores, Areas, Work
<1>2. PICK g : g = FlImage
  OBVIOUS
<1>3. PICK v : v = FlValid(k)
  OBVIOUS
<1>4. IsTodo(v) /\ Storing("working", g, v)
  BY <1>1, <1>2, <1>3, Todos DEF FlushStores
<1>5. /\ AreaOK(g) /\ g.data = Spare.data /\ g.hdr = {"sig"} /\ g.log = Spare.log /\ ~Valid(g)
      /\ g.data \in Images
  BY <1>1, <1>2, FlImageForm, Forms
<1>6. \/ Cut
      \/ CutAt("working", Area(g.data, g.hdr, <<>>))
      \/ Becomes("working", g, v)
      \/ \E y \in Partial(Work, g) :
            CutAt("working", y) \/ (\E t : Becomes("working", y, t) /\ Storing("working", g, v)')
  BY <1>1, <1>4, <1>5, StoringStep
<1>7. CASE Cut
  BY <1>7, CutInv
<1>8. CASE CutAt("working", Area(g.data, g.hdr, <<>>))
  <2> DEFINE y == Area(g.data, g.hdr, <<>>)
  <2>1. y.hdr = {"sig"} /\ y.log = <<>> /\ y.data = g.data
    BY <1>5, AreaFields
  <2>2. AreaOK(y)
    BY <1>1, <1>5, EmptyForms, Forms
  <2> HIDE DEF y
  <2>4. ~Valid(y)
    BY <2>1 DEF Valid
  <2>3. ~Valid(y) /\ Fits(y, Spare)
    BY <2>4 DEF Fits, CommittedIn
  <2> QED BY <1>1, <1>8, <2>1, <2>2, <2>3, WorkChange DEF y
<1>9. CASE Becomes("working", g, v)
  <2>1. Fits(g, Spare) /\ "sig" \in g.hdr
    BY <1>5 DEF Fits, CommittedIn
  <2>2. WorkBecomes(g) /\ todo' = v
    BY <1>1, <1>5, <1>9, <2>1, WorkChange
  <2>3. /\ Types' /\ FlashOK' /\ Work' = g /\ Spare' = Spare /\ Other' = Other
        /\ UNCHANGED <<part, power, asked, writes>>
    BY <2>2 DEF WorkBecomes
  <2>4. Flushes(k)' /\ FlImage' = g
    BY <1>1, <1>2, <2>3, FlushesSame DEF FlImage
  <2>5. FlushEnds(k)'
    BY <1>3, <2>2, <2>3, <2>4 DEF FlushEnds, FlValid
  <2> QED BY <2>3, <2>5 DEF FtwInv, Point
<1>10. ASSUME NEW y \in Partial(Work, g)
       PROVE  /\ AreaOK(y) /\ Fits(y, Spare) /\ (y.log # <<>> => "sig" \in y.hdr) /\ ~Valid(y)
              /\ (part.sector = "64K" /\ Full(y.log)) => y.data = Spare.data
  <2>1. CASE part.sector = "4K" /\ y = Area(Lost, Work.hdr, Work.log)
    <3>1. AreaOK(y)
      BY <1>1, <2>1, Forms
    <3>2. y.hdr = Work.hdr /\ y.log = Work.log
      BY <2>1, AreaFields
    <3>3. ~Valid(y) /\ Fits(y, Spare)
      BY <1>1, <3>2 DEF Valid, Fits, CommittedIn
    <3> QED BY <1>1, <2>1, <3>1, <3>2, <3>3 DEF FlashOK, AllFit
  <2>2. ASSUME NEW d \in Images, y = Area(d, {}, <<>>)
        PROVE  /\ AreaOK(y) /\ Fits(y, Spare) /\ y.log = <<>> /\ ~Valid(y) /\ ~Full(y.log)
    <3>1. AreaOK(y) /\ ~Full(<<>>)
      BY <1>1, <2>2, EmptyForms
    <3>2. y.hdr = {} /\ y.log = <<>>
      BY <2>2, AreaFields
    <3>3. ~Valid(y) /\ Fits(y, Spare)
      BY <3>2 DEF Valid, Fits, CommittedIn
    <3> QED BY <3>1, <3>2, <3>3
  <2>3. CASE y = Erased
    <3>1. y = Area(Lost, {}, <<>>) /\ Lost \in Images
      BY <1>1, <2>3, EmptyForms, Forms
    <3> QED BY <3>1, <2>2
  <2>4. CASE y = Area(g.data, {}, <<>>)
    BY <1>5, <2>2, <2>4
  <2> QED BY <1>10, <2>1, <2>3, <2>4 DEF Partial
<1>11. ASSUME NEW y \in Partial(Work, g), CutAt("working", y) PROVE FtwInv'
  BY <1>1, <1>10, <1>11, WorkChange
<1>12. ASSUME NEW y \in Partial(Work, g), NEW t, Becomes("working", y, t), Storing("working", g, v)'
       PROVE  FtwInv'
  <2>1. WorkBecomes(y)
    BY <1>1, <1>10, <1>12, WorkChange
  <2>3. /\ Types' /\ FlashOK' /\ Work' = y /\ Spare' = Spare /\ Other' = Other
        /\ UNCHANGED <<part, power, asked, writes>>
    BY <2>1 DEF WorkBecomes
  <2>4. Flushes(k)' /\ FlImage' = g
    BY <1>1, <1>2, <2>3, FlushesSame DEF FlImage
  <2>5. Storing("working", FlImage, FlValid(k))'
    BY <1>3, <1>12, <2>4 DEF Storing, StoreOf, EraseOf, WriteOf, Wrt, FlValid
  <2>6. ~Valid(Work)' /\ ((part.sector = "64K" /\ Full(Work.log)) => Work.data = Spare.data)'
    BY <1>10, <1>12, <2>3 DEF Full
  <2>7. FlushStores(k)'
    BY <2>4, <2>5, <2>6 DEF FlushStores
  <2> QED BY <2>3, <2>7 DEF FtwInv, Point
<1> QED BY <1>6, <1>7, <1>8, <1>9, <1>11, <1>12

\* The valid mark: the working block is the spare block's copy
LEMMA PointFlushEnds ==
    ASSUME FtwInv, Next, NEW k, FlushEnds(k)
    PROVE  FtwInv'
<1>1. /\ Types /\ FlashOK /\ Flushes(k) /\ IsTodo(k) /\ power # "off" /\ Valid(Spare)
      /\ "working" \in Areas /\ flash["working"] = Work /\ Work = FlImage
      /\ AreaOK(Work) /\ AreaOK(Spare) /\ ImageOK(Spare) /\ todo = Do(Hdr("working", "valid"), k)
  BY FlashFacts, FlushTodo DEF FtwInv, FlushEnds, Areas, Work, FlValid
<1> DEFINE y == [Work EXCEPT !.hdr = @ \cup {"valid"}]
<1>2. Cut \/ Becomes("working", y, k)
  BY <1>1, HeaderStep
<1>3. y = Spare
  <2>1. y = Area(Work.data, Work.hdr \cup {"valid"}, Work.log) /\ Spare = Area(Spare.data, Spare.hdr, Spare.log)
    BY <1>1, Forms
  <2>2. Work.data = Spare.data /\ Work.hdr = {"sig"} /\ Work.log = Spare.log
    BY <1>1, FlImageForm
  <2>3. {"sig"} \cup {"valid"} = Spare.hdr
    BY <1>1 DEF Valid
  <2> QED BY <2>1, <2>2, <2>3
<1> HIDE DEF y
<1>4. Fits(Spare, Spare) /\ "sig" \in Spare.hdr
  BY <1>1 DEF Fits, CommittedIn, ImageOK, Valid
<1>5. CASE Cut
  BY <1>5, CutInv
<1>6. CASE Becomes("working", Spare, k)
  <2>1. WorkBecomes(Spare) /\ todo' = k
    BY <1>1, <1>4, <1>6, WorkChange
  <2>2. /\ Types' /\ FlashOK' /\ Work' = Spare /\ Spare' = Spare /\ Other' = Other /\ Last' = SpareLast
        /\ UNCHANGED <<part, power, asked, writes>> /\ Image' = Image
    BY <2>1 DEF WorkBecomes, SpareLast
  <2>3. Valid(Work)'
    BY <1>1, <2>2
  <2>4. CASE FlushesCleaned(k)
    <3>1. PICK c \in ReclaimConts, old \in Image : k = RcBack(old, c) /\ Keeps(c, Spare.data)
      BY <2>4 DEF FlushesCleaned
    <3>2. Keeps(c, Work.data)'
      BY <2>2, <3>1 DEF Keeps, AskedBut
    <3>3. k = StoreOf("spare", old, Cont(c))'
      <4>1. k = StoreOf("spare", old, Cont(c))
        BY <3>1 DEF RcBack
      <4> QED BY <2>2, <4>1 DEF StoreOf, EraseOf
    <3>4. Work'.log = <<>>
      BY <2>2, <2>4 DEF FlushesCleaned
    <3>5. PuttingBack(c)'
      BY <2>1, <2>2, <2>3, <3>2, <3>3, <3>4 DEF PuttingBack, Storing
    <3> QED BY <2>2, <3>5 DEF FtwInv, Point
  <2>5. CASE FlushesFound(k)
    <3>1. AbortFits("again")'
      BY <1>1, <2>2, <2>3, <2>5 DEF AbortFits, FlushesFound, ImageOK, SpareLast
    <3>2. Aborting("again")' /\ "again" \in AbortConts
      BY <2>1, <2>5, <3>1 DEF Aborting, FlushesFound, AbortConts
    <3> QED BY <2>2, <3>2 DEF FtwInv, Point
  <2>6. CASE FlushesWrite(k)
    <3>1. Committed'
      BY <2>2, <2>3, <2>6 DEF Committed, CommittedIn, FlushesWrite, SpareLast
    <3>2. Record'
      BY <1>1, <2>2, <3>1 DEF Record, ImageOK
    <3>3. (\A u \in Targets : u \in Last => flash[u].data = Spare.data)'
      <4>1. "other" \notin Last'
        BY <1>1, <2>2 DEF ImageOK, SpareLast
      <4>2. flash'["working"].data = Spare'.data
        BY <2>2 DEF Work
      <4> QED BY <4>1, <4>2 DEF Targets
    <3>4. (power = "ready" => AskedAll)'
      <4>1. flash'["working"] = Spare /\ flash'["other"] = Other
        BY <2>2 DEF Work, Other
      <4>2. power' = "ready" => asked'["working"] = Spare.data /\ asked'["other"] = Other.data
        BY <2>2, <2>6 DEF FlushesWrite
      <4> QED BY <4>1, <4>2 DEF AskedAll, Targets
    <3>5. PICK old \in Image : k = WrDest(Len(Spare.log), WrEnd(old))
      BY <2>6 DEF FlushesWrite
    <3>6. PICK e : e = WrEnd(old)
      OBVIOUS
    <3>7. WrEnd(old)' = e
      BY <2>2, <3>6, Kept
    <3>8. k = WrDest(Len(Work.log), WrEnd(old))'
      BY <2>2, <3>5, <3>6, <3>7 DEF WrDest, WrComplete
    <3>9. DestAt'
      BY <2>1, <2>2, <3>2, <3>3, <3>4, <3>8 DEF DestAt
    <3> QED BY <2>2, <3>9 DEF FtwInv, Point
  <2> QED BY <1>1, <2>4, <2>5, <2>6 DEF Flushes
<1> QED BY <1>2, <1>3, <1>5, <1>6

\* The last write while it is committed.
LEMMA CommittedShape ==
    ASSUME Types, FlashOK, Committed
    PROVE  /\ Last = Lst(Work) /\ Last # {} /\ "spare" \in Last /\ "dest" \notin Last /\ Valid(Work)
           /\ Open(Work.log) /\ FtwGetLastWriteHeader(Work.log) = Len(Work.log) /\ ~Full(Work.log)
           /\ ("working" \in Last) <=> ("other" \notin Last)
           /\ "working" \in Last => /\ Valid(Spare) /\ Len(Spare.log) = Len(Work.log)
                                    /\ "working" \in SpareLast /\ "dest" \notin SpareLast
<1>1. Last = Lst(Work)
  BY FlashFacts
<1>2. "spare" \in Last /\ "dest" \notin Last /\ Valid(Work)
  BY <1>1 DEF Committed, CommittedIn
<1>3. Fits(Work, Spare)
  BY DEF FlashOK, AllFit
<1>4. /\ ("working" \in Last) <=> ("other" \notin Last)
      /\ "working" \in Last => /\ Valid(Spare) /\ Len(Spare.log) = Len(Work.log)
                               /\ "working" \in SpareLast /\ "dest" \notin SpareLast
  BY <1>1, <1>3 DEF Fits, Committed, SpareLast
<1> QED BY <1>1, <1>2, <1>4, LastShape

\* FtwWriteRecord() up to the first mark in the target's way
LEMMA PointRecord ==
    ASSUME FtwInv, Next, RecordAt
    PROVE  FtwInv'
<1>1. /\ Types /\ FlashOK /\ Record /\ Committed /\ ~TornTail(Work.log) /\ power # "off"
      /\ power = "ready" => \A u \in Targets :
            asked[u] = IF u \in Last THEN Spare.data ELSE flash[u].data
      /\ AreaOK(Spare) /\ ImageOK(Spare) /\ AreaOK(Other)
      /\ flash["spare"] = Spare /\ flash["other"] = Other /\ {"spare", "other"} \subseteq Areas
  BY FlashFacts DEF FtwInv, RecordAt, Record, Spare, Other, Areas
<1>2. /\ Last = Lst(Work) /\ Last # {} /\ "spare" \in Last /\ "dest" \notin Last /\ Valid(Work)
      /\ Open(Work.log) /\ FtwGetLastWriteHeader(Work.log) = Len(Work.log) /\ ~Full(Work.log)
      /\ ("working" \in Last) <=> ("other" \notin Last)
      /\ "working" \in Last => /\ Valid(Spare) /\ Len(Spare.log) = Len(Work.log)
                               /\ "working" \in SpareLast /\ "dest" \notin SpareLast
  BY <1>1, CommittedShape
<1>3. PICK old \in Image :
         \/ todo = Do(Fn("WriteRecord"), WrEnd(old))
         \/ "working" \in Last /\ todo = Do(Rcd("spare", Len(Work.log), {"spare"}),
                Do(Fn("FlushToWorking"), WrDest(Len(Work.log), WrEnd(old))))
         \/ "other" \in Last /\ todo = Do(Fn("FlushToTarget"), WrDest(Len(Work.log), WrEnd(old)))
         \/ "other" \in Last /\ Storing("other", [Erased EXCEPT !.data = Spare.data],
                                        WrDest(Len(Work.log), WrEnd(old)))
  BY DEF RecordAt
<1>4. PICK n, e, d : n = Len(Work.log) /\ e = WrEnd(old) /\ d = WrDest(n, e)
  OBVIOUS
<1>5. IsTodo(e) /\ IsTodo(d) /\ IsTodo(Do(Fn("FlushToWorking"), d))
  BY <1>4, ContTodos, Todos, DoSeq
<1>6. ASSUME UNCHANGED <<part, power, asked, writes>>, Work' = Work, Spare' = Spare
      PROVE  /\ Record' /\ Last' = Last /\ old \in Image' /\ WrEnd(old)' = e
             /\ WrDest(Len(Work.log), WrEnd(old))' = d
  <2>1. Last' = Last
    BY <1>6 DEF Last, Work
  <2>2. Record'
    BY <1>1, <1>6 DEF Record, Committed
  <2>3. Image' = Image /\ WrEnd(old)' = e
    BY <1>4, <1>6, Kept
  <2>4. WrDest(Len(Work.log), WrEnd(old))' = d
    BY <1>4, <1>6, <2>3 DEF WrDest, WrComplete
  <2> QED BY <2>1, <2>2, <2>3, <2>4
<1>7. CASE todo = Do(Fn("WriteRecord"), e)
  <2>1. Cut \/ Goes(IF "working" \in Last THEN Do(Rcd("spare", n, {"spare"}), Do(Fn("FlushToWorking"), d))
                                          ELSE Do(Fn("FlushToTarget"), d))
    BY <1>1, <1>2, <1>4, <1>5, <1>7, WriteRecordStep
  <2>2. CASE Cut
    BY <2>2, CutInv
  <2>3. ASSUME NEW k, Goes(k)
        PROVE  /\ todo' = k /\ Record' /\ Last' = Last /\ old \in Image' /\ WrEnd(old)' = e
               /\ WrDest(Len(Work.log), WrEnd(old))' = d /\ Len(Work.log)' = n
               /\ (power = "ready" => \A u \in Targets :
                      asked[u] = IF u \in Last THEN Spare.data ELSE flash[u].data)'
    <3>1. /\ todo' = k /\ Work' = Work /\ Spare' = Spare /\ UNCHANGED <<part, power, asked, writes>>
          /\ Last' = Last /\ flash' = flash
      BY <1>1, <2>3, GoesSame DEF Goes
    <3> QED BY <1>1, <1>4, <1>6, <3>1
  <2>4. CASE "working" \in Last /\ Goes(Do(Rcd("spare", n, {"spare"}), Do(Fn("FlushToWorking"), d)))
    <3>1. RecordAt'
      BY <2>3, <2>4 DEF RecordAt
    <3> QED BY <3>1, <2>4, GoesInv DEF Point
  <2>5. CASE "other" \in Last /\ Goes(Do(Fn("FlushToTarget"), d))
    <3>1. RecordAt'
      BY <2>3, <2>5 DEF RecordAt
    <3> QED BY <3>1, <2>5, GoesInv DEF Point
  <2> QED BY <1>2, <2>1, <2>2, <2>4, <2>5
<1>8. CASE "working" \in Last /\ todo = Do(Rcd("spare", n, {"spare"}), Do(Fn("FlushToWorking"), d))
  <2> DEFINE B == {"spare"}
             y == WithBits(Spare, Len(Spare.log), B)
             k == Do(Fn("FlushToWorking"), d)
  <2>1. Cut \/ Becomes("spare", y, k)
    BY <1>1, <1>2, <1>4, <1>5, <1>8, RecordStep
  <2>2. /\ AreaOK(y) /\ y.data = Spare.data /\ y.hdr = Spare.hdr
        /\ Len(y.log) = Len(Spare.log)
        /\ TornTail(y.log) <=> TornTail(Spare.log)
        /\ Lst(y) = SpareLast \cup {"spare"}
    <3>1. B \in SUBSET (EntryBits \ {"torn"}) /\ "complete" \notin B /\ ~TornTail(Spare.log)
      BY <1>1 DEF EntryBits, ImageOK
    <3>2. Lst(Spare) # {}
      BY <1>2, <1>8 DEF SpareLast
    <3> HIDE DEF B
    <3>3. /\ AreaOK(y) /\ y.data = Spare.data /\ y.hdr = Spare.hdr
          /\ Len(y.log) = Len(Spare.log)
          /\ TornTail(y.log) <=> TornTail(Spare.log)
          /\ Lst(y) = Lst(Spare) \cup B
      BY <1>1, <3>1, <3>2, BitsForm
    <3> QED BY <3>3 DEF SpareLast, B
  <2> HIDE DEF y
  <2>3. ImageOK(y) /\ Valid(y) /\ Fits(Work, y)
    <3>1. "working" \in Lst(y) /\ "dest" \notin Lst(y) /\ "other" \notin Lst(y)
      BY <1>1, <1>2, <1>8, <2>2 DEF ImageOK, SpareLast
    <3>2. ImageOK(y)
      BY <1>1, <2>2, <3>1 DEF ImageOK
    <3>3. Valid(y)
      BY <1>2, <1>8, <2>2 DEF Valid
    <3>4. Fits(Work, y)
      BY <1>2, <1>8, <2>2, <3>1, <3>3 DEF Fits
    <3> QED BY <3>2, <3>3, <3>4
  <2>4. CASE Cut
    BY <2>4, CutInv
  <2>5. CASE Becomes("spare", y, k)
    <3>1. AllFit(After("spare", y, "working"), After("spare", y, "spare"), After("spare", y, "other"))
      BY <1>1, <2>3 DEF After, FlashOK, AllFit, Work, Other
    <3>2. /\ Types' /\ FlashOK' /\ UNCHANGED <<part, power, asked, writes>> /\ todo' = k
          /\ Work' = Work /\ Spare' = y /\ Other' = Other
      BY <1>1, <2>5, <3>1, AreaBecomes DEF After, Work, Other
    <3>3. Image' = Image /\ WrEnd(old)' = e
      BY <1>4, <3>2, Kept
    <3>4. Last' = Last /\ (Committed' <=> Committed)
      BY <3>2 DEF Last, Work, Committed
    <3>5. d = WrDest(Len(Spare.log), WrEnd(old))'
      BY <1>2, <1>4, <1>8, <2>2, <3>2, <3>3 DEF WrDest, WrComplete
    <3>6. SpareLast' = SpareLast \cup {"spare"}
      BY <2>2, <3>2 DEF SpareLast
    <3>7. power' = "ready" => asked'["working"] = Spare'.data /\ asked'["other"] = Other'.data
      BY <1>1, <1>2, <1>8, <2>2, <3>2 DEF Targets
    <3>8. FlushesWrite(d)'
      BY <1>1, <1>2, <1>8, <3>2, <3>3, <3>5, <3>6, <3>7 DEF FlushesWrite
    <3>9. Flushes(d)' /\ Mirrored'
      BY <1>1, <1>2, <1>8, <2>3, <3>2, <3>4, <3>8 DEF Flushes, Mirrored
    <3>10. FlushBegins(d)'
      BY <3>2, <3>9 DEF FlushBegins
    <3> QED BY <3>2, <3>10 DEF FtwInv, Point
  <2> QED BY <2>1, <2>4, <2>5
<1>9. PICK g : g = [Erased EXCEPT !.data = Spare.data]
  OBVIOUS
<1>10. CASE "other" \in Last /\ todo = Do(Fn("FlushToTarget"), d)
  <2>1. Cut \/ Goes(StoreOf("other", g, d))
    BY <1>1, <1>5, <1>9, <1>10, TargetStep
  <2>2. CASE Cut
    BY <2>2, CutInv
  <2>3. CASE Goes(StoreOf("other", g, d))
    <3>1. /\ todo' = StoreOf("other", g, d) /\ Work' = Work /\ Spare' = Spare
          /\ UNCHANGED <<part, power, asked, writes>> /\ Last' = Last /\ flash' = flash
      BY <1>1, <2>3, GoesSame DEF Goes
    <3>2. /\ Record' /\ Last' = Last /\ old \in Image'
          /\ WrDest(Len(Work.log), WrEnd(old))' = d
      BY <1>6, <3>1
    <3>3. [Erased EXCEPT !.data = Spare.data]' = g
      BY <1>9, <3>1
    <3>4. StoreOf("other", g, d)' = StoreOf("other", g, d)
      BY <3>1, Kept
    <3>5. StoreOf("other", [Erased EXCEPT !.data = Spare.data], WrDest(Len(Work.log), WrEnd(old)))'
            = StoreOf("other", g, d)'
      BY <3>2, <3>3 DEF StoreOf, EraseOf, WriteOf, Wrt
    <3>6. (power = "ready" => \A u \in Targets :
             asked[u] = IF u \in Last THEN Spare.data ELSE flash[u].data)'
      BY <1>1, <3>1
    <3>7. Storing("other", [Erased EXCEPT !.data = Spare.data], WrDest(Len(Work.log), WrEnd(old)))'
      BY <3>1, <3>4, <3>5 DEF Storing
    <3>8. RecordAt'
      BY <1>10, <3>2, <3>6, <3>7 DEF RecordAt
    <3> QED BY <3>8, <2>3, GoesInv DEF Point
  <2> QED BY <2>1, <2>2, <2>3
<1>11. CASE "other" \in Last /\ Storing("other", g, d)
  <2>1. /\ AreaOK(g) /\ g.data = Spare.data /\ g.hdr = {} /\ g.log = <<>> /\ g.data \in Images
        /\ AreaOK(Area(g.data, g.hdr, <<>>)) /\ Lost \in Images /\ Other.hdr \in SUBSET HeaderBits
    <3>1. Spare.data \in Images /\ {} \in SUBSET HeaderBits /\ Lost \in Images /\ Other.hdr \in SUBSET HeaderBits
      BY <1>1, Forms
    <3>2. g = Area(Spare.data, {}, <<>>)
      BY <1>1, <1>9, EmptyForms
    <3>3. AreaOK(g)
      BY <1>1, <3>1, <3>2, EmptyForms
    <3> QED BY <3>1, <3>2, <3>3, AreaFields
  <2>2. \/ Cut
        \/ CutAt("other", Area(g.data, g.hdr, <<>>))
        \/ Becomes("other", g, d)
        \/ \E y \in Partial(Other, g) :
             CutAt("other", y) \/ (\E t : Becomes("other", y, t) /\ Storing("other", g, d)')
    BY <1>1, <1>5, <1>11, <2>1, StoringStep
  <2>3. ASSUME NEW y, AreaOK(y), NEW t, Becomes("other", y, t)
        PROVE  /\ Types' /\ FlashOK' /\ UNCHANGED <<part, power, asked, writes>> /\ todo' = t
               /\ Work' = Work /\ Spare' = Spare /\ Other' = y
    <3>1. AllFit(After("other", y, "working"), After("other", y, "spare"), After("other", y, "other"))
      BY <1>1, <2>3, OtherTo
    <3> QED BY <1>1, <2>3, <3>1, AreaBecomes DEF After, Work, Spare
  <2>4. ASSUME NEW y, AreaOK(y), CutAt("other", y) PROVE FtwInv'
    <3>1. AllFit(After("other", y, "working"), After("other", y, "spare"), After("other", y, "other"))
      BY <1>1, <2>4, OtherTo
    <3> QED BY <1>1, <2>4, <3>1, CutAtInv
  <2>5. ASSUME NEW y \in Partial(Other, g) PROVE AreaOK(y)
    <3>1. AreaOK(Area(Lost, Other.hdr, Other.log))
      BY <1>1, <2>1, Forms
    <3>2. AreaOK(Erased) /\ AreaOK(Area(g.data, {}, <<>>))
      BY <1>1, <2>1, EmptyForms DEF ImageOK
    <3> QED BY <2>5, <3>1, <3>2 DEF Partial
  <2>6. CASE Cut
    BY <2>6, CutInv
  <2>7. CASE Becomes("other", g, d)
    <3>1. /\ Types' /\ FlashOK' /\ UNCHANGED <<part, power, asked, writes>> /\ todo' = d
          /\ Work' = Work /\ Spare' = Spare /\ Other' = g
      BY <2>1, <2>3, <2>7
    <3>2. /\ Record' /\ Last' = Last /\ old \in Image'
          /\ WrDest(Len(Work.log), WrEnd(old))' = d
      BY <1>6, <3>1
    <3>3. (\A u \in Targets : u \in Last => flash[u].data = Spare.data)'
      <4>1. "working" \notin Last' /\ flash'["other"].data = Spare'.data
        BY <1>2, <1>11, <2>1, <3>1, <3>2 DEF Other
      <4> QED BY <4>1 DEF Targets
    <3>4. (power = "ready" => AskedAll)'
      <4>1. flash'["working"] = flash["working"] /\ flash'["other"] = g
        BY <3>1 DEF Work, Other
      <4>2. power = "ready" => asked["working"] = flash["working"].data /\ asked["other"] = g.data
        BY <1>1, <1>2, <1>11, <2>1 DEF Targets
      <4> QED BY <3>1, <4>1, <4>2 DEF AskedAll, Targets
    <3>5. DestAt'
      BY <3>1, <3>2, <3>3, <3>4 DEF DestAt
    <3> QED BY <3>1, <3>5 DEF FtwInv, Point
  <2>8. ASSUME NEW y \in Partial(Other, g), NEW t, Becomes("other", y, t), Storing("other", g, d)'
        PROVE  FtwInv'
    <3>1. /\ Types' /\ FlashOK' /\ UNCHANGED <<part, power, asked, writes>> /\ todo' = t
          /\ Work' = Work /\ Spare' = Spare /\ Other' = y
      BY <2>3, <2>5, <2>8
    <3>2. /\ Record' /\ Last' = Last /\ old \in Image'
          /\ WrDest(Len(Work.log), WrEnd(old))' = d
      BY <1>6, <3>1
    <3>3. [Erased EXCEPT !.data = Spare.data]' = g
      BY <1>9, <3>1
    <3>4. Storing("other", [Erased EXCEPT !.data = Spare.data], WrDest(Len(Work.log), WrEnd(old)))'
      BY <2>8, <3>2, <3>3 DEF Storing, StoreOf, EraseOf, WriteOf, Wrt
    <3>5. (power = "ready" => \A u \in Targets :
             asked[u] = IF u \in Last THEN Spare.data ELSE flash[u].data)'
      <4>1. flash'["working"] = flash["working"]
        BY <3>1 DEF Work
      <4>2. power = "ready" => asked["working"] = flash["working"].data /\ asked["other"] = Spare.data
        BY <1>1, <1>2, <1>11 DEF Targets
      <4> QED BY <1>2, <1>11, <3>1, <3>2, <4>1, <4>2 DEF Targets
    <3>6. RecordAt'
      BY <1>11, <3>2, <3>4, <3>5 DEF RecordAt
    <3> QED BY <3>1, <3>6 DEF FtwInv, Point
  <2> QED BY <2>1, <2>2, <2>4, <2>5, <2>6, <2>7, <2>8
<1> QED BY <1>3, <1>4, <1>7, <1>8, <1>9, <1>10, <1>11

\* The record's mark
LEMMA PointDest ==
    ASSUME FtwInv, Next, DestAt
    PROVE  FtwInv'
<1>1. /\ Types /\ FlashOK /\ Committed /\ ~TornTail(Work.log) /\ power # "off"
      /\ power = "ready" => AskedAll
      /\ AreaOK(Work) /\ flash["working"] = Work /\ "working" \in Areas
  BY FlashFacts DEF FtwInv, DestAt, Record, Work, Areas
<1>2. Last = Lst(Work) /\ Last # {} /\ Valid(Work)
  BY <1>1, CommittedShape
<1>3. PICK old \in Image : todo = WrDest(Len(Work.log), WrEnd(old))
  BY DEF DestAt
<1>4. PICK n, e, B : n = Len(Work.log) /\ e = WrEnd(old) /\ B = {"dest"}
  OBVIOUS
<1>5. IsTodo(e) /\ IsTodo(WrComplete(n, e)) /\ todo = Do(Rcd("working", n, B), WrComplete(n, e))
  BY <1>3, <1>4, ContTodos, Todos DEF WrDest
<1> DEFINE y == WithBits(Work, Len(Work.log), B)
<1>6. Cut \/ Becomes("working", y, WrComplete(n, e))
  BY <1>1, <1>4, <1>5, RecordStep
<1>7. CASE Cut
  BY <1>7, CutInv
<1>8. CASE Becomes("working", y, WrComplete(n, e))
  <2>1. B \in SUBSET (EntryBits \ {"torn"}) /\ "spare" \notin B /\ "complete" \notin B /\ "dest" \in B
    BY <1>4 DEF EntryBits
  <2>2. Lst(y) = Last \cup B
    BY <1>1, <1>2, <2>1, BitsForm
  <2>3. Fits(y, Spare)
    BY <2>1, <2>2 DEF Fits, CommittedIn
  <2>4. /\ Types' /\ FlashOK' /\ UNCHANGED <<part, power, asked, writes>> /\ todo' = WrComplete(n, e)
        /\ Spare' = Spare /\ Other' = Other
        /\ Work'.data = Work.data /\ Work'.hdr = Work.hdr
        /\ Len(Work'.log) = Len(Work.log)
        /\ TornTail(Work'.log) <=> TornTail(Work.log)
        /\ Last' = Last \cup B
        /\ Image' = Image
    BY <1>1, <1>2, <1>8, <2>1, <2>3, WorkMark
  <2>5. WrComplete(Len(Work.log), WrEnd(old))' = WrComplete(n, e)
    BY <1>4, <2>4, Kept DEF WrComplete
  <2>6. (power = "ready" => AskedAll)'
    BY <1>1, <2>4 DEF AskedAll, Targets, Work, Other
  <2>7. CompleteAt'
    BY <1>1, <1>2, <2>1, <2>4, <2>5, <2>6 DEF CompleteAt, Valid
  <2> QED BY <2>4, <2>7 DEF FtwInv, Point
<1> QED BY <1>6, <1>7, <1>8

\* The header's mark
LEMMA PointComplete ==
    ASSUME FtwInv, Next, CompleteAt
    PROVE  FtwInv'
<1>1. /\ Types /\ FlashOK /\ ~TornTail(Work.log) /\ power # "off" /\ Valid(Work) /\ "dest" \in Last
      /\ power = "ready" => AskedAll
      /\ AreaOK(Work) /\ flash["working"] = Work /\ "working" \in Areas
  BY FlashFacts DEF FtwInv, CompleteAt, Work, Areas
<1>2. Last = Lst(Work) /\ Last # {}
  BY <1>1, LastShape
<1>3. PICK old \in Image : todo = WrComplete(Len(Work.log), WrEnd(old))
  BY DEF CompleteAt
<1>4. PICK n, e, B : n = Len(Work.log) /\ e = WrEnd(old) /\ B = {"complete"}
  OBVIOUS
<1>5. IsTodo(e) /\ todo = Do(Rcd("working", n, B), e)
  BY <1>3, <1>4, ContTodos DEF WrComplete
<1> DEFINE y == WithBits(Work, Len(Work.log), B)
<1>6. Cut \/ Becomes("working", y, e)
  BY <1>1, <1>4, <1>5, RecordStep
<1>7. CASE Cut
  BY <1>7, CutInv
<1>8. CASE Becomes("working", y, e)
  <2>1. B \in SUBSET (EntryBits \ {"torn"}) /\ "spare" \notin B /\ "complete" \in B
    BY <1>4 DEF EntryBits
  <2>2. Lst(y) = {}
    BY <1>1, <1>2, <2>1, BitsForm
  <2>3. Fits(y, Spare)
    BY <2>2 DEF Fits, CommittedIn
  <2>4. /\ Types' /\ FlashOK' /\ UNCHANGED <<part, power, asked, writes>> /\ todo' = e
        /\ Spare' = Spare /\ Other' = Other
        /\ Work'.data = Work.data /\ Work'.hdr = Work.hdr
        /\ TornTail(Work'.log) <=> TornTail(Work.log)
        /\ Lst(Work') = {}
        /\ Image' = Image
    BY <1>1, <1>2, <1>8, <2>1, <2>3, WorkMark
  <2>5. Clean'
    BY <1>1, <2>4 DEF Clean, CleanIn, Valid
  <2>6. (power = "ready" => AskedAll)'
    BY <1>1, <2>4 DEF AskedAll, Targets, Work, Other
  <2>7. CASE power = "ready"
    <3>1. todo' = StoreOf("spare", old, <<>>)'
      BY <1>4, <2>4, <2>7 DEF WrEnd, StoreOf, EraseOf
    <3>2. Finishing'
      BY <2>4, <2>5, <2>6, <2>7, <3>1 DEF Finishing, Storing
    <3> QED BY <2>4, <3>2 DEF FtwInv, Point
  <2>8. CASE power # "ready"
    <3>1. power = "boot"
      BY <1>1, <2>8 DEF Types
    <3>2. todo' = EraseOf("spare", AbortHook)'
      BY <1>4, <2>4, <2>8 DEF WrEnd, EraseOf
    <3>3. Restarted'
      BY <2>4, <2>5, <3>1, <3>2 DEF Restarted, Erasing
    <3> QED BY <2>4, <3>3 DEF FtwInv, Point
  <2> QED BY <2>7, <2>8
<1> QED BY <1>6, <1>7, <1>8

\* FtwRestart()
LEMMA PointRestarting ==
    ASSUME FtwInv, Next, Restarting
    PROVE  FtwInv'
<1>1. Types /\ FlashOK /\ Record /\ Committed /\ power = "boot" /\ power # "off"
  BY DEF FtwInv, Restarting, Record
<1>2. ~Full(Work.log)
  BY <1>1, CommittedShape
<1>3. PICK w : w = Do(Fn("WriteRecord"), EraseOf("spare", AbortHook))
  OBVIOUS
<1>4. IsTodo(AbortHook) /\ IsTodo(w)
  BY <1>3, ContTodos, Todos, DoSeq
<1>5. ASSUME NEW k, Goes(k)
      PROVE  /\ Record' /\ power' = "boot" /\ todo' = k /\ Image' = Image /\ part' = part
             /\ Spare' = Spare /\ Spare \in Image
             /\ w = Do(Fn("WriteRecord"), EraseOf("spare", AbortHook))'
  <2>1. /\ Work' = Work /\ power' = power /\ todo' = k /\ Image' = Image /\ part' = part /\ Spare' = Spare
        /\ Committed' <=> Committed
    BY <1>1, <1>5, GoesSame
  <2>2. Record'
    BY <1>1, <2>1 DEF Record
  <2>3. w = Do(Fn("WriteRecord"), EraseOf("spare", AbortHook))'
    BY <1>3, <2>1 DEF EraseOf
  <2> QED BY <1>1, <2>1, <2>2, <2>3, FlashFacts
<1>6. CASE todo = Do(Fn("Restart"), AbortHook)
  <2>1. Cut \/ Goes(Do(Fn("Refresh"), w))
    BY <1>1, <1>3, <1>4, <1>6, RestartStep
  <2>2. CASE Cut
    BY <2>2, CutInv
  <2>3. CASE Goes(Do(Fn("Refresh"), w))
    <3>1. Restarting'
      BY <1>5, <2>3 DEF Restarting
    <3> QED BY <3>1, <2>3, GoesInv DEF Point
  <2> QED BY <2>1, <2>2, <2>3
<1>7. CASE todo = Do(Fn("Refresh"), w)
  <2>1. Cut \/ Goes(w)
    BY <1>1, <1>2, <1>4, <1>7, RefreshStep
  <2>2. CASE Cut
    BY <2>2, CutInv
  <2>3. CASE Goes(w)
    <3>1. PICK old : old = Spare
      OBVIOUS
    <3>2. old \in Image' /\ todo' = w /\ power' = "boot" /\ Record'
      BY <1>5, <2>3, <3>1
    <3>3. w = Do(Fn("WriteRecord"), WrEnd(old))'
      BY <1>5, <2>3, <3>2 DEF WrEnd
    <3>4. RecordAt'
      BY <3>2, <3>3 DEF RecordAt
    <3> QED BY <3>4, <2>3, GoesInv DEF Point
  <2> QED BY <2>1, <2>2, <2>3
<1> QED BY <1>3, <1>6, <1>7 DEF Restarting

\* The spare block is erased after a restart
LEMMA PointRestarted ==
    ASSUME FtwInv, Next, Restarted
    PROVE  FtwInv'
<1>1. /\ Types /\ FlashOK /\ power = "boot" /\ power # "off" /\ Clean /\ Erasing("spare", AbortHook)
      /\ AreaOK(Spare) /\ ImageOK(Spare) /\ flash["spare"] = Spare
  BY FlashFacts DEF FtwInv, Restarted, Spare
<1>2. ~Committed
  BY <1>1 DEF Clean, CleanIn, Committed, CommittedIn
<1>3. PICK w : w = Do(Erase("spare", {"ws"}), AbortHook)
  OBVIOUS
<1>4. IsTodo(AbortHook) /\ IsTodo(w)
  BY <1>3, ContTodos, DoSeq
<1>5. /\ ImageOK(ErasedIn(Spare, {"data"})) /\ ImageOK(ErasedIn(Spare, {"ws"}))
      /\ ImageOK(ErasedIn(Spare, {"data", "ws"}))
  <2>1. Spare.data \in Images /\ Spare.hdr \in SUBSET HeaderBits /\ {} \in SUBSET HeaderBits /\ Lost \in Images
    BY <1>1, Forms
  <2>2. ErasedIn(Spare, {"data"}) = Area(Lost, Spare.hdr, Spare.log) /\ ErasedIn(Spare, {"ws"}) = Area(Spare.data, {}, <<>>)
    BY <1>1, Forms
  <2>3. ImageOK(Area(Lost, Spare.hdr, Spare.log))
    BY <1>1, <2>1, Forms
  <2>4. ImageOK(Area(Spare.data, {}, <<>>)) /\ ImageOK(ErasedIn(Spare, {"data", "ws"}))
    BY <1>1, <2>1, EmptyForms
  <2> QED BY <2>2, <2>3, <2>4
<1>6. ASSUME NEW y, ImageOK(y), Becomes("spare", y, w), part.sector = "4K" PROVE FtwInv'
  <2>1. SpareBecomes(y) /\ todo' = w
    BY <1>1, <1>2, <1>6, SpareChange
  <2>2. Types' /\ FlashOK' /\ Clean' /\ power' = "boot" /\ part' = part
    BY <1>1, <2>1 DEF SpareBecomes
  <2>3. Restarted'
    BY <1>3, <1>6, <2>1, <2>2 DEF Restarted, Erasing
  <2> QED BY <2>2, <2>3 DEF FtwInv, Point
<1>7. ASSUME NEW y, ImageOK(y), Becomes("spare", y, AbortHook) PROVE FtwInv'
  <2>1. SpareBecomes(y) /\ todo' = AbortHook
    BY <1>1, <1>2, <1>7, SpareChange
  <2>2. Types' /\ FlashOK' /\ Clean' /\ power' = "boot"
    BY <1>1, <2>1 DEF SpareBecomes
  <2>3. AbortingNone'
    BY <2>1, <2>2 DEF AbortingNone
  <2> QED BY <2>2, <2>3 DEF FtwInv, Point
<1>8. ASSUME NEW y, ImageOK(y), CutAt("spare", y) PROVE FtwInv'
  BY <1>1, <1>2, <1>8, SpareChange
<1>9. Cut => FtwInv'
  BY CutInv
<1>10. CASE part.sector = "4K" /\ todo = Do(Erase("spare", {"data"}), w)
  <2>1. Cut \/ CutAt("spare", ErasedIn(Spare, {"data"})) \/ Becomes("spare", ErasedIn(Spare, {"data"}), w)
    BY <1>1, <1>4, <1>10, EraseStep
  <2> QED BY <2>1, <1>5, <1>6, <1>8, <1>9, <1>10
<1>11. CASE todo = Do(Erase("spare", {"data", "ws"}), AbortHook)
  <2>1. \/ Cut \/ CutAt("spare", ErasedIn(Spare, {"data", "ws"}))
        \/ Becomes("spare", ErasedIn(Spare, {"data", "ws"}), AbortHook)
    BY <1>1, <1>4, <1>11, EraseStep
  <2> QED BY <2>1, <1>5, <1>7, <1>8, <1>9
<1>12. CASE todo = w
  <2>1. Cut \/ CutAt("spare", ErasedIn(Spare, {"ws"})) \/ Becomes("spare", ErasedIn(Spare, {"ws"}), AbortHook)
    BY <1>1, <1>3, <1>4, <1>12, EraseStep
  <2> QED BY <2>1, <1>5, <1>7, <1>8, <1>9
<1> QED BY <1>1, <1>3, <1>10, <1>11, <1>12 DEF Erasing, EraseOf

-----------------------------------------------------------------------------
\* The board is switched on
LEMMA PointOff ==
    ASSUME FtwInv, Next, power = "off", todo = <<>>
    PROVE  FtwInv'
<1>1. Types /\ FlashOK /\ FvbInitialize
  BY RestStep DEF FtwInv
<1>2. PICK w, o : w = Erase("working", RepairParts) /\ o = Erase("other", RepairParts)
  OBVIOUS
<1>3. /\ power' = "boot" /\ UNCHANGED <<part, flash, asked, writes, cuts>>
      /\ todo' = IF Work.data # Lost THEN IF Other.data # Lost THEN I1 ELSE Do(o, I1)
                 ELSE Do(w, IF Other.data # Lost THEN I1 ELSE Do(o, I1))
  BY <1>1, <1>2, InitStep
<1>4. Types'
  BY <1>1, <1>3 DEF Types
<1>5. Work' = Work /\ Spare' = Spare /\ Other' = Other
  BY <1>3 DEF Work, Spare, Other
<1>6. FlashOK'
  BY <1>1, <1>3, <1>5 DEF FlashOK, AllFit, AreaOK, ImageOK, GoodLog
<1>7. w = Erase("working", RepairParts)' /\ o = Erase("other", RepairParts)'
  BY <1>2, <1>3 DEF RepairParts, Erase
<1>8. CASE Work.data # Lost /\ Other.data # Lost
  <2>1. Booting'
    BY <1>3, <1>8 DEF Booting, AtI1
  <2> QED BY <1>4, <1>6, <2>1 DEF FtwInv, Point
<1>9. CASE ~(Work.data # Lost /\ Other.data # Lost)
  <2>1. Repairing'
    BY <1>3, <1>5, <1>7, <1>9 DEF Repairing
  <2> QED BY <1>4, <1>6, <2>1 DEF FtwInv, Point
<1> QED BY <1>8, <1>9

\* An area whose volume the block services repair has no image to lose, and keeps
\* the work space on a part that erases 4 KB at a time.
LEMMA RepairForm ==
    ASSUME Types, NEW x, AreaOK(x), x.data = Lost
    PROVE  LET y == ErasedIn(x, RepairParts)
           IN  AreaOK(y) /\ (y = x \/ (part.sector = "64K" /\ y = Erased))
<1>1. part.sector \in {"4K", "64K"}
  BY PartsAssumption DEF Types
<1>2. CASE part.sector = "4K"
  BY <1>2, Forms DEF RepairParts
<1>3. CASE part.sector = "64K"
  BY <1>3, EmptyForms DEF RepairParts, ImageOK
<1> QED BY <1>1, <1>2, <1>3

\* The block services repair damaged volumes
LEMMA PointRepairing ==
    ASSUME FtwInv, Next, Repairing
    PROVE  FtwInv'
<1>1. /\ Types /\ FlashOK /\ power = "boot" /\ power # "off"
      /\ AreaOK(Work) /\ AreaOK(Other)
      /\ flash["working"] = Work /\ flash["other"] = Other /\ {"working", "other"} \subseteq Areas
  BY FlashFacts DEF FtwInv, Repairing, Work, Other, Areas
<1>2. PICK p, w, o : p = RepairParts /\ w = Erase("working", p) /\ o = Erase("other", p)
  OBVIOUS
<1>3. IsTodo(I1) /\ IsTodo(Do(o, I1))
  BY ContTodos, DoSeq
<1>4. CASE Other.data = Lost /\ todo = Do(o, I1)
  <2> DEFINE y == ErasedIn(Other, p)
  <2>1. Cut \/ CutAt("other", y) \/ Becomes("other", y, I1)
    BY <1>1, <1>2, <1>3, <1>4, EraseStep
  <2>2. AreaOK(y)
    BY <1>1, <1>2, <1>4, RepairForm
  <2> HIDE DEF y
  <2>3. AllFit(After("other", y, "working"), After("other", y, "spare"), After("other", y, "other"))
    BY <1>1, <2>2, OtherTo
  <2>4. CASE Cut
    BY <2>4, CutInv
  <2>5. CASE CutAt("other", y)
    BY <1>1, <2>3, <2>5, CutAtInv
  <2>6. CASE Becomes("other", y, I1)
    <3>1. Types' /\ FlashOK' /\ power' = power /\ todo' = I1
      BY <1>1, <2>3, <2>6, AreaBecomes
    <3>2. Booting'
      BY <1>1, <3>1 DEF Booting, AtI1
    <3> QED BY <3>1, <3>2 DEF FtwInv, Point
  <2> QED BY <2>1, <2>4, <2>5, <2>6
<1>5. ASSUME Work.data = Lost, NEW k, IsTodo(k), todo = Do(w, k),
             k = I1 \/ (k = Do(o, I1) /\ Other.data = Lost)
      PROVE  FtwInv'
  <2> DEFINE y == ErasedIn(Work, p)
  <2>1. Cut \/ CutAt("working", y) \/ Becomes("working", y, k)
    BY <1>1, <1>2, <1>5, EraseStep
  <2>2. AreaOK(y) /\ (y = Work \/ y = Erased)
    BY <1>1, <1>2, <1>5, RepairForm
  <2> HIDE DEF y
  <2>3. ~CommittedIn(Erased) /\ Erased.log = <<>>
    BY DEF CommittedIn, Valid, Erased
  <2>4. Fits(y, Spare) /\ (y.log # <<>> => "sig" \in y.hdr)
    BY <1>1, <2>2, <2>3 DEF Fits, FlashOK, AllFit
  <2>5. CASE Cut
    BY <2>5, CutInv
  <2>6. CASE CutAt("working", y)
    BY <1>1, <2>2, <2>4, <2>6, WorkChange
  <2>7. CASE Becomes("working", y, k)
    <3>1. WorkBecomes(y) /\ todo' = k
      BY <1>1, <2>2, <2>4, <2>7, WorkChange
    <3>2. Types' /\ FlashOK' /\ power' = power /\ Other' = Other /\ part' = part
      BY <3>1 DEF WorkBecomes
    <3>3. o = Erase("other", RepairParts)'
      BY <1>2, <3>2 DEF RepairParts, Erase
    <3>4. k = I1 => Booting'
      BY <1>1, <3>1, <3>2 DEF Booting, AtI1
    <3>5. k = Do(o, I1) /\ Other.data = Lost => Repairing'
      BY <1>1, <3>1, <3>2, <3>3 DEF Repairing
    <3> QED BY <1>5, <3>2, <3>4, <3>5 DEF FtwInv, Point
  <2> QED BY <2>1, <2>5, <2>6, <2>7
<1> QED BY <1>2, <1>3, <1>4, <1>5 DEF Repairing

\* A caller writes
LEMMA PointResting ==
    ASSUME FtwInv, Next, Resting
    PROVE  FtwInv'
<1>1. /\ Types /\ FlashOK /\ power = "ready" /\ power # "off" /\ todo = <<>> /\ Clean /\ AskedAll
      /\ Len(Work.log) \in Nat /\ Len(Work.log) <= writes /\ writes \in 0 .. MaxWrites
  <2>1. Types /\ FlashOK /\ power = "ready" /\ power # "off" /\ todo = <<>> /\ Clean /\ AskedAll
    BY DEF FtwInv, Resting
  <2>2. Len(Work.log) <= writes /\ writes \in 0 .. MaxWrites
    BY <2>1, FlashFacts DEF AreaOK, GoodLog, Types
  <2> QED BY <2>1, <2>2, LastShape
<1>2. Cut \/ (\E t \in Targets : FtwWrite(t))
  BY <1>1, RestStep
<1>3. CASE Cut
  BY <1>3, CutInv
<1>4. ASSUME NEW t \in Targets, FtwWrite(t) PROVE FtwInv'
  <2>1. /\ writes < MaxWrites /\ writes' = writes + 1
        /\ asked' = [asked EXCEPT ![t] = writes + 1]
        /\ UNCHANGED <<part, flash, power, cuts>>
        /\ todo' = Do(Fn("Refresh"), AppendK(t))
    BY <1>4, WriteCallStep DEF FtwWrite
  <2>2. writes + 1 \in 0 .. MaxWrites /\ writes + 1 \in Images /\ writes + 1 # Lost
        /\ writes' > 0 /\ Len(Work.log) < writes'
    BY <1>1, <2>1, BoundsAssumption DEF Images, Lost
  <2>3. /\ asked' \in [Targets -> Images] /\ asked'[t] = writes + 1
        /\ \A u \in Targets : u # t => asked'[u] = asked[u]
    BY <1>1, <2>1, <2>2 DEF Types
  <2>4. Types'
    BY <1>1, <2>1, <2>2, <2>3 DEF Types
  <2>5. Work' = Work /\ Spare' = Spare /\ Other' = Other
    BY <2>1 DEF Work, Spare, Other
  <2>6. \A log : GoodLog(log) => GoodLog(log)'
    <3> SUFFICES ASSUME NEW log, GoodLog(log) PROVE Len(log) <= writes' /\ Len(log) <= part'.cap
      BY DEF GoodLog
    <3>1. Len(log) \in Nat /\ Len(log) <= writes /\ Len(log) <= part.cap
      BY LogShape DEF GoodLog
    <3> QED BY <1>1, <2>1, <3>1
  <2>7. FlashOK'
    BY <1>1, <2>5, <2>6 DEF FlashOK, AllFit, AreaOK, ImageOK
  <2>8. Clean'
    BY <1>1, <2>5 DEF Clean
  <2>9. AskedBut(t, Work.data)'
    <3>1. asked["working"] = Work.data /\ asked["other"] = Other.data
      BY <1>1 DEF AskedAll, Targets, Work, Other
    <3>2. {"working", "other"} = Targets
      BY DEF Targets
    <3> QED BY <2>3, <2>5, <3>1, <3>2 DEF AskedBut
  <2>10. Keeps(t, Work.data)'
    BY <1>1, <2>1, <2>2, <2>3, <2>9 DEF Keeps
  <2>11. Allocating(t)'
    BY <2>1, <2>2, <2>5, <2>8, <2>10 DEF Allocating
  <2> QED BY <2>4, <2>7, <2>11 DEF FtwInv, Point, Writing
<1> QED BY <1>2, <1>3, <1>4

\* FtwAllocate()
LEMMA PointAllocating ==
    ASSUME FtwInv, Next, NEW t \in Targets, Allocating(t)
    PROVE  FtwInv'
<1>1. /\ Types /\ FlashOK /\ Clean /\ Keeps(t, Work.data) /\ power = "ready" /\ power # "off"
      /\ Len(Work.log) < writes /\ IsTodo(AppendK(t)) /\ IsTodo(Do(FnOf("Describe", t), <<>>))
      /\ AreaOK(Work) /\ GoodLog(Work.log) /\ WellLogged(Work.log)
  BY FlashFacts, ContTodos DEF FtwInv, Allocating, Keeps, AreaOK
<1>2. /\ Valid(Work) /\ Lst(Work) = {} /\ ~TornTail(Work.log) /\ Last = Lst(Work)
      /\ Len(Work.log) \in Nat /\ writes \in Nat
  BY <1>1, LastShape DEF Clean, CleanIn, Types
<1>3. CASE todo = Do(Fn("Refresh"), AppendK(t))
  <2>1. Cut \/ Goes(IF Full(Work.log) THEN Do(Fn("Reclaim"), AppendK(t)) ELSE AppendK(t))
    BY <1>1, <1>3, RefreshStep
  <2>2. CASE Cut
    BY <2>2, CutInv
  <2>3. ASSUME NEW k, Goes(k)
        PROVE  /\ todo' = k /\ Work' = Work /\ Last' = {} /\ Keeps(t, Work.data)' /\ writes' = writes
               /\ Clean' /\ (Full(Work.log)' <=> Full(Work.log))
    <3>1. /\ todo' = k /\ Work' = Work /\ Other' = Other /\ Last' = Last /\ UNCHANGED <<power, asked, writes>>
          /\ (Clean' <=> Clean) /\ (Full(Work.log)' <=> Full(Work.log))
      BY <1>1, <2>3, GoesSame
    <3>2. Keeps(t, Work.data)'
      BY <1>1, <3>1 DEF Keeps, AskedBut
    <3> QED BY <1>1, <1>2, <3>1, <3>2
  <2>4. CASE Full(Work.log) /\ Goes(Do(Fn("Reclaim"), AppendK(t)))
    <3>1. Cont(t) = AppendK(t) /\ t \in ReclaimConts
      BY ContIs
    <3>2. ReclaimAt(t)'
      BY <2>3, <2>4, <3>1 DEF ReclaimAt, Reclaimable
    <3> QED BY <3>1, <3>2, <2>4, GoesInv DEF Point
  <2>5. CASE ~Full(Work.log) /\ Goes(AppendK(t))
    <3>1. Allocating(t)'
      BY <1>1, <2>3, <2>5 DEF Allocating
    <3> QED BY <3>1, <2>5, GoesInv DEF Point, Writing
  <2> QED BY <2>1, <2>2, <2>4, <2>5
<1>4. CASE todo = AppendK(t) /\ ~Full(Work.log)
  <2>1. PICK k : k = Do(FnOf("Describe", t), <<>>)
    OBVIOUS
  <2>2. IsTodo(k) /\ todo = Do(Apd, k)
    BY <1>1, <1>4, <2>1 DEF AppendK
  <2>3. \/ Cut
        \/ CutAt("working", [Work EXCEPT !.log = Append(@, {"alloc", "torn"})])
        \/ Becomes("working", [Work EXCEPT !.log = Append(@, {"alloc"})], k)
    BY <1>1, <2>2, AppendStep
  <2>4. ~Open(Work.log)
    BY <1>1, <1>2, LogShape DEF Lst
  <2>5. Len(Work.log) < part.cap /\ part.cap \in Nat
    BY <1>1, <1>2, <1>4, FullShape, PartsAssumption DEF Lst, Types
  <2>6. ASSUME NEW B \in SUBSET EntryBits, "alloc" \in B, "complete" \notin B, "spare" \notin B
        PROVE  LET y == [Work EXCEPT !.log = Append(@, B)]
               IN  /\ AreaOK(y) /\ Fits(y, Spare) /\ y.hdr = Work.hdr /\ y.data = Work.data
                   /\ "sig" \in y.hdr
                   /\ Lst(y) = B
                   /\ TornTail(y.log) <=> "torn" \in B
    <3> DEFINE m == Append(Work.log, B)
               y == [Work EXCEPT !.log = Append(@, B)]
    <3>1. /\ WellLogged(m) /\ Len(m) = Len(Work.log) + 1 /\ (TornTail(m) <=> "torn" \in B)
          /\ FtwGetLastWriteRecord(m) = B
      BY <1>1, <1>2, <2>4, <2>6, LogAppend
    <3>2. GoodLog(m)
      BY <1>1, <1>2, <2>5, <3>1 DEF GoodLog
    <3>3. y = Area(Work.data, Work.hdr, m) /\ Work.data \in Images /\ Work.hdr \in SUBSET HeaderBits
      BY <1>1, Forms
    <3> HIDE DEF m, y
    <3>4. y.data = Work.data /\ y.hdr = Work.hdr /\ y.log = m
      BY <3>3, AreaFields
    <3>5. y \in AreaContents
      BY <3>1, <3>3 DEF AreaContents, Area, WellLogged
    <3>6. Lst(y) = B
      BY <3>1, <3>4 DEF Lst
    <3>7. Fits(y, Spare)
      BY <2>6, <3>6 DEF Fits, CommittedIn
    <3>8. "sig" \in y.hdr
      BY <1>2, <3>4 DEF Valid
    <3> QED BY <3>1, <3>2, <3>4, <3>5, <3>6, <3>7, <3>8 DEF AreaOK, y
  <2>7. CASE Cut
    BY <2>7, CutInv
  <2>8. CASE CutAt("working", [Work EXCEPT !.log = Append(@, {"alloc", "torn"})])
    <3>1. PICK B : B = {"alloc", "torn"}
      OBVIOUS
    <3>2. B \in SUBSET EntryBits /\ "alloc" \in B /\ "complete" \notin B /\ "spare" \notin B
      BY <3>1 DEF EntryBits
    <3>3. PICK y : y = [Work EXCEPT !.log = Append(@, B)]
      OBVIOUS
    <3>4. AreaOK(y) /\ Fits(y, Spare) /\ "sig" \in y.hdr
      BY <2>6, <3>2, <3>3
    <3>5. CutAt("working", y)
      BY <2>8, <3>1, <3>3
    <3> QED BY <1>1, <3>4, <3>5, WorkChange
  <2>9. CASE Becomes("working", [Work EXCEPT !.log = Append(@, {"alloc"})], k)
    <3>1. PICK B : B = {"alloc"}
      OBVIOUS
    <3>2. B \in SUBSET EntryBits /\ "alloc" \in B /\ "complete" \notin B /\ "spare" \notin B /\ "torn" \notin B
      BY <3>1 DEF EntryBits
    <3>3. PICK y : y = [Work EXCEPT !.log = Append(@, B)]
      OBVIOUS
    <3>4. /\ AreaOK(y) /\ Fits(y, Spare) /\ "sig" \in y.hdr /\ y.hdr = Work.hdr /\ y.data = Work.data
          /\ Lst(y) = B /\ ~TornTail(y.log)
      BY <2>6, <3>2, <3>3
    <3>5. Becomes("working", y, k)
      BY <2>9, <3>1, <3>3
    <3>6. WorkBecomes(y) /\ todo' = k
      BY <1>1, <3>4, <3>5, WorkChange
    <3>7. /\ Types' /\ FlashOK' /\ UNCHANGED <<power, asked, writes>>
          /\ Work' = y /\ Other' = Other /\ Last' = Lst(y)
      BY <3>6 DEF WorkBecomes
    <3>8. Keeps(t, Work.data)'
      BY <1>1, <3>4, <3>7 DEF Keeps, AskedBut
    <3>9. Valid(Work)'
      BY <1>2, <3>4, <3>7 DEF Valid
    <3>10. Describing(t)'
      BY <2>1, <3>1, <3>4, <3>6, <3>7, <3>8, <3>9 DEF Describing
    <3> QED BY <3>7, <3>10 DEF FtwInv, Point, Writing
  <2> QED BY <2>3, <2>7, <2>8, <2>9
<1> QED BY <1>3, <1>4 DEF Allocating

\* The record of the write
LEMMA PointDescribing ==
    ASSUME FtwInv, Next, NEW t \in Targets, Describing(t)
    PROVE  FtwInv'
<1>1. /\ Types /\ FlashOK /\ Keeps(t, Work.data) /\ power = "ready" /\ power # "off"
      /\ Valid(Work) /\ Last = {"alloc"} /\ ~TornTail(Work.log) /\ IsTodo(<<>>)
      /\ AreaOK(Work) /\ flash["working"] = Work /\ "working" \in Areas
  BY FlashFacts, EmptyTodo DEF FtwInv, Describing, Keeps, Work, Areas
<1>2. PICK n, B, s : n = Len(Work.log) /\ B = {"rec", t} /\ s = Do(FnOf("Store", t), <<>>)
  OBVIOUS
<1>3. Last # {} /\ FtwGetLastWriteHeader(Work.log) = n /\ Last = Lst(Work)
  BY <1>1, <1>2, LastShape
<1>4. IsTodo(s)
  BY <1>2, ContTodos
<1>5. CASE todo = Do(FnOf("Describe", t), <<>>)
  <2>1. Cut \/ Goes(Do(Rcd("working", n, B), s))
    BY <1>1, <1>2, <1>3, <1>5, DescribeStep
  <2>2. CASE Cut
    BY <2>2, CutInv
  <2>3. CASE Goes(Do(Rcd("working", n, B), s))
    <3>1. /\ todo' = Do(Rcd("working", n, B), s)
          /\ Work' = Work /\ Other' = Other /\ Last' = Last /\ UNCHANGED <<power, asked, writes>>
      BY <1>1, <2>3, GoesSame
    <3>2. Keeps(t, Work.data)'
      BY <1>1, <3>1 DEF Keeps, AskedBut
    <3>3. Describing(t)'
      BY <1>1, <1>2, <3>1, <3>2 DEF Describing
    <3> QED BY <3>3, <2>3, GoesInv DEF Point, Writing
  <2> QED BY <2>1, <2>2, <2>3
<1>6. CASE todo = Do(Rcd("working", n, B), s)
  <2> DEFINE y == WithBits(Work, Len(Work.log), B)
  <2>1. Cut \/ Becomes("working", y, s)
    BY <1>1, <1>2, <1>4, <1>6, RecordStep
  <2>2. CASE Cut
    BY <2>2, CutInv
  <2>3. CASE Becomes("working", y, s)
    <3>1. B \in SUBSET (EntryBits \ {"torn"}) /\ "spare" \notin B /\ "complete" \notin B
      BY <1>2 DEF EntryBits, Targets
    <3>2. Lst(y) = Last \cup B
      BY <1>1, <1>3, <3>1, BitsForm
    <3>3. "spare" \notin Lst(y)
      BY <1>1, <3>1, <3>2
    <3>4. Fits(y, Spare)
      BY <3>3 DEF Fits, CommittedIn
    <3>5. /\ Types' /\ FlashOK' /\ UNCHANGED <<part, power, asked, writes>> /\ todo' = s
          /\ Other' = Other /\ Work'.data = Work.data /\ Work'.hdr = Work.hdr
          /\ TornTail(Work'.log) <=> TornTail(Work.log)
          /\ Last' = Last \cup B
      BY <1>1, <1>3, <2>3, <3>1, <3>4, WorkMark
    <3>6. Last' = {"alloc", "rec", t}
      <4>1. {"alloc"} \cup {"rec", t} = {"alloc", "rec", t}
        OBVIOUS
      <4> QED BY <1>1, <1>2, <3>5, <4>1
    <3>7. Keeps(t, Work.data)' /\ Valid(Work)'
      BY <1>1, <3>5 DEF Keeps, AskedBut, Valid
    <3>8. Preparing(t)'
      BY <1>1, <1>2, <3>5, <3>6, <3>7 DEF Preparing
    <3> QED BY <3>5, <3>8 DEF FtwInv, Point, Writing
  <2> QED BY <2>1, <2>2, <2>3
<1> QED BY <1>2, <1>5, <1>6 DEF Describing

\* The image of a write, and how it will fit the log that says where it goes.
LEMMA WriteImageForm ==
    ASSUME Types, FlashOK, NEW t \in Targets,
           Valid(Work), Last = {"alloc", "rec", t}, ~TornTail(Work.log)
    PROVE  /\ ImageOK(WriteImage(t)) /\ WriteImage(t).data = asked[t]
           /\ t = "working" => /\ Valid(WriteImage(t))
                               /\ WriteImage(t).log = Work.log
                               /\ Lst(WriteImage(t)) = Last
<1>1. AreaOK(Work) /\ Last = Lst(Work) /\ asked[t] \in Images
  BY FlashFacts DEF Types
<1>2. CASE t = "working"
  <2>1. WriteImage(t) = Area(asked[t], Work.hdr, Work.log) /\ Work.hdr \in SUBSET HeaderBits
    BY <1>1, <1>2, Forms DEF WriteImage
  <2>2. AreaOK(Area(asked[t], Work.hdr, Work.log))
    BY <1>1, <2>1, Forms
  <2>3. Lst(Area(asked[t], Work.hdr, Work.log)) = Last
    BY <1>1, AreaFields DEF Lst
  <2>4. "other" \notin Last /\ "spare" \notin Last
    BY <1>2
  <2>5. ImageOK(Area(asked[t], Work.hdr, Work.log))
    BY <2>2, <2>3, <2>4, AreaFields DEF ImageOK
  <2> QED BY <2>1, <2>3, <2>5, AreaFields DEF Valid
<1>3. CASE t # "working"
  <2>1. WriteImage(t) = Area(asked[t], {}, <<>>)
    BY <1>3, EmptyForms DEF WriteImage
  <2> QED BY <1>1, <1>3, <2>1, EmptyForms, AreaFields
<1> QED BY <1>2, <1>3

\* The image goes to the spare block and is committed
LEMMA PointPreparing ==
    ASSUME FtwInv, Next, NEW t \in Targets, Preparing(t)
    PROVE  FtwInv'
<1>1. /\ Types /\ FlashOK /\ Keeps(t, Work.data) /\ power = "ready" /\ power # "off"
      /\ Valid(Work) /\ Last = {"alloc", "rec", t} /\ ~TornTail(Work.log) /\ IsTodo(<<>>)
      /\ AreaOK(Work) /\ flash["working"] = Work /\ "working" \in Areas
  BY FlashFacts, EmptyTodo DEF FtwInv, Preparing, Keeps, Work, Areas
<1>2. PICK n, g : n = Len(Work.log) /\ g = WriteImage(t)
  OBVIOUS
<1>3. /\ Last # {} /\ FtwGetLastWriteHeader(Work.log) = n /\ Last = Lst(Work)
      /\ "spare" \notin Last /\ ~Committed
  <2>1. "alloc" \in Last /\ "spare" \notin Last
    BY <1>1 DEF Targets
  <2> QED BY <1>1, <1>2, <2>1, LastShape DEF Committed, CommittedIn
<1>4. /\ ImageOK(g) /\ g.data = asked[t]
      /\ t = "working" => Valid(g) /\ g.log = Work.log /\ Lst(g) = Last
  BY <1>1, <1>2, WriteImageForm
<1>5. ASSUME NEW old PROVE /\ WrEnd(old) = StoreOf("spare", old, <<>>)
                           /\ IsTodo(WriteCommit(n, old)) /\ IsTodo(Do(Fn("WriteRecord"), WrEnd(old)))
  BY <1>1, ContTodos, DoSeq DEF WrEnd, WriteCommit
<1>6. ASSUME UNCHANGED <<part, power, asked, writes>>, Work' = Work, Other' = Other, Last' = Last
      PROVE  /\ Keeps(t, Work.data)' /\ Valid(Work)' /\ Last' = {"alloc", "rec", t}
             /\ ~TornTail(Work'.log) /\ Len(Work.log)' = n /\ WriteImage(t)' = g
             /\ \A old : WriteCommit(n, old)' = WriteCommit(n, old)
  <2>1. Keeps(t, Work.data)'
    BY <1>1, <1>6 DEF Keeps, AskedBut
  <2>2. WriteImage(t)' = g
    BY <1>2, <1>6 DEF WriteImage
  <2>3. \A old : WriteCommit(n, old)' = WriteCommit(n, old)
    <3> TAKE old
    <3>1. WrEnd(old)' = WrEnd(old)
      BY <1>6, Kept
    <3> QED BY <3>1 DEF WriteCommit
  <2> QED BY <1>1, <1>2, <1>6, <2>1, <2>2, <2>3
<1>7. CASE todo = Do(FnOf("Store", t), <<>>)
  <2>1. PICK old : old = Spare
    OBVIOUS
  <2>2. Cut \/ Goes(StoreOf("spare", g, WriteCommit(n, old)))
    BY <1>1, <1>2, <1>3, <1>5, <1>7, <2>1, StoreStep DEF WriteCommit
  <2>3. CASE Cut
    BY <2>3, CutInv
  <2>4. CASE Goes(StoreOf("spare", g, WriteCommit(n, old)))
    <3>1. /\ UNCHANGED <<part, power, asked, writes>> /\ Work' = Work /\ Other' = Other /\ Last' = Last
          /\ todo' = StoreOf("spare", g, WriteCommit(n, old)) /\ Image' = Image
      BY <1>1, <2>4, GoesSame
    <3>2. old \in Image'
      BY <1>1, <2>1, <3>1, FlashFacts
    <3>3. PICK k : k = WriteCommit(n, old)
      OBVIOUS
    <3>4. /\ Keeps(t, Work.data)' /\ Valid(Work)' /\ Last' = {"alloc", "rec", t}
          /\ ~TornTail(Work'.log) /\ Len(Work.log)' = n /\ WriteImage(t)' = g
          /\ WriteCommit(n, old)' = k
      BY <1>6, <3>1, <3>3
    <3>5. StoreOf("spare", g, k)' = StoreOf("spare", g, k)
      BY <3>1, Kept
    <3>6. StoreOf("spare", WriteImage(t), WriteCommit(Len(Work.log), old))' = StoreOf("spare", g, k)'
      BY <3>4 DEF StoreOf, EraseOf, WriteOf, Wrt, WriteCommit
    <3>7. Storing("spare", WriteImage(t), WriteCommit(Len(Work.log), old))'
      BY <3>1, <3>3, <3>5, <3>6 DEF Storing
    <3>8. Preparing(t)'
      BY <3>2, <3>4, <3>7 DEF Preparing
    <3> QED BY <3>8, <2>4, GoesInv DEF Point, Writing
  <2> QED BY <2>2, <2>3, <2>4
<1>8. ASSUME NEW old \in Image, Storing("spare", g, WriteCommit(n, old)) PROVE FtwInv'
  <2>1. PICK k : k = WriteCommit(n, old)
    OBVIOUS
  <2>2. IsTodo(k) /\ Storing("spare", g, k)
    BY <1>5, <1>8, <2>1
  <2>3. \/ FtwInv'
        \/ SpareBecomes(g) /\ todo' = k
        \/ \E y \in Partial(Spare, g) : SpareBecomes(y) /\ Storing("spare", g, k)'
    BY <1>1, <1>3, <1>4, <2>2, SpareStoring
  <2>4. ASSUME NEW y, SpareBecomes(y)
        PROVE  /\ Keeps(t, Work.data)' /\ Valid(Work)' /\ Last' = {"alloc", "rec", t}
               /\ ~TornTail(Work'.log) /\ Len(Work.log)' = n /\ WriteImage(t)' = g
               /\ WriteCommit(n, old)' = k /\ old \in Image' /\ Types' /\ FlashOK' /\ Spare' = y
    <3>1. /\ UNCHANGED <<part, power, asked, writes>> /\ Work' = Work /\ Other' = Other /\ Last' = Last
          /\ Image' = Image /\ Types' /\ FlashOK' /\ Spare' = y
      BY <2>4 DEF SpareBecomes
    <3> QED BY <1>6, <1>8, <2>1, <3>1
  <2>5. CASE SpareBecomes(g) /\ todo' = k
    <3>1. /\ Keeps(t, Work.data)' /\ Valid(Work)' /\ Last' = {"alloc", "rec", t}
          /\ ~TornTail(Work'.log) /\ Len(Work.log)' = n /\ WriteImage(t)' = g
          /\ WriteCommit(n, old)' = k /\ old \in Image' /\ Types' /\ FlashOK' /\ Spare' = g
      BY <2>4, <2>5
    <3>2. WriteCommit(Len(Work.log), old)' = k
      BY <3>1 DEF WriteCommit
    <3>3. Preparing(t)'
      BY <2>5, <3>1, <3>2 DEF Preparing
    <3> QED BY <3>1, <3>3 DEF FtwInv, Point, Writing
  <2>6. ASSUME NEW y \in Partial(Spare, g), SpareBecomes(y), Storing("spare", g, k)'
        PROVE  FtwInv'
    <3>1. /\ Keeps(t, Work.data)' /\ Valid(Work)' /\ Last' = {"alloc", "rec", t}
          /\ ~TornTail(Work'.log) /\ Len(Work.log)' = n /\ WriteImage(t)' = g
          /\ WriteCommit(n, old)' = k /\ old \in Image' /\ Types' /\ FlashOK'
      BY <2>4, <2>6
    <3>2. WriteCommit(Len(Work.log), old)' = k
      BY <3>1 DEF WriteCommit
    <3>3. Storing("spare", WriteImage(t), WriteCommit(Len(Work.log), old))'
      BY <2>6, <3>1, <3>2 DEF Storing
    <3>4. Preparing(t)'
      BY <3>1, <3>3 DEF Preparing
    <3> QED BY <3>1, <3>4 DEF FtwInv, Point, Writing
  <2> QED BY <2>3, <2>5, <2>6
<1>9. ASSUME NEW old \in Image, todo = WriteCommit(n, old), Spare = g PROVE FtwInv'
  <2>1. PICK k, B : k = Do(Fn("WriteRecord"), WrEnd(old)) /\ B = {"spare"}
    OBVIOUS
  <2>2. IsTodo(k) /\ todo = Do(Rcd("working", n, B), k)
    BY <1>5, <1>9, <2>1 DEF WriteCommit
  <2> DEFINE y == WithBits(Work, Len(Work.log), B)
  <2>3. Cut \/ Becomes("working", y, k)
    BY <1>1, <1>2, <2>2, RecordStep
  <2>4. CASE Cut
    BY <2>4, CutInv
  <2>5. CASE Becomes("working", y, k)
    <3>1. B \in SUBSET (EntryBits \ {"torn"}) /\ "spare" \in B /\ "complete" \notin B
      BY <2>1 DEF EntryBits
    <3>2. Lst(y) = Last \cup B /\ Len(y.log) = Len(Work.log)
      <4>1. AreaOK(Work) /\ Lst(Work) # {} /\ ("spare" \in B => ~TornTail(Work.log))
        BY <1>1, <1>3
      <4>2. Lst(y) = Lst(Work) \cup B /\ Len(y.log) = Len(Work.log)
        BY <1>1, <3>1, <4>1, BitsForm
      <4> QED BY <1>3, <4>2
    <3>3. \A u \in {"working", "other", "dest"} : u \in Last \cup B <=> u = t
      BY <1>1, <2>1 DEF Targets
    <3>4. Fits(y, Spare)
      <4>1. ("working" \in Lst(y)) <=> ("other" \notin Lst(y))
        BY <3>2, <3>3 DEF Targets
      <4>2. "working" \in Lst(y) => t = "working"
        BY <3>2, <3>3
      <4>3. t = "working" => /\ Valid(Spare) /\ Len(Spare.log) = Len(y.log)
                             /\ "working" \in Lst(Spare) /\ "dest" \notin Lst(Spare)
        BY <1>1, <1>4, <1>9, <3>2
      <4> QED BY <4>1, <4>2, <4>3 DEF Fits
    <3>5. /\ Types' /\ FlashOK' /\ UNCHANGED <<part, power, asked, writes>> /\ todo' = k
          /\ Spare' = Spare /\ Other' = Other
          /\ Work'.data = Work.data /\ Work'.hdr = Work.hdr
          /\ TornTail(Work'.log) <=> TornTail(Work.log)
          /\ Last' = Last \cup B /\ Lst(Work') = Last \cup B
          /\ Image' = Image
      BY <1>1, <1>3, <2>5, <3>1, <3>4, WorkMark
    <3>6. Valid(Work)' /\ "spare" \in Lst(Work') /\ "dest" \notin Lst(Work')
      BY <1>1, <3>1, <3>3, <3>5 DEF Valid, Targets
    <3>7. Record'
      BY <1>1, <3>5, <3>6 DEF Record, Committed, CommittedIn
    <3>8. \A u \in Targets : asked'[u] = IF u \in Last' THEN Spare'.data ELSE flash'[u].data
      <4> TAKE u \in Targets
      <4>1. u \in Last' <=> u = t
        BY <3>3, <3>5 DEF Targets
      <4>2. CASE u = t
        BY <1>4, <1>9, <3>5, <4>1, <4>2
      <4>3. CASE u # t
        <5>1. asked[u] = IF u = "working" THEN Work.data ELSE Other.data
          BY <1>1, <4>3 DEF Keeps, AskedBut, Targets
        <5>2. flash'["working"] = Work' /\ flash'["other"] = Other'
          BY DEF Work, Other
        <5>3. u = "working" \/ u = "other"
          BY DEF Targets
        <5> QED BY <3>5, <4>1, <4>3, <5>1, <5>2, <5>3
      <4> QED BY <4>2, <4>3
    <3>9. k = Do(Fn("WriteRecord"), WrEnd(old)')
      BY <2>1, <3>5, Kept
    <3>10. RecordAt'
      BY <1>9, <3>5, <3>7, <3>8, <3>9 DEF RecordAt
    <3> QED BY <3>5, <3>10 DEF FtwInv, Point
  <2> QED BY <2>3, <2>4, <2>5
<1> QED BY <1>2, <1>7, <1>8, <1>9 DEF Preparing

\* The spare block gets its content back after a write
LEMMA PointFinishing ==
    ASSUME FtwInv, Next, Finishing
    PROVE  FtwInv'
<1>1. Types /\ FlashOK /\ power = "ready" /\ power # "off" /\ Clean /\ AskedAll /\ IsTodo(<<>>)
  BY EmptyTodo DEF FtwInv, Finishing
<1>2. ~Committed
  BY <1>1 DEF Clean, CleanIn, Committed, CommittedIn
<1>3. PICK old \in Image : Storing("spare", old, <<>>)
  BY DEF Finishing
<1>4. ImageOK(old)
  BY DEF Image
<1>5. \/ FtwInv'
      \/ SpareBecomes(old) /\ todo' = <<>>
      \/ \E y \in Partial(Spare, old) : SpareBecomes(y) /\ Storing("spare", old, <<>>)'
  BY <1>1, <1>2, <1>3, <1>4, SpareStoring
<1>6. ASSUME NEW y, SpareBecomes(y)
      PROVE  Types' /\ FlashOK' /\ Clean' /\ AskedAll' /\ power' = "ready" /\ old \in Image'
  BY <1>1, <1>6 DEF SpareBecomes
<1>7. CASE SpareBecomes(old) /\ todo' = <<>>
  <2>1. Types' /\ FlashOK' /\ Resting'
    BY <1>6, <1>7 DEF Resting
  <2> QED BY <2>1 DEF FtwInv, Point
<1>8. ASSUME NEW y \in Partial(Spare, old), SpareBecomes(y), Storing("spare", old, <<>>)'
      PROVE  FtwInv'
  <2>1. Types' /\ FlashOK' /\ Finishing'
    BY <1>6, <1>8 DEF Finishing
  <2> QED BY <2>1 DEF FtwInv, Point
<1> QED BY <1>5, <1>7, <1>8

-----------------------------------------------------------------------------
(***************************************************************************)
(* The inductive invariant.                                                *)
(***************************************************************************)
\* Nothing changes.
LEMMA FtwStutter ==
    ASSUME FtwInv, UNCHANGED vars
    PROVE  FtwInv'
<1>1. /\ todo' = todo /\ flash' = flash /\ UNCHANGED <<part, power, asked, writes, cuts>>
      /\ Types /\ FlashOK
  BY DEF vars, FtwInv
<1>2. PICK k : k = todo
  OBVIOUS
<1>3. Goes(k)
  BY <1>1, <1>2 DEF Goes
<1>4. /\ Types' /\ FlashOK' /\ Work' = Work /\ Spare' = Spare /\ Other' = Other
      /\ Last' = Last /\ Image' = Image /\ (Full(Work.log)' <=> Full(Work.log))
      /\ (Committed' <=> Committed) /\ (Clean' <=> Clean) /\ (AskedAll' <=> AskedAll)
  BY <1>1, <1>3, GoesSame
<1>5. \A a, g, s : Storing(a, g, s)' <=> Storing(a, g, s)
  BY <1>1 DEF Storing, StoreOf, EraseOf
<1>6. \A old, c : /\ RcMark(old, c)' = RcMark(old, c) /\ RcInval(old, c)' = RcInval(old, c)
                  /\ WrEnd(old)' = WrEnd(old)
  BY <1>1, Kept
<1>7. Cleaned' = Cleaned /\ FlImage' = FlImage
  BY <1>4 DEF Cleaned, FlImage
<1>8. \A c : Keeps(c, Work.data)' <=> Keeps(c, Work.data)
  BY <1>1, <1>4 DEF Keeps, AskedBut
<1>9. (Reclaimable' <=> Reclaimable) /\ (Unusable' <=> Unusable) /\ (Record' <=> Record)
  BY <1>1, <1>4 DEF Reclaimable, Unusable, Record
<1>10. Repairing => Repairing'
  BY <1>1, <1>4 DEF Repairing, RepairParts
<1>11. Booting => Booting'
  BY <1>1, <1>4 DEF Booting, AtI1, AtI2, AtI3, AtI4, AtI5, AtI6, AtI7, AtAgain
<1>12. \A b : Aborting(b) => Aborting(b)'
  BY <1>1, <1>4 DEF Aborting, AbortFits, AbortMark
<1>13. (AbortingNone => AbortingNone') /\ (NewAt => NewAt')
  BY <1>1, <1>4, <1>9 DEF AbortingNone, NewAt
<1>14. ASSUME NEW c, ReclaimAt(c) \/ Cleaning(c) \/ Marking(c) \/ PuttingBack(c)
       PROVE  ReclaimAt(c)' \/ Cleaning(c)' \/ Marking(c)' \/ PuttingBack(c)'
  <2>1. ReclaimAt(c) => ReclaimAt(c)'
    BY <1>1, <1>8, <1>9 DEF ReclaimAt
  <2>2. ASSUME Cleaning(c) PROVE Cleaning(c)'
    <3>1. PICK old \in Image : Storing("spare", Cleaned, RcMark(old, c)) \/ (todo = RcMark(old, c) /\ Spare = Cleaned)
      BY <2>2 DEF Cleaning
    <3>2. PICK g, m : g = Cleaned /\ m = RcMark(old, c)
      OBVIOUS
    <3>3. Storing("spare", g, m) => Storing("spare", g, m)'
      BY <1>5
    <3>4. Cleaned' = g /\ RcMark(old, c)' = m
      BY <1>6, <1>7, <3>2
    <3>5. Storing("spare", Cleaned, RcMark(old, c)) => Storing("spare", Cleaned, RcMark(old, c))'
      BY <3>2, <3>3, <3>4 DEF Storing
    <3> QED BY <2>2, <3>1, <3>2, <3>4, <3>5, <1>1, <1>4, <1>8, <1>9 DEF Cleaning
  <2>3. Marking(c) => Marking(c)'
    BY <1>1, <1>4, <1>6, <1>7, <1>8 DEF Marking
  <2>4. PuttingBack(c) => PuttingBack(c)'
    BY <1>4, <1>5, <1>8 DEF PuttingBack
  <2> QED BY <1>14, <2>1, <2>2, <2>3, <2>4
<1>15. ASSUME NEW s, FlushBegins(s) \/ FlushStores(s) \/ FlushEnds(s)
       PROVE  FlushBegins(s)' \/ FlushStores(s)' \/ FlushEnds(s)'
  <2>1. Flushes(s)'
    BY <1>1, <1>4, <1>15, FlushesSame DEF FlushBegins, FlushStores, FlushEnds
  <2>2. PICK g : g = FlImage
    OBVIOUS
  <2>3. FlImage' = g /\ FlMark(g, s)' = FlMark(g, s) /\ FlInval(g, s)' = FlInval(g, s)
    BY <1>1, <1>7, <2>2, Kept
  <2>4. FlMark(FlImage, s)' = FlMark(g, s) /\ FlInval(FlImage, s)' = FlInval(g, s)
    <3>1. FlMark(FlImage, s)' = FlMark(g, s)' /\ FlInval(FlImage, s)' = FlInval(g, s)'
      BY <2>3 DEF FlMark, FlInval, FlStore, StoreOf, EraseOf, WriteOf, Wrt
    <3> QED BY <3>1, <2>3
  <2>5. Mirrored => Mirrored'
    BY <1>4 DEF Mirrored
  <2>6. FlushBegins(s) => FlushBegins(s)'
    BY <1>1, <2>1, <2>2, <2>4, <2>5 DEF FlushBegins
  <2>7. Storing("working", FlImage, FlValid(s)) => Storing("working", FlImage, FlValid(s))'
    <3>1. Storing("working", g, FlValid(s)) => Storing("working", g, FlValid(s))'
      BY <1>5
    <3> QED BY <2>2, <2>3, <3>1 DEF Storing, FlValid
  <2>8. FlushStores(s) => FlushStores(s)'
    BY <1>1, <1>4, <2>1, <2>7 DEF FlushStores
  <2>9. FlushEnds(s) => FlushEnds(s)'
    BY <1>1, <1>4, <1>7, <2>1 DEF FlushEnds
  <2> QED BY <1>15, <2>6, <2>8, <2>9
<1>16. RecordAt => RecordAt'
  BY <1>1 DEF RecordAt, Record, Committed, Work, Spare, Last, Image, ImageOK, AreaOK, GoodLog, Lst,
     WrEnd, StoreOf, EraseOf, Storing
<1>17. (DestAt => DestAt') /\ (CompleteAt => CompleteAt')
  <2>1. ASSUME NEW old, NEW i, todo = WrDest(i, WrEnd(old)) \/ todo = WrComplete(i, WrEnd(old))
        PROVE  /\ todo = WrDest(i, WrEnd(old)) => todo' = WrDest(i, WrEnd(old))'
               /\ todo = WrComplete(i, WrEnd(old)) => todo' = WrComplete(i, WrEnd(old))'
    BY <1>1, <1>6 DEF WrDest, WrComplete
  <2> QED BY <1>1, <1>4, <1>9, <2>1 DEF DestAt, CompleteAt, WrDest, WrComplete
<1>18. (Restarting => Restarting') /\ (Restarted => Restarted')
  BY <1>1, <1>4, <1>9 DEF Restarting, Restarted, Erasing, EraseOf
<1>19. (Resting => Resting') /\ (Finishing => Finishing')
  BY <1>1, <1>4, <1>5 DEF Resting, Finishing
<1>20. ASSUME NEW t \in Targets, Writing(t) PROVE Writing(t)'
  <2>1. Allocating(t) => Allocating(t)'
    BY <1>1, <1>4, <1>8 DEF Allocating
  <2>2. Describing(t) => Describing(t)'
    BY <1>1, <1>4, <1>8 DEF Describing
  <2>3. ASSUME Preparing(t) PROVE Preparing(t)'
    BY <1>1, <1>4, <1>8, <2>3 DEF Preparing, WriteImage, WriteCommit, WrEnd, StoreOf, EraseOf, Storing
  <2> QED BY <1>20, <2>1, <2>2, <2>3 DEF Writing
<1>21. power = "off" /\ todo = <<>> => (power = "off" /\ todo = <<>>)'
  BY <1>1
<1>22. Point'
  BY <1>10, <1>11, <1>12, <1>13, <1>14, <1>15, <1>16, <1>17, <1>18, <1>19, <1>20, <1>21 DEF FtwInv, Point
<1> QED BY <1>4, <1>22 DEF FtwInv

\* Every step keeps the invariant: one lemma a point.
LEMMA FtwStep ==
    ASSUME FtwInv, [Next]_vars
    PROVE  FtwInv'
<1>1. CASE UNCHANGED vars
  BY <1>1, FtwStutter
<1>2. CASE Next
  <2>1. CASE power = "off" /\ todo = <<>>
    BY <1>2, <2>1, PointOff
  <2>2. CASE Repairing
    BY <1>2, <2>2, PointRepairing
  <2>3. CASE Booting
    BY <1>2, <2>3, PointI1, PointI2, PointI3, PointI4, PointI5, PointI6, PointI7, PointAgain DEF Booting
  <2>4. ASSUME NEW b \in AbortConts, Aborting(b) PROVE FtwInv'
    BY <1>2, <2>4, PointAbort
  <2>5. CASE AbortingNone
    BY <1>2, <2>5, PointAbortNone
  <2>6. CASE NewAt
    BY <1>2, <2>6, PointNew
  <2>7. ASSUME NEW c \in ReclaimConts, ReclaimAt(c) \/ Cleaning(c) \/ Marking(c) \/ PuttingBack(c)
        PROVE  FtwInv'
    BY <1>2, <2>7, PointReclaim, PointCleaning, PointMarking, PointPutBack
  <2>8. ASSUME NEW k, FlushBegins(k) \/ FlushStores(k) \/ FlushEnds(k) PROVE FtwInv'
    BY <1>2, <2>8, PointFlushBegins, PointFlushStores, PointFlushEnds
  <2>9. CASE RecordAt \/ DestAt \/ CompleteAt
    BY <1>2, <2>9, PointRecord, PointDest, PointComplete
  <2>10. CASE Restarting \/ Restarted
    BY <1>2, <2>10, PointRestarting, PointRestarted
  <2>11. CASE Resting \/ Finishing
    BY <1>2, <2>11, PointResting, PointFinishing
  <2>12. ASSUME NEW t \in Targets, Writing(t) PROVE FtwInv'
    BY <1>2, <2>12, PointAllocating, PointDescribing, PointPreparing DEF Writing
  <2> QED BY <2>1, <2>2, <2>3, <2>4, <2>5, <2>6, <2>7, <2>8, <2>9, <2>10, <2>11, <2>12 DEF FtwInv, Point
<1> QED BY <1>1, <1>2

\* A new board.
LEMMA FtwInit ==
    ASSUME Init
    PROVE  FtwInv
<1>1. Types
  <2>1. asked \in [Targets -> Images]
    BY BoundsAssumption DEF Init, Images
  <2>2. writes \in 0 .. MaxWrites /\ cuts \in 0 .. MaxCuts
    BY BoundsAssumption DEF Init
  <2> QED BY <2>1, <2>2 DEF Init, Types
<1>2. 0 \in Images /\ Lost \in Images /\ {} \in SUBSET HeaderBits /\ {"sig", "valid"} \in SUBSET HeaderBits
  BY BoundsAssumption DEF Images, Lost, HeaderBits
<1>3. /\ Erased = Area(Lost, {}, <<>>)
      /\ [Erased EXCEPT !.data = 0] = Area(0, {}, <<>>)
      /\ ImageOK(Erased)
  BY <1>1, EmptyForms
<1>4. [Erased EXCEPT !.data = 0, !.hdr = {"sig", "valid"}] = Area(0, {"sig", "valid"}, <<>>)
  <2> DEFINE x == [Erased EXCEPT !.data = 0]
             y == [x EXCEPT !.hdr = {"sig", "valid"}]
  <2>1. AreaOK(Area(0, {}, <<>>))
    BY <1>1, <1>2, EmptyForms
  <2>2. y = Area(x.data, {"sig", "valid"}, x.log)
    BY <1>1, <1>3, <2>1, Forms
  <2> HIDE DEF x
  <2>3. y = Area(0, {"sig", "valid"}, <<>>)
    BY <2>2, <1>3, AreaFields DEF x
  <2>4. [Erased EXCEPT !.data = 0, !.hdr = {"sig", "valid"}] = y
    BY DEF x, Erased
  <2> QED BY <2>3, <2>4
<1>5. Work \in {Area(Lost, {}, <<>>), Area(0, {}, <<>>), Area(0, {"sig", "valid"}, <<>>)}
  BY <1>3, <1>4 DEF Init, Work, Areas
<1>6. Spare = Erased /\ Other = Area(0, {}, <<>>)
  BY <1>3 DEF Init, Spare, Other
<1>7. \A d \in Images, h \in SUBSET HeaderBits :
        AreaOK(Area(d, h, <<>>)) /\ Lst(Area(d, h, <<>>)) = {} /\ Area(d, h, <<>>).log = <<>>
  BY <1>1, EmptyForms, AreaFields
<1>8. AreaOK(Work) /\ Lst(Work) = {} /\ Work.log = <<>>
  BY <1>2, <1>5, <1>7
<1>9. AreaOK(Other) /\ ImageOK(Spare)
  BY <1>2, <1>3, <1>6, <1>7
<1>10. FlashOK
  BY <1>8, <1>9 DEF FlashOK, AllFit, Fits, CommittedIn
<1> QED BY <1>1, <1>10 DEF FtwInv, Point, Init

\* The flash is well formed and the driver at one of the points of InitFtwProtocol(),
\* FtwWrite() and the functions they call, in every state of every behaviour, wherever the
\* power failed.
THEOREM FtwInvariant == Spec => []FtwInv
<1>1. Init => FtwInv
  BY FtwInit
<1>2. FtwInv /\ [Next]_vars => FtwInv'
  BY FtwStep
<1> QED BY <1>1, <1>2, PTL DEF Spec

\* Whatever erase, write or mark of the driver was cut short, the areas hold contents the
\* driver can write, and the log of write headers stays within the work space.
THEOREM FtwTypes == Spec => []TypeOK
<1>1. FtwInv => TypeOK
  <2> SUFFICES ASSUME FtwInv PROVE TypeOK
    OBVIOUS
  <2>1. Types /\ FlashOK
    BY DEF FtwInv
  <2>2. AreaOK(Work) /\ AreaOK(Spare) /\ AreaOK(Other)
    BY <2>1, FlashFacts
  <2>3. \A a \in Areas : AreaOK(flash[a])
    BY <2>2 DEF Areas, Work, Spare, Other
  <2>4. DOMAIN flash = Areas
    BY <2>1 DEF Types
  <2> QED BY <2>1, <2>3, <2>4 DEF TypeOK, Types, AreaOK, GoodLog
<1> QED BY <1>1, FtwInvariant, PTL

\* A driver that stores an image has something to do.
LEMMA StoringBusy ==
    ASSUME NEW a, NEW g, NEW k, IsTodo(k), Storing(a, g, k)
    PROVE  todo # <<>>
<1>1. \A x, s : IsTodo(s) => IsTodo(Do(x, s)) /\ Do(x, s) # <<>>
  BY DoSeq
<1>2. IsTodo(WriteOf(a, g, k)) /\ WriteOf(a, g, k) # <<>>
  BY <1>1 DEF WriteOf
<1>3. StoreOf(a, g, k) # <<>>
  BY <1>1, <1>2 DEF StoreOf, EraseOf
<1> QED BY <1>1, <1>2, <1>3 DEF Storing

\* With the services open the driver has nothing to do between two writes only.
LEMMA IdleRests ==
    ASSUME FtwInv, Idle
    PROVE  Resting
<1>1. power = "ready" /\ todo = <<>> /\ Types /\ FlashOK /\ IsTodo(<<>>)
  BY EmptyTodo DEF FtwInv, Idle
<1>2. \A x, s : IsTodo(s) => IsTodo(Do(x, s)) /\ Do(x, s) # <<>>
  BY DoSeq
<1>3. \A c : IsTodo(Cont(c))
  BY ContTodos
<1>4. \A old, c : IsTodo(RcMark(old, c)) /\ IsTodo(RcInval(old, c)) /\ IsTodo(RcFlush(old, c))
  BY RcTodos
<1>5. \A old, c : RcMark(old, c) # <<>> /\ RcInval(old, c) # <<>>
  BY <1>2, <1>4 DEF RcMark, RcInval
<1>6. ASSUME NEW c \in ReclaimConts PROVE ~(ReclaimAt(c) \/ Cleaning(c) \/ Marking(c) \/ PuttingBack(c))
  <2>1. ~ReclaimAt(c)
    BY <1>1, <1>2, <1>3 DEF ReclaimAt
  <2>2. ~Cleaning(c)
    BY <1>1, <1>4, <1>5, StoringBusy DEF Cleaning
  <2>3. ~Marking(c)
    BY <1>1, <1>5 DEF Marking
  <2>4. ~PuttingBack(c)
    BY <1>1, <1>3, StoringBusy DEF PuttingBack
  <2> QED BY <2>1, <2>2, <2>3, <2>4
<1>7. ASSUME NEW k PROVE ~(FlushBegins(k) \/ FlushStores(k) \/ FlushEnds(k))
  <2> SUFFICES ASSUME Flushes(k) PROVE ~(FlushBegins(k) \/ FlushStores(k) \/ FlushEnds(k))
    BY DEF FlushBegins, FlushStores, FlushEnds
  <2>1. IsTodo(k)
    BY FlushTodo
  <2>2. \A g : IsTodo(FlValid(k)) /\ IsTodo(FlStore(g, k)) /\ IsTodo(FlInval(g, k))
    BY <2>1, Todos
  <2>3. \A g : FlMark(g, k) # <<>> /\ FlInval(g, k) # <<>> /\ FlValid(k) # <<>>
    BY <1>2, <2>1, <2>2 DEF FlMark, FlInval, FlValid
  <2>4. ~FlushBegins(k)
    BY <1>1, <1>2, <2>1, <2>3 DEF FlushBegins
  <2>5. ~FlushStores(k)
    BY <1>1, <2>2, StoringBusy DEF FlushStores
  <2> QED BY <1>1, <2>3, <2>4, <2>5 DEF FlushEnds
<1>8. ~(RecordAt \/ DestAt \/ CompleteAt)
  <2>1. \A old : IsTodo(WrEnd(old))
    BY ContTodos
  <2>2. \A i, old : IsTodo(WrDest(i, WrEnd(old))) /\ IsTodo(WrComplete(i, WrEnd(old)))
    BY <2>1, Todos
  <2>3. \A i, old : WrDest(i, WrEnd(old)) # <<>> /\ WrComplete(i, WrEnd(old)) # <<>>
    BY <1>2, <2>1, <2>2 DEF WrDest, WrComplete
  <2>4. ~RecordAt
    BY <1>1, <1>2, <2>1, <2>2, StoringBusy DEF RecordAt
  <2> QED BY <1>1, <2>3, <2>4 DEF DestAt, CompleteAt
<1>9. ASSUME NEW t \in Targets PROVE ~Writing(t)
  <2>1. /\ IsTodo(AppendK(t)) /\ IsTodo(Do(FnOf("Describe", t), <<>>))
        /\ IsTodo(Do(FnOf("Store", t), <<>>)) /\ \A old : IsTodo(WrEnd(old))
    BY ContTodos
  <2>2. ~Allocating(t)
    BY <1>1, <1>2, <2>1 DEF Allocating, AppendK
  <2>3. ~Describing(t)
    BY <1>1, <1>2, <2>1 DEF Describing
  <2>4. \A i, old : IsTodo(WriteCommit(i, old)) /\ WriteCommit(i, old) # <<>>
    BY <1>2, <2>1 DEF WriteCommit
  <2>5. ~Preparing(t)
    BY <1>1, <1>2, <2>4, StoringBusy DEF Preparing
  <2> QED BY <2>2, <2>3, <2>5 DEF Writing
<1>10. ~Finishing
  BY <1>1, StoringBusy DEF Finishing
<1>11. power = "boot" => FALSE
  BY <1>1
<1> QED BY <1>1, <1>6, <1>7, <1>8, <1>9, <1>10 DEF FtwInv, Point, Repairing, Booting, Aborting,
        AbortFits, AbortingNone, NewAt, Restarting, Restarted

\* When the services are open and idle the work space is valid, no write is half done in
\* its log, and every target holds what its last successful write asked for.
THEOREM FtwSettled == Spec => []SettledWhenIdle
<1>1. FtwInv => SettledWhenIdle
  <2> SUFFICES ASSUME FtwInv, Idle
               PROVE  /\ IsValidWorkSpace("working") /\ Last = {}
                      /\ \A t \in Targets : flash[t].data = asked[t]
    BY DEF SettledWhenIdle
  <2>1. Resting /\ FlashOK
    BY IdleRests DEF FtwInv
  <2>2. Valid(Work) /\ Last = {}
    BY <2>1, FlashFacts DEF Resting, Clean, CleanIn
  <2>3. \A t \in Targets : flash[t].data = asked[t]
    BY <2>1 DEF Resting, AskedAll
  <2> QED BY <2>2, <2>3 DEF IsValidWorkSpace, Valid, Work
<1> QED BY <1>1, FtwInvariant, PTL

-----------------------------------------------------------------------------
(***************************************************************************)
(* The atomic store.                                                       *)
(***************************************************************************)
\* The log of a part that erases 4 KB at a time has room for every write: it is never
\* reclaimed.  (A power failure in a reclaim on such a part does lose the content: the
\* log is still full when the data are gone.)
RoomyLogs == \A p \in Parts : p.sector = "4K" => p.cap > MaxWrites

\* What the next start-up makes of the working block and of the other volume.
RecW(w, s) ==
    IF Full(w.log) THEN w.data
    ELSE IF Valid(w) THEN IF CommittedIn(w) /\ "working" \in Lst(w) THEN s.data ELSE w.data
    ELSE IF Valid(s) THEN s.data ELSE w.data
RecO(w, s, o) == IF CommittedIn(w) /\ "other" \in Lst(w) THEN s.data ELSE o.data

\* The value of the store.
Val == [t \in Targets |-> Recovered(t)]

\* Neither target is lost.
NoLoss == \A t \in Targets : Recovered(t) # Lost

\* The steps of the store, over what start-up makes of the flash.
Still     == /\ asked' = asked /\ RecW(Work', Spare') = RecW(Work, Spare)
             /\ RecO(Work', Spare', Other') = RecO(Work, Spare, Other)
Commits(t) == /\ asked' = asked
              /\ RecW(Work', Spare') = IF t = "working" THEN asked[t] ELSE RecW(Work, Spare)
              /\ RecO(Work', Spare', Other') = IF t = "other" THEN asked[t] ELSE RecO(Work, Spare, Other)
              /\ asked[t] # Lost

\* The step changes area a only, to y.
Touch(a, y) == flash' = [flash EXCEPT ![a] = y] /\ asked' = asked

\* What start-up makes of a target depends on the areas alone: RecW and RecO.
LEMMA RecoveredIs ==
    ASSUME Types, FlashOK
    PROVE  Recovered("working") = RecW(Work, Spare) /\ Recovered("other") = RecO(Work, Spare, Other)
<1>1. "complete" \notin Last
  <2>1. WellLogged(Work.log) /\ Last = Lst(Work)
    BY FlashFacts
  <2>2. Last # {} => Open(Work.log) /\ Last = Work.log[Len(Work.log)]
    BY LastShape
  <2> QED BY <2>2 DEF Open
<1>2. Last = Lst(Work)
  BY FlashFacts
<1>3. \A t : {"spare", t} \subseteq Last /\ Last \cap {"dest", "complete"} = {}
             <=> "spare" \in Last /\ t \in Last /\ "dest" \notin Last
  BY <1>1
<1>4. /\ IsValidWorkSpace("working") <=> Valid(Work)
      /\ IsValidWorkSpace("spare") <=> Valid(Spare)
  BY DEF IsValidWorkSpace, Valid, Work, Spare
<1>5. Recovered("other") = RecO(Work, Spare, Other)
  BY <1>2, <1>3, <1>4 DEF Recovered, RecO, CommittedIn, Spare, Other
<1>6. Recovered("working") = RecW(Work, Spare)
  BY <1>2, <1>3, <1>4 DEF Recovered, RecW, CommittedIn, Work, Spare
<1> QED BY <1>5, <1>6

\* The areas after a step that touches one of them.
LEMMA Touched ==
    ASSUME Types, NEW a \in Areas, NEW y, Touch(a, y)
    PROVE  /\ asked' = asked
           /\ a = "working" => Work' = y /\ Spare' = Spare /\ Other' = Other
           /\ a = "spare" => Work' = Work /\ Spare' = y /\ Other' = Other
           /\ a = "other" => Work' = Work /\ Spare' = Spare /\ Other' = y
  BY DEF Touch, Types, Areas, Work, Spare, Other

\* Steps that do not touch the flash.
LEMMA StillCut ==
    ASSUME Cut \/ (\E k : Goes(k))
    PROVE  Still
<1>1. asked' = asked /\ flash' = flash
  BY DEF Cut, Off, Goes
<1>2. Work' = Work /\ Spare' = Spare /\ Other' = Other
  BY <1>1 DEF Work, Spare, Other
<1> QED BY <1>1, <1>2 DEF Still

\* Steps that touch an area.
LEMMA TouchOf ==
    ASSUME NEW a, NEW y
    PROVE  (CutAt(a, y) => Touch(a, y)) /\ \A k : Becomes(a, y, k) => Touch(a, y)
  BY DEF CutAt, Off, Becomes, Touch

\* A call that is not the last of InitFtwProtocol().
LEMMA CallStill ==
    ASSUME Types, power # "off", Next, NEW x, NEW k, IsTodo(k), todo = Do(x, k),
           x.do = "call", x.fn # "Hook"
    PROVE  Still
<1>1. Cut \/ (Functions /\ Head(todo) = x)
  BY CallStep
<1>2. Functions /\ Head(todo) = x => asked' = asked /\ flash' = flash
  BY DEF Functions, Enter, FlushSpareBlockToWorkingBlock,
     FlushSpareBlockToTargetBlock, FtwReclaimWorkSpace, FtwReclaimNewWorkSpace,
     WorkSpaceRefresh, TrySpareBlock, AbortUnready, AbortDone, CheckTail, RestartLast,
     HookProtocol, FtwAbort, FtwWriteRecord, FtwRestart, FtwWriteDescribe, FtwWriteStore
<1>3. asked' = asked /\ flash' = flash => Still
  BY DEF Still, Work, Spare, Other
<1> QED BY <1>1, <1>2, <1>3, StillCut

\* The functions of the driver but HookProtocol().
LEMMA FnStill ==
    ASSUME Types, power # "off", Next, NEW k, IsTodo(k), NEW f, f # "Hook",
           todo = Do(Fn(f), k) \/ (\E t : todo = Do(FnOf(f, t), k))
    PROVE  Still
<1>1. CASE todo = Do(Fn(f), k)
  <2> DEFINE x == Fn(f)
  <2>1. x.do = "call" /\ x.fn = f
    BY DEF Fn
  <2> HIDE DEF x
  <2>2. todo = Do(x, k)
    BY <1>1 DEF x
  <2> QED BY <2>1, <2>2, CallStill
<1>2. ASSUME NEW t, todo = Do(FnOf(f, t), k) PROVE Still
  <2> DEFINE x == FnOf(f, t)
  <2>1. x.do = "call" /\ x.fn = f
    BY DEF FnOf
  <2> HIDE DEF x
  <2>2. todo = Do(x, k)
    BY <1>2 DEF x
  <2> QED BY <2>1, <2>2, CallStill
<1> QED BY <1>1, <1>2

\* The spare block is not what start-up would use.
LEMMA SpareStill ==
    ASSUME Types, ~Committed, Valid(Work) \/ Full(Work.log), NEW y, Touch("spare", y)
    PROVE  Still
<1>1. asked' = asked /\ Work' = Work /\ Other' = Other /\ Spare' = y
  BY Touched DEF Areas
<1> QED BY <1>1 DEF Still, RecW, RecO, Committed

\* A mark in the log that commits nothing.
LEMMA WorkStill ==
    ASSUME Types, ~Committed, Valid(Work), NEW y, Touch("working", y),
           ~CommittedIn(y), y.data = Work.data, y.hdr = Work.hdr
    PROVE  Still
<1>1. asked' = asked /\ Work' = y /\ Other' = Other /\ Spare' = Spare
  BY Touched DEF Areas
<1>2. RecW(Work, Spare) = Work.data /\ RecW(y, Spare) = Work.data
  BY DEF RecW, Valid, Committed
<1>3. RecO(Work, Spare, Other) = Other.data /\ RecO(y, Spare, Other) = Other.data
  BY DEF RecO, Committed
<1> QED BY <1>1, <1>2, <1>3 DEF Still

\* Storing an image in an area.
LEMMA StoringTouch ==
    ASSUME FtwInv, Next, power # "off", NEW a \in Areas, NEW g, NEW k, IsTodo(k),
           Storing(a, g, k), AreaOK(g)
    PROVE  \/ Still
           \/ \E y \in Partial(flash[a], g) \cup {g, Area(g.data, g.hdr, <<>>)} : Touch(a, y)
<1>1. Types /\ FlashOK /\ AreaOK(flash[a])
  BY FlashFacts DEF FtwInv, Areas, Work, Spare, Other
<1>2. \/ Cut
      \/ CutAt(a, Area(g.data, g.hdr, <<>>))
      \/ Becomes(a, g, k)
      \/ \E y \in Partial(flash[a], g) :
           CutAt(a, y) \/ (\E t : Becomes(a, y, t) /\ Storing(a, g, k)')
  BY <1>1, StoringStep
<1> QED BY <1>2, StillCut, TouchOf

\* What start-up would do changes nothing that it has not done yet.
LEMMA StillBooting ==
    ASSUME FtwInv, Next, Booting, ~AtI7
    PROVE  Still
<1>1. Types /\ power # "off"
  BY DEF FtwInv, Booting
<1>2. IsTodo(I2) /\ IsTodo(I3) /\ IsTodo(I4) /\ IsTodo(I5) /\ IsTodo(I6) /\ IsTodo(I7)
  BY ContTodos
<1>3. PICK f \in {"Refresh", "TrySpare", "AbortUnready", "AbortDone", "CheckTail", "RestartLast"},
           k \in {I2, I3, I4, I5, I6, I7} : todo = Do(Fn(f), k)
  BY DEF Booting, AtI1, AtI2, AtI3, AtI4, AtI5, AtI6, AtAgain, I1, I2, I3, I4, I5, I6
<1>4. IsTodo(k) /\ f # "Hook"
  BY <1>2
<1> QED BY <1>1, <1>3, <1>4, FnStill

\* A new work space, a reclaim, a restart and an abort of nothing begin with calls.
LEMMA StillCalls ==
    ASSUME FtwInv, Next, AbortingNone \/ NewAt \/ Restarting \/ (\E c \in ReclaimConts : ReclaimAt(c))
    PROVE  Still
<1>1. Types /\ power # "off"
  BY DEF FtwInv, AbortingNone, NewAt, Restarting, ReclaimAt, Keeps
<1>2. /\ IsTodo(I7) /\ IsTodo(I3) /\ IsTodo(AbortHook) /\ \A c : IsTodo(Cont(c))
      /\ IsTodo(Do(Fn("WriteRecord"), EraseOf("spare", AbortHook)))
  BY ContTodos, Todos, DoSeq
<1>3. CASE AbortingNone
  BY <1>1, <1>2, <1>3, FnStill DEF AbortingNone, AbortHook
<1>4. CASE NewAt
  BY <1>1, <1>2, <1>4, FnStill DEF NewAt
<1>5. CASE Restarting
  BY <1>1, <1>2, <1>5, FnStill DEF Restarting
<1>6. ASSUME NEW c, ReclaimAt(c) PROVE Still
  BY <1>1, <1>2, <1>6, FnStill DEF ReclaimAt
<1> QED BY <1>3, <1>4, <1>5, <1>6

\* FtwAbort() gives up nothing that start-up would finish.
LEMMA StillAborting ==
    ASSUME FtwInv, Next, NEW b \in AbortConts, Aborting(b)
    PROVE  Still
<1>1. /\ Types /\ FlashOK /\ power # "off" /\ Valid(Work) /\ AbortFits(b) /\ IsTodo(Cont(b))
      /\ AreaOK(Work) /\ Last = Lst(Work) /\ flash["working"] = Work /\ "working" \in Areas
  BY ContTodos, FlashFacts DEF FtwInv, Aborting, AbortFits, Work, Areas
<1>2. IsTodo(AbortMark(b))
  BY <1>1, DoSeq DEF AbortMark
<1>3. CASE \E k \in {Cont(b), AbortMark(b)}, f \in {"Abort", "Refresh"} : todo = Do(Fn(f), k)
  <2>1. PICK k \in {Cont(b), AbortMark(b)}, f \in {"Abort", "Refresh"} : todo = Do(Fn(f), k)
    BY <1>3
  <2>2. IsTodo(k) /\ f # "Hook"
    BY <1>1, <1>2
  <2> QED BY <1>1, <2>1, <2>2, FnStill
<1>4. CASE Last # {} /\ todo = AbortMark(b)
  <2>1. PICK n, B : n = Len(Work.log) /\ B = {"complete"}
    OBVIOUS
  <2> DEFINE y == WithBits(Work, n, B)
  <2>2. Cut \/ Becomes("working", y, Cont(b))
    BY <1>1, <1>4, <2>1, RecordStep DEF AbortMark
  <2>3. B \in SUBSET (EntryBits \ {"torn"}) /\ "spare" \notin B /\ "complete" \in B
    BY <2>1 DEF EntryBits
  <2>4. Lst(y) = {} /\ y.data = Work.data /\ y.hdr = Work.hdr
    BY <1>1, <1>4, <2>1, <2>3, BitsForm
  <2> HIDE DEF y
  <2>5. ~CommittedIn(y) /\ Valid(y)
    BY <1>1, <2>4 DEF CommittedIn, Valid
  <2>6. CASE ~Committed
    <3>1. Touch("working", y) => Still
      BY <1>1, <2>4, <2>5, <2>6, WorkStill
    <3> QED BY <2>2, <3>1, StillCut, TouchOf
  <2>7. CASE Committed
    <3>1. "other" \notin Lst(Work) /\ Work.data = Spare.data
      BY <1>1, <2>7 DEF AbortFits
    <3>2. RecW(Work, Spare) = Work.data /\ RecW(y, Spare) = Work.data
      BY <1>1, <2>4, <2>5, <3>1 DEF RecW
    <3>3. RecO(Work, Spare, Other) = Other.data /\ RecO(y, Spare, Other) = Other.data
      BY <2>5, <3>1 DEF RecO
    <3>4. Touch("working", y) => Still
      BY <1>1, <3>2, <3>3, Touched DEF Still
    <3> QED BY <2>2, <3>4, StillCut, TouchOf
  <2> QED BY <2>6, <2>7
<1> QED BY <1>3, <1>4 DEF Aborting

\* The spare block stores something while start-up would not use it.
LEMMA StillStoring ==
    ASSUME FtwInv, Next, power # "off", ~Committed, Valid(Work) \/ Full(Work.log),
           NEW g, AreaOK(g), NEW k, IsTodo(k), Storing("spare", g, k)
    PROVE  Still
<1>1. "spare" \in Areas /\ Types
  BY DEF Areas, FtwInv
<1>2. Still \/ \E y : Touch("spare", y)
  BY <1>1, StoringTouch
<1> QED BY <1>1, <1>2, SpareStill

\* The cleaned working block goes to the spare block.
LEMMA StillCleaning ==
    ASSUME FtwInv, Next, NEW c \in ReclaimConts, Cleaning(c)
    PROVE  Still
<1>1. /\ Types /\ FlashOK /\ power # "off" /\ (Reclaimable \/ Unusable)
      /\ AreaOK(Work) /\ AreaOK(Spare) /\ Last = Lst(Work) /\ flash["spare"] = Spare /\ "spare" \in Areas
  BY FlashFacts DEF FtwInv, Cleaning, Keeps, Spare, Areas
<1>2. ~Committed
  BY <1>1 DEF Committed, CommittedIn, Reclaimable, Unusable
<1>3. PICK old \in Image : Storing("spare", Cleaned, RcMark(old, c)) \/ (todo = RcMark(old, c) /\ Spare = Cleaned)
  BY DEF Cleaning
<1>4. PICK g, k : g = Cleaned /\ k = RcMark(old, c)
  OBVIOUS
<1>5. g = Area(Work.data, {"sig"}, <<>>) /\ AreaOK(g)
  <2>1. Work.data \in Images /\ {"sig"} \in SUBSET HeaderBits
    BY <1>1, Forms DEF HeaderBits
  <2> QED BY <1>1, <1>4, <2>1, EmptyForms DEF Cleaned, Area
<1>6. IsTodo(k) /\ IsTodo(RcInval(old, c))
  BY <1>4, RcTodos
<1>7. CASE Storing("spare", g, k)
  <2>1. CASE Reclaimable
    BY <1>1, <1>2, <1>5, <1>6, <1>7, <2>1, StillStoring DEF Reclaimable
  <2>2. CASE Unusable
    <3>1. Still \/ \E y \in Partial(Spare, g) \cup {g, Area(g.data, g.hdr, <<>>)} : Touch("spare", y)
      BY <1>1, <1>5, <1>6, <1>7, StoringTouch
    <3>2. ~Valid(g) /\ ~Valid(Area(g.data, g.hdr, <<>>))
      <4>1. g.hdr = {"sig"} /\ Area(g.data, g.hdr, <<>>).hdr = g.hdr
        BY <1>5, AreaFields
      <4>2. {"sig"} # {"sig", "valid"}
        OBVIOUS
      <4> QED BY <4>1, <4>2 DEF Valid
    <3>3. ASSUME NEW y \in Partial(Spare, g) PROVE ~Valid(y)
      <4>1. ~Valid(Erased) /\ ~Valid(Area(g.data, {}, <<>>))
        BY AreaFields DEF Valid, Erased
      <4>2. ~Valid(Area(Lost, Spare.hdr, Spare.log))
        BY <2>2, AreaFields DEF Valid, Unusable
      <4> QED BY <4>1, <4>2, <3>3 DEF Partial
    <3>4. ASSUME NEW y, Touch("spare", y), ~Valid(y) PROVE Still
      <4>1. asked' = asked /\ Work' = Work /\ Other' = Other /\ Spare' = y
        BY <1>1, <3>4, Touched
      <4> QED BY <1>2, <2>2, <3>4, <4>1 DEF Still, RecW, RecO, Committed, Unusable
    <3> QED BY <3>1, <3>2, <3>3, <3>4
  <2> QED BY <1>1, <2>1, <2>2
<1>8. CASE todo = k /\ Spare = g
  <2> DEFINE y == [Spare EXCEPT !.hdr = @ \cup {"valid"}]
  <2>1. todo = Do(Hdr("spare", "valid"), RcInval(old, c))
    BY <1>4, <1>8 DEF RcMark
  <2>2. Cut \/ Becomes("spare", y, RcInval(old, c))
    BY <1>1, <1>6, <2>1, HeaderStep
  <2>3. y.data = Work.data
    <3>1. Spare.data = Work.data
      BY <1>8, <1>5, AreaFields
    <3>2. y = Area(Spare.data, Spare.hdr \cup {"valid"}, Spare.log)
      BY <1>1, Forms
    <3> QED BY <3>1, <3>2, AreaFields
  <2> HIDE DEF y
  <2>4. ASSUME Touch("spare", y) PROVE Still
    <3>1. asked' = asked /\ Work' = Work /\ Other' = Other /\ Spare' = y
      BY <1>1, <2>4, Touched
    <3>2. Spare.data = Work.data
      BY <1>8, <1>5, AreaFields
    <3> QED BY <1>2, <2>3, <3>1, <3>2 DEF Still, RecW, RecO, Committed
  <2> QED BY <2>2, <2>4, StillCut, TouchOf
<1> QED BY <1>3, <1>4, <1>7, <1>8

\* The working block is marked invalid with its image in the spare block.
LEMMA StillMarking ==
    ASSUME FtwInv, Next, NEW c \in ReclaimConts, Marking(c)
    PROVE  Still
<1>1. /\ Types /\ FlashOK /\ power # "off" /\ (Valid(Work) => Last = {})
      /\ AreaOK(Work) /\ Last = Lst(Work) /\ flash["working"] = Work /\ "working" \in Areas
  BY FlashFacts DEF FtwInv, Marking, Keeps, Work, Areas
<1>2. PICK old \in Image : todo = RcInval(old, c) /\ Spare = [Cleaned EXCEPT !.hdr = {"sig", "valid"}]
  BY DEF Marking
<1>3. Valid(Spare) /\ Spare.data = Work.data
  BY <1>2 DEF Cleaned, Valid
<1> DEFINE y == [Work EXCEPT !.hdr = @ \cup {"invalid"}]
<1>4. Cut \/ Becomes("working", y, RcFlush(old, c))
  <2>1. IsTodo(RcFlush(old, c)) /\ todo = Do(Hdr("working", "invalid"), RcFlush(old, c))
    BY <1>2, RcTodos DEF RcInval
  <2> QED BY <1>1, <2>1, HeaderStep
<1>5. y = Area(Work.data, Work.hdr \cup {"invalid"}, Work.log)
  BY <1>1, Forms
<1> HIDE DEF y
<1>6. y.data = Work.data /\ y.log = Work.log /\ ~Valid(y)
  <2>1. y.data = Work.data /\ y.hdr = Work.hdr \cup {"invalid"} /\ y.log = Work.log
    BY <1>5, AreaFields
  <2> QED BY <2>1 DEF Valid
<1>7. ~Committed /\ ~CommittedIn(y)
  BY <1>1, <1>6 DEF Committed, CommittedIn
<1>8. RecW(Work, Spare) = Work.data /\ RecW(y, Spare) = Work.data
  BY <1>3, <1>6, <1>7 DEF RecW, Committed
<1>9. RecO(Work, Spare, Other) = Other.data /\ RecO(y, Spare, Other) = Other.data
  BY <1>7 DEF RecO, Committed
<1>10. Touch("working", y) => Still
  BY <1>1, <1>8, <1>9, Touched DEF Still
<1> QED BY <1>4, <1>10, StillCut, TouchOf

\* The spare block gets its content back, after a reclaim and after a write, and is erased
\* after a restart.
LEMMA StillSpare ==
    ASSUME FtwInv, Next, (\E c \in ReclaimConts : PuttingBack(c)) \/ Finishing \/ Restarted
    PROVE  Still
<1>1. /\ Types /\ FlashOK /\ IsTodo(<<>>) /\ Last = Lst(Work) /\ "spare" \in Areas
      /\ flash["spare"] = Spare /\ (\A c : IsTodo(Cont(c))) /\ IsTodo(AbortHook)
  BY EmptyTodo, ContTodos, FlashFacts DEF FtwInv, Areas, Spare
<1>2. \A old \in Image : AreaOK(old)
  BY DEF Image, ImageOK
<1>3. Clean => Valid(Work) /\ ~Committed
  BY DEF Clean, CleanIn, Committed, CommittedIn
<1>4. ASSUME NEW c, PuttingBack(c) PROVE Still
  <2>1. power # "off" /\ Valid(Work) /\ Lst(Work) = {}
    BY <1>4, LogEmpty DEF PuttingBack, Keeps, Lst
  <2>2. ~Committed
    BY <2>1 DEF Committed, CommittedIn
  <2>3. PICK old \in Image : Storing("spare", old, Cont(c))
    BY <1>4 DEF PuttingBack
  <2> QED BY <1>1, <1>2, <2>1, <2>2, <2>3, StillStoring
<1>5. CASE Finishing
  <2>1. power # "off" /\ Valid(Work) /\ ~Committed
    BY <1>3, <1>5 DEF Finishing
  <2>2. PICK old \in Image : Storing("spare", old, <<>>)
    BY <1>5 DEF Finishing
  <2> QED BY <1>1, <1>2, <2>1, <2>2, StillStoring
<1>6. CASE Restarted
  <2>1. power # "off" /\ Valid(Work) /\ ~Committed
    BY <1>3, <1>6 DEF Restarted
  <2>2. PICK w : w = Do(Erase("spare", {"ws"}), AbortHook)
    OBVIOUS
  <2>3. IsTodo(w)
    BY <1>1, <2>2, DoSeq
  <2>4. PICK p, k : k \in {w, AbortHook} /\ todo = Do(Erase("spare", p), k)
    <3>1. Erasing("spare", AbortHook)
      BY <1>6 DEF Restarted
    <3>2. \/ todo = Do(Erase("spare", {"data"}), w)
          \/ todo = Do(Erase("spare", {"data", "ws"}), AbortHook)
          \/ todo = Do(Erase("spare", {"ws"}), AbortHook)
      BY <2>2, <3>1 DEF Erasing, EraseOf
    <3> QED BY <3>2
  <2>5. IsTodo(k)
    BY <1>1, <2>3, <2>4
  <2>6. PICK y : y = ErasedIn(Spare, p)
    OBVIOUS
  <2>7. Cut \/ CutAt("spare", y) \/ Becomes("spare", y, k)
    BY <1>1, <2>1, <2>4, <2>5, <2>6, EraseStep
  <2>8. Touch("spare", y) => Still
    BY <1>1, <2>1, SpareStill
  <2> QED BY <2>7, <2>8, StillCut, TouchOf
<1> QED BY <1>4, <1>5, <1>6

\* On a part that erases 4 KB at a time no log is full.
LEMMA RoomyNotFull ==
    ASSUME RoomyLogs, Types, NEW log, GoodLog(log), part.sector = "4K"
    PROVE  ~Full(log)
<1>1. part.cap > MaxWrites /\ part.cap \in Nat /\ writes <= MaxWrites /\ writes \in Nat
  BY PartsAssumption, BoundsAssumption DEF RoomyLogs, Types
<1>2. Len(log) <= writes /\ Len(log) \in Nat
  BY LogShape DEF GoodLog
<1>3. Len(log) # part.cap
  BY <1>1, <1>2, BoundsAssumption
<1> QED BY <1>3, FullShape

\* The working block is on its way to the spare block's image: start-up finds that.
LEMMA StillFlushed ==
    ASSUME Types, Valid(Spare), RecW(Work, Spare) = Spare.data, RecO(Work, Spare, Other) = Other.data,
           NEW y, Touch("working", y), Full(y.log) => y.data = Spare.data,
           Valid(y) => y.data = Spare.data /\ "other" \notin Lst(y)
    PROVE  Still
<1>1. asked' = asked /\ Work' = y /\ Other' = Other /\ Spare' = Spare
  BY Touched DEF Areas
<1>2. RecW(y, Spare) = Spare.data
  BY DEF RecW
<1>3. RecO(y, Spare, Other) = Other.data
  BY DEF RecO, CommittedIn
<1> QED BY <1>1, <1>2, <1>3 DEF Still

\* FlushSpareBlockToWorkingBlock()
LEMMA StillFlush ==
    ASSUME FtwInv, Next, RoomyLogs, NEW k, FlushBegins(k) \/ FlushStores(k) \/ FlushEnds(k)
    PROVE  Still
<1>1. /\ Types /\ FlashOK /\ Flushes(k) /\ IsTodo(k) /\ power # "off" /\ Valid(Spare)
      /\ {"working", "spare"} \subseteq Areas /\ flash["working"] = Work /\ flash["spare"] = Spare
      /\ AreaOK(Work) /\ AreaOK(Spare) /\ ImageOK(Spare) /\ Last = Lst(Work)
  BY FlashFacts, FlushTodo DEF FtwInv, FlushBegins, FlushStores, FlushEnds, Areas, Work, Spare
<1>2. PICK g : g = FlImage
  OBVIOUS
<1>3. /\ AreaOK(g) /\ g.data = Spare.data /\ g.hdr = {"sig"} /\ g.log = Spare.log /\ ~Valid(g)
  BY <1>1, <1>2, FlImageForm
<1>4. IsTodo(FlStore(g, k)) /\ IsTodo(FlInval(g, k)) /\ IsTodo(FlValid(k))
  BY <1>1, Todos
<1>5. CASE FlushBegins(k)
  <2>1. Mirrored /\ todo \in {Do(Fn("FlushToWorking"), k), FlMark(g, k), FlInval(g, k)}
    BY <1>2, <1>5 DEF FlushBegins
  <2>2. CASE todo = Do(Fn("FlushToWorking"), k)
    BY <1>1, <2>2, FnStill
  <2>3. CASE todo = FlMark(g, k)
    <3> DEFINE y == [Spare EXCEPT !.hdr = @ \cup {"valid"}]
    <3>1. Cut \/ Becomes("spare", y, FlInval(g, k))
      BY <1>1, <1>4, <2>3, HeaderStep DEF FlMark
    <3>2. y = Spare
      <4>1. y = Area(Spare.data, Spare.hdr \cup {"valid"}, Spare.log) /\ Spare = Area(Spare.data, Spare.hdr, Spare.log)
        BY <1>1, Forms
      <4>2. Spare.hdr \cup {"valid"} = Spare.hdr
        BY <1>1 DEF Valid
      <4> QED BY <4>1, <4>2
    <3> HIDE DEF y
    <3>3. Touch("spare", Spare) => Still
      BY <1>1, Touched DEF Still
    <3> QED BY <3>1, <3>2, <3>3, StillCut, TouchOf
  <2>4. CASE todo = FlInval(g, k)
    <3> DEFINE y == [Work EXCEPT !.hdr = @ \cup {"invalid"}]
    <3>1. Cut \/ Becomes("working", y, FlStore(g, k))
      BY <1>1, <1>4, <2>4, HeaderStep DEF FlInval
    <3>2. y = Area(Work.data, Work.hdr \cup {"invalid"}, Work.log)
      BY <1>1, Forms
    <3> HIDE DEF y
    <3>3. y.data = Work.data /\ y.log = Work.log /\ ~Valid(y)
      <4>1. y.data = Work.data /\ y.hdr = Work.hdr \cup {"invalid"} /\ y.log = Work.log
        BY <3>2, AreaFields
      <4> QED BY <4>1 DEF Valid
    <3>4. Full(Work.log) => ~Valid(Work) /\ Work.data = Spare.data
      <4>1. Full(Work.log) => Last = {}
        BY <1>1, LastShape
      <4>2. Full(Work.log) => ~Valid(Work)
        BY <2>1, <4>1 DEF Mirrored
      <4> QED BY <2>1, <4>2 DEF Mirrored
    <3>5. Valid(Work) => Committed /\ "working" \in Lst(Work) /\ "other" \notin Lst(Work)
      BY <1>1, <2>1, CommittedShape DEF Mirrored
    <3>6. RecW(Work, Spare) = Spare.data /\ RecO(Work, Spare, Other) = Other.data
      BY <1>1, <3>4, <3>5 DEF RecW, RecO, Committed, CommittedIn
    <3>7. Touch("working", y) => Still
      BY <1>1, <3>3, <3>4, <3>6, StillFlushed
    <3> QED BY <3>1, <3>7, StillCut, TouchOf
  <2> QED BY <2>1, <2>2, <2>3, <2>4
<1>6. CASE FlushStores(k)
  <2>1. /\ ~Valid(Work) /\ Storing("working", g, FlValid(k))
        /\ (part.sector = "64K" /\ Full(Work.log)) => Work.data = Spare.data
    BY <1>2, <1>6 DEF FlushStores
  <2>2. part.sector \in {"4K", "64K"}
    BY <1>1, PartsAssumption DEF Types
  <2>3. part.sector = "4K" => ~Full(Work.log)
    BY <1>1, RoomyNotFull DEF AreaOK
  <2>4. RecW(Work, Spare) = Spare.data /\ RecO(Work, Spare, Other) = Other.data
    BY <1>1, <2>1, <2>2, <2>3 DEF RecW, RecO, CommittedIn
  <2>5. Still \/ \E y \in Partial(Work, g) \cup {g, Area(g.data, g.hdr, <<>>)} : Touch("working", y)
    BY <1>1, <1>3, <1>4, <2>1, StoringTouch
  <2>6. ASSUME NEW y \in Partial(Work, g) \cup {g, Area(g.data, g.hdr, <<>>)}
        PROVE  ~Valid(y) /\ (Full(y.log) => y.data = Spare.data)
    <3>1. ~Full(<<>>)
      BY <1>1, EmptyForms, Forms
    <3>2. CASE y \in {Erased, Area(g.data, {}, <<>>)}
      <4>1. y.log = <<>> /\ y.hdr = {}
        BY <3>2, AreaFields DEF Erased
      <4> QED BY <3>1, <4>1 DEF Valid
    <3>3. CASE y = Area(g.data, g.hdr, <<>>)
      <4>1. y.log = <<>> /\ y.hdr = g.hdr
        BY <3>3, AreaFields
      <4> QED BY <1>3, <3>1, <4>1 DEF Valid
    <3>4. CASE y = g
      BY <1>3, <3>4
    <3>5. CASE part.sector = "4K" /\ y = Area(Lost, Work.hdr, Work.log)
      <4>1. y.log = Work.log /\ y.hdr = Work.hdr
        BY <3>5, AreaFields
      <4> QED BY <2>1, <2>3, <3>5, <4>1 DEF Valid
    <3> QED BY <2>6, <3>2, <3>3, <3>4, <3>5 DEF Partial
  <2>7. ASSUME NEW y \in Partial(Work, g) \cup {g, Area(g.data, g.hdr, <<>>)}, Touch("working", y)
        PROVE  Still
    BY <1>1, <2>4, <2>6, <2>7, StillFlushed
  <2> QED BY <2>5, <2>7
<1>7. CASE FlushEnds(k)
  <2>1. Work = g /\ todo = Do(Hdr("working", "valid"), k)
    BY <1>2, <1>7 DEF FlushEnds, FlValid
  <2> DEFINE y == [Work EXCEPT !.hdr = @ \cup {"valid"}]
  <2>2. Cut \/ Becomes("working", y, k)
    BY <1>1, <2>1, HeaderStep
  <2>3. y = Area(Work.data, Work.hdr \cup {"valid"}, Work.log)
    BY <1>1, Forms
  <2> HIDE DEF y
  <2>4. y.data = Spare.data /\ y.log = Spare.log
    BY <1>3, <2>1, <2>3, AreaFields
  <2>5. "other" \notin Lst(y)
    BY <1>1, <2>4 DEF ImageOK, Lst
  <2>6. RecW(Work, Spare) = Spare.data /\ RecO(Work, Spare, Other) = Other.data
    BY <1>1, <1>3, <2>1 DEF RecW, RecO, CommittedIn
  <2>7. Touch("working", y) => Still
    BY <1>1, <2>4, <2>5, <2>6, StillFlushed
  <2> QED BY <2>2, <2>7, StillCut, TouchOf
<1> QED BY <1>5, <1>6, <1>7

\* FtwWriteRecord() up to the record's mark
LEMMA StillRecord ==
    ASSUME FtwInv, Next, RecordAt
    PROVE  Still
<1>1. /\ Types /\ FlashOK /\ Committed /\ power # "off" /\ AreaOK(Spare) /\ ImageOK(Spare) /\ AreaOK(Other)
      /\ flash["spare"] = Spare /\ flash["other"] = Other /\ {"spare", "other"} \subseteq Areas
  BY FlashFacts DEF FtwInv, RecordAt, Record, Spare, Other, Areas
<1>2. /\ Last = Lst(Work) /\ Valid(Work)
      /\ "working" \in Last => Len(Spare.log) = Len(Work.log) /\ "working" \in Lst(Spare)
  BY <1>1, CommittedShape DEF SpareLast
<1>3. PICK old \in Image :
         \/ todo = Do(Fn("WriteRecord"), WrEnd(old))
         \/ "working" \in Last /\ todo = Do(Rcd("spare", Len(Work.log), {"spare"}),
                Do(Fn("FlushToWorking"), WrDest(Len(Work.log), WrEnd(old))))
         \/ "other" \in Last /\ todo = Do(Fn("FlushToTarget"), WrDest(Len(Work.log), WrEnd(old)))
         \/ "other" \in Last /\ Storing("other", [Erased EXCEPT !.data = Spare.data],
                                        WrDest(Len(Work.log), WrEnd(old)))
  BY DEF RecordAt
<1>4. PICK n, d : n = Len(Work.log) /\ d = WrDest(n, WrEnd(old))
  OBVIOUS
<1>5. IsTodo(WrEnd(old)) /\ IsTodo(d) /\ IsTodo(Do(Fn("FlushToWorking"), d))
  BY <1>4, ContTodos, Todos, DoSeq
<1>6. CASE todo = Do(Fn("WriteRecord"), WrEnd(old))
  BY <1>1, <1>5, <1>6, FnStill
<1>7. CASE todo = Do(Fn("FlushToTarget"), d)
  BY <1>1, <1>5, <1>7, FnStill
<1>8. CASE "working" \in Last /\ todo = Do(Rcd("spare", n, {"spare"}), Do(Fn("FlushToWorking"), d))
  <2>1. PICK B : B = {"spare"}
    OBVIOUS
  <2> DEFINE y == WithBits(Spare, n, B)
  <2>2. Cut \/ Becomes("spare", y, Do(Fn("FlushToWorking"), d))
    BY <1>1, <1>5, <1>8, <2>1, RecordStep
  <2>3. /\ B \in SUBSET (EntryBits \ {"torn"}) /\ "complete" \notin B
        /\ n = Len(Spare.log) /\ Lst(Spare) # {} /\ ~TornTail(Spare.log)
    BY <1>1, <1>2, <1>4, <1>8, <2>1 DEF EntryBits, ImageOK
  <2>4. y.data = Spare.data /\ y.hdr = Spare.hdr
    BY <1>1, <2>3, BitsSet
  <2> HIDE DEF y
  <2>5. ASSUME Touch("spare", y) PROVE Still
    <3>1. asked' = asked /\ Work' = Work /\ Other' = Other /\ Spare' = y
      BY <1>1, <2>5, Touched
    <3>2. RecW(Work, y) = RecW(Work, Spare) /\ RecO(Work, y, Other) = RecO(Work, Spare, Other)
      BY <2>4 DEF RecW, RecO, Valid
    <3> QED BY <3>1, <3>2 DEF Still
  <2> QED BY <2>2, <2>5, StillCut, TouchOf
<1>9. CASE "other" \in Last /\ Storing("other", [Erased EXCEPT !.data = Spare.data], d)
  <2>1. PICK g : g = [Erased EXCEPT !.data = Spare.data]
    OBVIOUS
  <2>2. AreaOK(g)
    <3>1. Spare.data \in Images /\ {} \in SUBSET HeaderBits
      BY <1>1, Forms
    <3>2. g = Area(Spare.data, {}, <<>>)
      BY <1>1, <2>1, EmptyForms
    <3>3. AreaOK(Area(Spare.data, {}, <<>>))
      BY <1>1, <3>1, EmptyForms
    <3> QED BY <3>2, <3>3
  <2>3. Still \/ \E y : Touch("other", y)
    BY <1>1, <1>5, <1>9, <2>1, <2>2, StoringTouch
  <2>4. ASSUME NEW y, Touch("other", y) PROVE Still
    <3>1. asked' = asked /\ Work' = Work /\ Spare' = Spare /\ Other' = y
      BY <1>1, <2>4, Touched
    <3>2. RecO(Work, Spare, y) = RecO(Work, Spare, Other)
      BY <1>1, <1>2, <1>9 DEF RecO, Committed
    <3> QED BY <3>1, <3>2 DEF Still
  <2> QED BY <2>3, <2>4
<1> QED BY <1>3, <1>4, <1>6, <1>7, <1>8, <1>9

\* The marks after the target is written
LEMMA StillMarks ==
    ASSUME FtwInv, Next, DestAt \/ CompleteAt
    PROVE  Still
<1>1. /\ Types /\ FlashOK /\ Valid(Work) /\ power # "off" /\ AreaOK(Work) /\ Last = Lst(Work) /\ Last # {}
      /\ flash["working"] = Work /\ "working" \in Areas
  BY FlashFacts, CommittedShape DEF FtwInv, DestAt, CompleteAt, Record, Committed, CommittedIn, Work, Areas
<1>2. CASE DestAt
  <2>1. PICK old \in Image : todo = WrDest(Len(Work.log), WrEnd(old))
    BY <1>2 DEF DestAt
  <2>2. PICK n, c, B : n = Len(Work.log) /\ c = WrComplete(n, WrEnd(old)) /\ B = {"dest"}
    OBVIOUS
  <2>3. IsTodo(c) /\ todo = Do(Rcd("working", n, B), c)
    BY <2>1, <2>2, ContTodos, Todos DEF WrDest
  <2> DEFINE y == WithBits(Work, n, B)
  <2>4. Cut \/ Becomes("working", y, c)
    BY <1>1, <2>3, RecordStep
  <2>5. B \in SUBSET (EntryBits \ {"torn"}) /\ "spare" \notin B /\ "complete" \notin B /\ "dest" \in B
    BY <2>2 DEF EntryBits
  <2>6. Lst(y) = Lst(Work) \cup B /\ y.data = Work.data /\ y.hdr = Work.hdr
    BY <1>1, <2>2, <2>5, BitsForm
  <2> HIDE DEF y
  <2>7. /\ "working" \in Lst(Work) => Work.data = Spare.data
        /\ "other" \in Lst(Work) => Other.data = Spare.data
    BY <1>1, <1>2 DEF DestAt, Targets, Work, Other
  <2>8. Valid(y) /\ ~CommittedIn(y)
    BY <1>1, <2>5, <2>6 DEF Valid, CommittedIn
  <2>9. RecW(Work, Spare) = Work.data /\ RecW(y, Spare) = Work.data
    BY <1>1, <2>6, <2>7, <2>8 DEF RecW
  <2>10. RecO(Work, Spare, Other) = Other.data /\ RecO(y, Spare, Other) = Other.data
    BY <2>7, <2>8 DEF RecO
  <2>11. Touch("working", y) => Still
    BY <1>1, <2>9, <2>10, Touched DEF Still
  <2> QED BY <2>4, <2>11, StillCut, TouchOf
<1>3. CASE CompleteAt
  <2>1. PICK old \in Image : todo = WrComplete(Len(Work.log), WrEnd(old))
    BY <1>3 DEF CompleteAt
  <2>2. PICK n, e, B : n = Len(Work.log) /\ e = WrEnd(old) /\ B = {"complete"}
    OBVIOUS
  <2>3. IsTodo(e) /\ todo = Do(Rcd("working", n, B), e)
    BY <2>1, <2>2, ContTodos DEF WrComplete
  <2> DEFINE y == WithBits(Work, n, B)
  <2>4. Cut \/ Becomes("working", y, e)
    BY <1>1, <2>3, RecordStep
  <2>5. B \in SUBSET (EntryBits \ {"torn"}) /\ "spare" \notin B /\ "complete" \in B
    BY <2>2 DEF EntryBits
  <2>6. Lst(y) = {} /\ y.data = Work.data /\ y.hdr = Work.hdr
    BY <1>1, <2>2, <2>5, BitsForm
  <2> HIDE DEF y
  <2>7. ~CommittedIn(y) /\ ~Committed
    BY <1>1, <1>3, <2>6 DEF CommittedIn, Committed, CompleteAt
  <2>8. Touch("working", y) => Still
    BY <1>1, <2>6, <2>7, WorkStill
  <2> QED BY <2>4, <2>8, StillCut, TouchOf
<1> QED BY <1>2, <1>3

\* FtwWrite() before the commit changes nothing that start-up would find.
LEMMA StillWriting ==
    ASSUME FtwInv, Next, NEW t \in Targets, Allocating(t) \/ Describing(t)
    PROVE  Still
<1>1. /\ Types /\ FlashOK /\ power # "off" /\ AreaOK(Work) /\ Last = Lst(Work) /\ IsTodo(<<>>)
      /\ flash["working"] = Work /\ "working" \in Areas /\ Valid(Work) /\ ~TornTail(Work.log)
      /\ WellLogged(Work.log)
  BY FlashFacts, EmptyTodo DEF FtwInv, Allocating, Describing, Keeps, Clean, CleanIn, Work, Areas
<1>2. ~Committed
  BY <1>1 DEF Allocating, Describing, Clean, CleanIn, Committed, CommittedIn
<1>3. IsTodo(AppendK(t)) /\ IsTodo(Do(FnOf("Describe", t), <<>>)) /\ IsTodo(Do(FnOf("Store", t), <<>>))
  BY ContTodos
<1>4. CASE todo = Do(Fn("Refresh"), AppendK(t))
  BY <1>1, <1>3, <1>4, FnStill
<1>5. CASE todo = Do(FnOf("Describe", t), <<>>)
  BY <1>1, <1>5, FnStill
<1>6. CASE Allocating(t) /\ todo = AppendK(t)
  <2>1. todo = Do(Apd, Do(FnOf("Describe", t), <<>>))
    BY <1>6 DEF AppendK
  <2>2. \/ Cut
        \/ CutAt("working", [Work EXCEPT !.log = Append(@, {"alloc", "torn"})])
        \/ Becomes("working", [Work EXCEPT !.log = Append(@, {"alloc"})], Do(FnOf("Describe", t), <<>>))
    BY <1>1, <1>3, <2>1, AppendStep
  <2>3. Lst(Work) = {}
    BY <1>6 DEF Allocating, Clean, CleanIn
  <2>4. ~Open(Work.log)
    BY <1>1, <2>3, LogShape DEF Lst
  <2>5. ASSUME NEW B \in SUBSET EntryBits, "alloc" \in B, "complete" \notin B, "spare" \notin B,
               Touch("working", [Work EXCEPT !.log = Append(@, B)])
        PROVE  Still
    <3> DEFINE m == Append(Work.log, B)
    <3>1. FtwGetLastWriteRecord(m) = B
      BY <1>1, <2>4, <2>5, LogAppend
    <3>2. PICK y : y = [Work EXCEPT !.log = Append(@, B)]
      OBVIOUS
    <3>3. y = Area(Work.data, Work.hdr, m)
      <4>1. y = [Work EXCEPT !.log = m]
        BY <3>2
      <4> HIDE DEF m
      <4>2. [Work EXCEPT !.log = m] = Area(Work.data, Work.hdr, m)
        BY <1>1, Forms
      <4> QED BY <4>1, <4>2
    <3> HIDE DEF m
    <3>4. y.data = Work.data /\ y.hdr = Work.hdr /\ Lst(y) = B
      BY <3>1, <3>3, AreaFields DEF Lst
    <3>5. ~CommittedIn(y)
      BY <2>5, <3>4 DEF CommittedIn
    <3>6. Touch("working", y)
      BY <2>5, <3>2
    <3> QED BY <1>1, <1>2, <3>4, <3>5, <3>6, WorkStill
  <2>6. CASE Becomes("working", [Work EXCEPT !.log = Append(@, {"alloc"})], Do(FnOf("Describe", t), <<>>))
    <3>1. PICK B : B = {"alloc"}
      OBVIOUS
    <3>2. B \in SUBSET EntryBits /\ "alloc" \in B /\ "complete" \notin B /\ "spare" \notin B
      BY <3>1 DEF EntryBits
    <3>3. Touch("working", [Work EXCEPT !.log = Append(@, B)])
      BY <2>6, <3>1, TouchOf
    <3> QED BY <2>5, <3>2, <3>3
  <2>7. CASE CutAt("working", [Work EXCEPT !.log = Append(@, {"alloc", "torn"})])
    <3>1. PICK B : B = {"alloc", "torn"}
      OBVIOUS
    <3>2. B \in SUBSET EntryBits /\ "alloc" \in B /\ "complete" \notin B /\ "spare" \notin B
      BY <3>1 DEF EntryBits
    <3>3. Touch("working", [Work EXCEPT !.log = Append(@, B)])
      BY <2>7, <3>1, TouchOf
    <3> QED BY <2>5, <3>2, <3>3
  <2> QED BY <2>2, <2>6, <2>7, StillCut
<1>7. CASE Describing(t) /\ todo = Do(Rcd("working", Len(Work.log), {"rec", t}), Do(FnOf("Store", t), <<>>))
  <2>1. PICK n, B : n = Len(Work.log) /\ B = {"rec", t}
    OBVIOUS
  <2> DEFINE y == WithBits(Work, n, B)
  <2>2. Cut \/ Becomes("working", y, Do(FnOf("Store", t), <<>>))
    BY <1>1, <1>3, <1>7, <2>1, RecordStep
  <2>3. B \in SUBSET (EntryBits \ {"torn"}) /\ "spare" \notin B /\ "complete" \notin B
    BY <2>1 DEF EntryBits, Targets
  <2>4. Lst(Work) = {"alloc"} /\ Lst(Work) # {}
    BY <1>1, <1>7 DEF Describing
  <2>5. Lst(y) = Lst(Work) \cup B /\ y.data = Work.data /\ y.hdr = Work.hdr
    <3>1. n = Len(Work.log) /\ Lst(Work) # {}
      BY <2>1, <2>4
    <3> QED BY <1>1, <2>3, <3>1, BitsForm
  <2> HIDE DEF y
  <2>6. ~CommittedIn(y)
    BY <2>3, <2>4, <2>5 DEF CommittedIn
  <2>7. Touch("working", y) => Still
    BY <1>1, <1>2, <2>5, <2>6, WorkStill
  <2> QED BY <2>2, <2>7, StillCut, TouchOf
<1> QED BY <1>4, <1>5, <1>6, <1>7 DEF Allocating, Describing

\* The SPARE_COMPLETED bit is the commit.
LEMMA CommitsPreparing ==
    ASSUME FtwInv, Next, NEW t \in Targets, Preparing(t)
    PROVE  Still \/ Commits(t)
<1>1. /\ Types /\ FlashOK /\ power # "off" /\ AreaOK(Work) /\ Last = Lst(Work) /\ IsTodo(<<>>)
      /\ flash["working"] = Work /\ "working" \in Areas /\ Valid(Work) /\ ~TornTail(Work.log)
      /\ Last = {"alloc", "rec", t} /\ asked[t] # Lost
  BY FlashFacts, EmptyTodo DEF FtwInv, Preparing, Keeps, Work, Areas
<1>2. "spare" \notin Last /\ Last # {}
  BY <1>1 DEF Targets
<1>3. ~Committed
  BY <1>1, <1>2 DEF Committed, CommittedIn
<1>4. PICK n, g : n = Len(Work.log) /\ g = WriteImage(t)
  OBVIOUS
<1>5. ImageOK(g) /\ AreaOK(g) /\ g.data = asked[t]
  BY <1>1, <1>4, WriteImageForm DEF ImageOK
<1>6. \A old : IsTodo(WriteCommit(n, old)) /\ IsTodo(Do(Fn("WriteRecord"), WrEnd(old)))
  BY ContTodos, DoSeq DEF WriteCommit
<1>7. CASE todo = Do(FnOf("Store", t), <<>>)
  BY <1>1, <1>7, FnStill
<1>8. ASSUME NEW old, Storing("spare", g, WriteCommit(n, old)) PROVE Still
  BY <1>1, <1>3, <1>5, <1>6, <1>8, StillStoring
<1>9. ASSUME NEW old, todo = WriteCommit(n, old), Spare = g PROVE Still \/ Commits(t)
  <2>1. PICK k, B : k = Do(Fn("WriteRecord"), WrEnd(old)) /\ B = {"spare"}
    OBVIOUS
  <2>2. IsTodo(k) /\ todo = Do(Rcd("working", n, B), k)
    BY <1>6, <1>9, <2>1 DEF WriteCommit
  <2> DEFINE y == WithBits(Work, n, B)
  <2>3. Cut \/ Becomes("working", y, k)
    BY <1>1, <2>2, RecordStep
  <2>4. B \in SUBSET (EntryBits \ {"torn"}) /\ "spare" \in B /\ "complete" \notin B
    BY <2>1 DEF EntryBits
  <2>5. AreaOK(y) /\ Lst(y) = Lst(Work) \cup B /\ y.data = Work.data /\ y.hdr = Work.hdr
    <3>1. /\ Types /\ AreaOK(Work) /\ Lst(Work) # {} /\ n = Len(Work.log) /\ ~TornTail(Work.log)
          /\ B \in SUBSET (EntryBits \ {"torn"}) /\ "complete" \notin B
      BY <1>1, <1>2, <1>4, <2>4
    <3> QED BY ONLY <3>1, BitsSet
  <2> HIDE DEF y
  <2>6. /\ "spare" \in Lst(y) /\ "dest" \notin Lst(y) /\ Lst(y) # {}
        /\ "working" \in Lst(y) <=> t = "working"
        /\ "other" \in Lst(y) <=> t = "other"
    <3>1. Lst(y) = {"alloc", "rec", t} \cup {"spare"}
      BY <1>1, <2>1, <2>5
    <3>2. t = "working" \/ t = "other"
      BY DEF Targets
    <3> HIDE DEF Targets
    <3> QED BY <3>1, <3>2
  <2>7. CommittedIn(y) /\ Valid(y)
    BY <1>1, <2>5, <2>6 DEF CommittedIn, Valid
  <2>8. ~Full(y.log)
    BY <1>1, <2>5, <2>6, FullShape DEF AreaOK, Lst
  <2>9. RecW(Work, Spare) = Work.data /\ RecO(Work, Spare, Other) = Other.data
    BY <1>1, <1>3 DEF RecW, RecO, Committed
  <2>10. RecW(y, Spare) = IF t = "working" THEN asked[t] ELSE Work.data
    BY <1>5, <1>9, <2>5, <2>6, <2>7, <2>8 DEF RecW
  <2>11. RecO(y, Spare, Other) = IF t = "other" THEN asked[t] ELSE Other.data
    BY <1>5, <1>9, <2>6, <2>7 DEF RecO
  <2>12. Touch("working", y) => Commits(t)
    BY <1>1, <2>9, <2>10, <2>11, Touched DEF Commits
  <2> QED BY <2>3, <2>12, StillCut, TouchOf
<1> QED BY <1>4, <1>7, <1>8, <1>9 DEF Preparing

\* The block services repair what has no image.
LEMMA StillRepairing ==
    ASSUME FtwInv, Next, NoLoss, Repairing
    PROVE  Still
<1>1. /\ Types /\ FlashOK /\ power # "off" /\ AreaOK(Work) /\ AreaOK(Other)
      /\ flash["working"] = Work /\ flash["other"] = Other /\ {"working", "other"} \subseteq Areas
  BY FlashFacts DEF FtwInv, Repairing, Work, Other, Areas
<1>2. RecW(Work, Spare) # Lost /\ RecO(Work, Spare, Other) # Lost
  BY <1>1, RecoveredIs DEF NoLoss, Targets
<1>3. PICK w, o : w = Erase("working", RepairParts) /\ o = Erase("other", RepairParts)
  OBVIOUS
<1>4. IsTodo(I1) /\ IsTodo(Do(o, I1))
  BY ContTodos, DoSeq
<1>5. CASE Other.data = Lost /\ todo = Do(o, I1)
  <2>1. PICK y : y = ErasedIn(Other, RepairParts)
    OBVIOUS
  <2>2. Cut \/ CutAt("other", y) \/ Becomes("other", y, I1)
    BY <1>1, <1>3, <1>4, <1>5, <2>1, EraseStep
  <2>3. y.data = Lost
    BY <1>1, <1>5, <2>1, RepairForm DEF Erased
  <2>4. ASSUME Touch("other", y) PROVE Still
    <3>1. asked' = asked /\ Work' = Work /\ Spare' = Spare /\ Other' = y
      BY <1>1, <2>4, Touched
    <3> QED BY <1>5, <2>3, <3>1 DEF Still, RecO
  <2> QED BY <2>2, <2>4, StillCut, TouchOf
<1>6. ASSUME NEW k, IsTodo(k), Work.data = Lost, todo = Do(w, k) PROVE Still
  <2>1. PICK y : y = ErasedIn(Work, RepairParts)
    OBVIOUS
  <2>2. Cut \/ CutAt("working", y) \/ Becomes("working", y, k)
    BY <1>1, <1>3, <1>6, <2>1, EraseStep
  <2>3. y = Work \/ y = Erased
    BY <1>1, <1>6, <2>1, RepairForm
  <2>4. ~Full(Work.log) /\ RecW(Work, Spare) = Spare.data /\ Valid(Spare)
    <3>1. RecW(Work, Spare) # Work.data
      BY <1>2, <1>6
    <3>2. ~Full(Work.log) /\ RecW(Work, Spare) = Spare.data
      BY <3>1 DEF RecW
    <3>3. Valid(Work) => Valid(Spare)
      <4>1. Valid(Work) => CommittedIn(Work) /\ "working" \in Lst(Work)
        BY <3>1 DEF RecW
      <4>2. Fits(Work, Spare)
        BY <1>1 DEF FlashOK, AllFit
      <4> QED BY <4>1, <4>2 DEF Fits
    <3>4. ~Valid(Work) => Valid(Spare)
      BY <3>1 DEF RecW
    <3> QED BY <3>2, <3>3, <3>4
  <2>5. RecO(Work, Spare, Other) = Other.data
    <3>1. Valid(Work) => CommittedIn(Work) /\ "working" \in Lst(Work)
      BY <1>2, <1>6, <2>4 DEF RecW
    <3>2. CommittedIn(Work) => "other" \notin Lst(Work)
      <4>1. Fits(Work, Spare) /\ (CommittedIn(Work) => Valid(Work))
        BY <1>1 DEF FlashOK, AllFit, CommittedIn
      <4> QED BY <3>1, <4>1 DEF Fits
    <3> QED BY <3>2 DEF RecO
  <2>6. /\ ~Full(Erased.log) /\ ~Valid(Erased)
    <3>1. ~Full(<<>>) /\ Erased.log = <<>> /\ Erased.hdr = {}
      BY <1>1, EmptyForms, Forms DEF Erased
    <3> QED BY <3>1 DEF Valid
  <2>7. ASSUME Touch("working", y) PROVE Still
    <3>1. asked' = asked /\ Work' = y /\ Spare' = Spare /\ Other' = Other
      BY <1>1, <2>7, Touched
    <3>2. y = Erased => RecW(y, Spare) = Spare.data /\ RecO(y, Spare, Other) = Other.data
      BY <2>4, <2>6 DEF RecW, RecO, CommittedIn
    <3> QED BY <2>3, <2>4, <2>5, <3>1, <3>2 DEF Still
  <2> QED BY <2>2, <2>7, StillCut, TouchOf
<1> QED BY <1>3, <1>4, <1>5, <1>6 DEF Repairing

\* What start-up makes of the flash after a step.
LEMMA RecoveredAfter ==
    ASSUME FtwInv, [Next]_vars
    PROVE  /\ Recovered("working")' = RecW(Work', Spare')
           /\ Recovered("other")' = RecO(Work', Spare', Other')
<1>1. Types' /\ FlashOK'
  BY FtwStep DEF FtwInv
<1>2. part' = part
  BY DEF Next, Driver, FvbInitialize, Flash, FvbEraseBlock, FvbWriteBlock, FtwUpdateFvState,
     WriteHeader, Operate, Functions, Enter, FlushSpareBlockToWorkingBlock,
     FlushSpareBlockToTargetBlock, FtwReclaimWorkSpace, FtwReclaimNewWorkSpace,
     WorkSpaceRefresh, TrySpareBlock, AbortUnready, AbortDone, CheckTail, RestartLast,
     HookProtocol, FtwAbort, FtwWriteRecord, FtwRestart, FtwWriteDescribe, FtwWriteStore,
     FtwWrite, PowerFails, vars
<1>3. /\ Recovered("working")' = RecW(Work, Spare)'
      /\ Recovered("other")' = RecO(Work, Spare, Other)'
  <2>1. (Types /\ FlashOK =>
           Recovered("working") = RecW(Work, Spare) /\ Recovered("other") = RecO(Work, Spare, Other))'
    BY RecoveredIs, PTL
  <2> QED BY <1>1, <2>1
<1>4. RecW(Work, Spare)' = RecW(Work', Spare')
  BY <1>2 DEF RecW, Full
<1> QED BY <1>3, <1>4 DEF RecO

\* A caller's request, and start-up's end: the callers find what the blocks hold.
Asks(t) == /\ asked["working"] = RecW(Work, Spare) /\ asked["other"] = RecO(Work, Spare, Other)
           /\ \E v \in 0 .. MaxWrites : asked' = [asked EXCEPT ![t] = v]
           /\ flash' = flash
Drops == /\ asked' = [t \in Targets |-> IF t = "working" THEN RecW(Work, Spare) ELSE RecO(Work, Spare, Other)]
         /\ flash' = flash

\* A clean work space leaves start-up nothing to do.
LEMMA CleanIs ==
    ASSUME Clean
    PROVE  RecW(Work, Spare) = Work.data /\ RecO(Work, Spare, Other) = Other.data
  BY DEF Clean, CleanIn, RecW, RecO, CommittedIn

\* HookProtocol()
LEMMA DropsHook ==
    ASSUME FtwInv, Next, power = "boot", AtI7
    PROVE  Still \/ Drops
<1>1. Types /\ power # "off" /\ todo = Do(Fn("Hook"), <<>>) /\ IsTodo(<<>>) /\ Clean
  BY EmptyTodo DEF FtwInv, AtI7, I7
<1>2. Cut \/ (asked' = [t \in Targets |-> flash[t].data] /\ flash' = flash)
  BY <1>1, HookStep
<1>3. \A t \in Targets : flash[t].data = IF t = "working" THEN RecW(Work, Spare) ELSE RecO(Work, Spare, Other)
  BY <1>1, CleanIs DEF Targets, Work, Other
<1> QED BY <1>2, <1>3, StillCut DEF Drops

\* FtwWrite()
LEMMA AsksResting ==
    ASSUME FtwInv, Next, Resting
    PROVE  Still \/ \E t \in Targets : Asks(t)
<1>1. Types /\ power # "off" /\ todo = <<>> /\ Clean /\ AskedAll
  BY DEF FtwInv, Resting
<1>2. Cut \/ \E t \in Targets : FtwWrite(t)
  BY <1>1, RestStep
<1>3. asked["working"] = RecW(Work, Spare) /\ asked["other"] = RecO(Work, Spare, Other)
  BY <1>1, CleanIs DEF AskedAll, Targets, Work, Other
<1>4. ASSUME NEW t \in Targets, FtwWrite(t) PROVE Asks(t)
  <2>1. writes + 1 \in 0 .. MaxWrites
    BY <1>1, <1>4, BoundsAssumption DEF FtwWrite, Types
  <2> QED BY <1>3, <1>4, <2>1 DEF Asks, FtwWrite
<1> QED BY <1>2, <1>4, StillCut

\* Every step changes what start-up would find by a commit only.
LEMMA StepsOfStore ==
    ASSUME FtwInv, NoLoss, RoomyLogs, [Next]_vars
    PROVE  Still \/ Drops \/ \E t \in Targets : Commits(t) \/ Asks(t)
<1>1. CASE UNCHANGED vars
  BY <1>1 DEF vars, Still, Work, Spare, Other
<1>2. CASE Next
  <2>1. CASE power = "off" /\ todo = <<>>
    <3>1. FvbInitialize
      BY <1>2, <2>1, RestStep DEF FtwInv
    <3> QED BY <3>1 DEF FvbInitialize, Still, Work, Spare, Other
  <2>2. CASE Repairing
    BY <1>2, <2>2, StillRepairing
  <2>3. CASE Booting
    BY <1>2, <2>3, StillBooting, DropsHook DEF Booting
  <2>4. ASSUME NEW b \in AbortConts, Aborting(b) PROVE Still
    BY <1>2, <2>4, StillAborting
  <2>5. CASE AbortingNone \/ NewAt \/ Restarting
    BY <1>2, <2>5, StillCalls
  <2>6. ASSUME NEW c \in ReclaimConts, ReclaimAt(c) \/ Cleaning(c) \/ Marking(c) \/ PuttingBack(c)
        PROVE  Still
    BY <1>2, <2>6, StillCalls, StillCleaning, StillMarking, StillSpare
  <2>7. ASSUME NEW k, FlushBegins(k) \/ FlushStores(k) \/ FlushEnds(k) PROVE Still
    BY <1>2, <2>7, StillFlush
  <2>8. CASE RecordAt \/ DestAt \/ CompleteAt
    BY <1>2, <2>8, StillRecord, StillMarks
  <2>9. CASE Restarted \/ Finishing
    BY <1>2, <2>9, StillSpare
  <2>10. CASE Resting
    BY <1>2, <2>10, AsksResting
  <2>11. ASSUME NEW t \in Targets, Writing(t) PROVE Still \/ Commits(t)
    BY <1>2, <2>11, StillWriting, CommitsPreparing DEF Writing
  <2> QED BY <2>1, <2>2, <2>3, <2>4, <2>5, <2>6, <2>7, <2>8, <2>9, <2>10, <2>11 DEF FtwInv, Point
<1> QED BY <1>1, <1>2

\* The refinement step: the value of the store is what start-up makes of the flash.
LEMMA StoreStepMaps ==
    ASSUME FtwInv, NoLoss, RoomyLogs, [Next]_vars
    PROVE  NoLoss' /\ [Store!Next]_<<Val, asked>>
<1>1. /\ Recovered("working") = RecW(Work, Spare) /\ Recovered("other") = RecO(Work, Spare, Other)
      /\ asked \in [Targets -> Images]
  BY RecoveredIs DEF FtwInv, Types
<1>2. /\ Recovered("working")' = RecW(Work', Spare')
      /\ Recovered("other")' = RecO(Work', Spare', Other')
  BY RecoveredAfter
<1>3. Targets = {"working", "other"}
  BY DEF Targets
<1>4. ASSUME Still PROVE NoLoss' /\ Val' = Val /\ asked' = asked
  <2>1. \A t \in Targets : Recovered(t)' = Recovered(t)
    BY <1>1, <1>2, <1>3, <1>4 DEF Still
  <2> QED BY <1>4, <2>1 DEF Still, NoLoss, Val
<1>5. ASSUME flash' = flash PROVE NoLoss' /\ Val' = Val
  <2>1. Work' = Work /\ Spare' = Spare /\ Other' = Other
    BY <1>5 DEF Work, Spare, Other
  <2>2. \A t \in Targets : Recovered(t)' = Recovered(t)
    BY <1>1, <1>2, <1>3, <2>1
  <2> QED BY <2>2 DEF NoLoss, Val
<1>6. ASSUME Drops PROVE Store!Drop
  <2>1. \A t \in Targets : Recovered(t) = IF t = "working" THEN RecW(Work, Spare) ELSE RecO(Work, Spare, Other)
    BY <1>1, <1>3
  <2>2. asked' = Val
    BY <1>6, <2>1 DEF Drops, Val
  <2>3. Val' = Val
    BY <1>5, <1>6 DEF Drops
  <2> QED BY <2>2, <2>3 DEF Store!Drop, Val
<1>7. ASSUME NEW t \in Targets, Asks(t) PROVE \E v \in 0 .. MaxWrites : Store!Ask(t, v)
  <2>1. asked = Val
    <3>1. \A u \in Targets : asked[u] = Recovered(u)
      BY <1>1, <1>3, <1>7 DEF Asks
    <3> QED BY <1>1, <3>1 DEF Val
  <2>2. Val' = Val
    BY <1>5, <1>7 DEF Asks
  <2> QED BY <1>7, <2>1, <2>2 DEF Asks, Store!Ask, Val
<1>8. ASSUME NEW t \in Targets, Commits(t) PROVE NoLoss' /\ Store!Commit(t)
  <2>1. \A u \in Targets : Recovered(u)' = IF u = t THEN asked[t] ELSE Recovered(u)
    BY <1>1, <1>2, <1>3, <1>8 DEF Commits
  <2>2. NoLoss'
    BY <1>8, <2>1 DEF NoLoss, Commits
  <2>3. Val' = [Val EXCEPT ![t] = asked[t]]
    BY <2>1 DEF Val
  <2> QED BY <1>8, <2>2, <2>3 DEF Commits, Store!Commit, Val
<1>9. CASE Still
  BY <1>4, <1>9
<1>10. CASE Drops
  BY <1>5, <1>6, <1>10 DEF Drops, Store!Next
<1>11. ASSUME NEW t \in Targets, Asks(t) PROVE NoLoss' /\ Store!Next
  BY <1>5, <1>7, <1>11 DEF Asks, Store!Next
<1>12. ASSUME NEW t \in Targets, Commits(t) PROVE NoLoss' /\ Store!Next
  BY <1>8, <1>12 DEF Store!Next
<1> QED BY <1>9, <1>10, <1>11, <1>12, StepsOfStore

\* A new board holds an image in each target.
LEMMA StoreInitMaps ==
    ASSUME Init
    PROVE  NoLoss /\ Store!Init
<1>1. /\ Types /\ FlashOK
  BY FtwInit DEF FtwInv
<1>2. Recovered("working") = RecW(Work, Spare) /\ Recovered("other") = RecO(Work, Spare, Other)
  BY <1>1, RecoveredIs
<1>3. Spare = Erased /\ Other.data = 0 /\ ~Valid(Spare)
  BY DEF Init, Spare, Other, Erased, Valid
<1>4. Work.data = 0 /\ Work.log = <<>>
  BY DEF Init, Work, Erased, Areas
<1>5. Lst(Work) = {}
  BY <1>4, LogEmpty DEF Lst
<1>6. RecW(Work, Spare) = 0 /\ RecO(Work, Spare, Other) = 0
  BY <1>3, <1>4, <1>5 DEF RecW, RecO, CommittedIn
<1>7. \A t \in Targets : Recovered(t) = 0
  BY <1>2, <1>6 DEF Targets
<1>8. NoLoss
  BY <1>7 DEF NoLoss, Lost
<1>9. asked = Val /\ 0 \in 0 .. MaxWrites
  BY <1>7, BoundsAssumption DEF Init, Val
<1>10. Val \in [Targets -> 0 .. MaxWrites]
  BY <1>7, <1>9 DEF Val
<1> QED BY <1>8, <1>9, <1>10 DEF Store!Init, Val

\* At every moment, in the middle of FtwReclaimWorkSpace() or of a flush of the spare block
\* too, InitFtwProtocol() could still make an image of each target of what the flash holds.
THEOREM FtwKeepsImages == ASSUME RoomyLogs PROVE Spec => []NoLoss
<1>1. Init => FtwInv /\ NoLoss
  BY FtwInit, StoreInitMaps
<1>2. (FtwInv /\ NoLoss) /\ [Next]_vars => (FtwInv /\ NoLoss)'
  BY FtwStep, StoreStepMaps
<1> QED BY <1>1, <1>2, PTL DEF Spec

\* FtwWrite() with the recovery of InitFtwProtocol() is an atomic store: after a power
\* failure at any step a write has happened or it has not, and the other target is as it
\* was; on parts whose log is not reclaimed in 4 KB pieces.
THEOREM FtwIsAtomic == ASSUME RoomyLogs PROVE Spec => StoreIsAtomic
<1>1. Init => Store!Init
  BY StoreInitMaps
<1>2. FtwInv /\ NoLoss /\ [Next]_vars => [Store!Next]_<<Val, asked>>
  BY StoreStepMaps
<1> QED BY <1>1, <1>2, FtwInvariant, FtwKeepsImages, PTL DEF Spec, StoreIsAtomic, Store!Spec, Store!vars, Val

\* When InitFtwProtocol() or FtwWrite() is done every target holds an image, on the same
\* parts: none is left erased by the repair of damaged volumes.
THEOREM FtwLosesNothing == ASSUME RoomyLogs PROVE Spec => []NothingIsLost
<1>1. FtwInv /\ NoLoss => NothingIsLost
  <2> SUFFICES ASSUME FtwInv, NoLoss, Idle PROVE \A t \in Targets : flash[t].data # Lost
    BY DEF NothingIsLost
  <2>1. Resting /\ Types /\ FlashOK
    BY IdleRests DEF FtwInv
  <2>2. Recovered("working") = Work.data /\ Recovered("other") = Other.data
    BY <2>1, RecoveredIs, CleanIs DEF Resting
  <2> QED BY <2>2 DEF NoLoss, Targets, Work, Other
<1> QED BY <1>1, FtwInvariant, FtwKeepsImages, PTL
=============================================================================
