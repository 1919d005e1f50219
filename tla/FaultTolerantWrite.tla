------------------------- MODULE FaultTolerantWrite -------------------------
(***************************************************************************)
(* The fault tolerant write driver over the SPI flash: FtwMisc.c and       *)
(* UpdateWorkingBlock.c of the platform's override of                      *)
(* FaultTolerantWriteDxe, the block services they write through            *)
(* (SpiFvbServices/FwBlockService.c), and the callers' side of the         *)
(* protocol (FaultTolerantWrite.c of MdeModulePkg, external).              *)
(*                                                                         *)
(* The flash has three areas of one size: the working block (the variable  *)
(* store in its first blocks, the work space in its last ones), the spare  *)
(* block and one other firmware volume.  An area holds `data', the work    *)
(* space header `hdr' and the write log `log'.  Flash bits are set one way *)
(* only until the next erase, so a header and a log entry are the SETS of  *)
(* the bits and fields programmed in them.                                 *)
(*                                                                         *)
(* `todo' is what the driver still has to do: flash operations, each one   *)
(* step, and calls, which a step replaces by the operations and calls of   *)
(* the function's body.  The power may fail before every step and in the   *)
(* middle of the flash operation at hand; it clears `todo'.                *)
(***************************************************************************)
EXTENDS Integers, Sequences, FiniteSets

CONSTANTS Parts,      \* flash parts: [sector : {"4K", "64K"}, cap : Nat]
          MaxWrites,  \* bound: FtwWrite() calls in a behaviour
          MaxCuts     \* bound: power failures in a behaviour

\* A part is known by what one erase command erases (the erase opcode of its
\* row in mSpiInitTable) and by the writes its work space has room for.
ASSUME PartsAssumption ==
  Parts \subseteq [sector : {"4K", "64K"}, cap : Nat \ {0}]

ASSUME BoundsAssumption == MaxWrites \in Nat /\ MaxCuts \in Nat

VARIABLES part,    \* the flash part of this board
          flash,   \* the areas
          todo,    \* the driver's remaining operations and calls
          power,   \* "off", "boot" (InitFtwProtocol) or "ready"
          asked,   \* what the callers asked each target to hold
          writes, cuts

vars == <<part, flash, todo, power, asked, writes, cuts>>

Targets == {"working", "other"}
Areas   == {"working", "spare", "other"}

\* Data that are not an image: erased, half written, or an empty volume.
Lost == -1

HeaderBits == {"sig", "valid", "invalid"}
EntryBits  == {"alloc", "torn", "rec", "working", "other", "spare", "dest",
               "complete"}

Erased == [data |-> Lost, hdr |-> {}, log |-> <<>>]

-----------------------------------------------------------------------------
(* Reading the flash                                                       *)

\* The whole header is compared with the one it must be: signature and CRC,
\* WorkingBlockValid set, WorkingBlockInvalid not.
IsValidWorkSpace(a) == flash[a].hdr = {"sig", "valid"}

\* The first write header that is not complete; the next empty one if there
\* is none.
FtwGetLastWriteHeader(log) ==
  CHOOSE i \in 1 .. Len(log) + 1 :
    /\ i = Len(log) + 1 \/ "complete" \notin log[i]
    /\ \A j \in 1 .. i - 1 : "complete" \in log[j]

\* The bits of that header and of its record.
FtwGetLastWriteRecord(log) ==
  LET i == FtwGetLastWriteHeader(log)
  IN  IF i <= Len(log) THEN log[i] ELSE {}

Last == FtwGetLastWriteRecord(flash["working"].log)

\* A header that was only half programmed has no usable length: what follows
\* it does not look erased.
TornTail(log) == \E i \in DOMAIN log : "torn" \in log[i]

\* No room for one more header and record.
Full(log) == FtwGetLastWriteHeader(log) > part.cap /\ ~ TornTail(log)

-----------------------------------------------------------------------------
(* The driver's operations                                                 *)

Call(f) == <<[do |-> "call", fn |-> f]>>

Erase(a, parts) == [do |-> "erase", at |-> a, parts |-> parts]

\* EraseBlocks erases the blocks of an area in ascending order, one erase
\* command a 4 KB sector; on a 64 KB part the first command erases the area.
EraseBlocks(a) ==
  IF part.sector = "4K" THEN <<Erase(a, {"data"}), Erase(a, {"ws"})>>
                        ELSE <<Erase(a, {"data", "ws"})>>

\* The blocks of an area are programmed in ascending order.
WriteBlocks(a, image) ==
  << [do |-> "write", at |-> a, parts |-> {"data"}, img |-> image],
     [do |-> "write", at |-> a, parts |-> {"ws"},   img |-> image] >>

SetHeader(a, bit) == <<[do |-> "header", at |-> a, bit |-> bit]>>

SetRecord(a, i, bits) == <<[do |-> "record", at |-> a, idx |-> i, bits |-> bits]>>

\* FtwEraseSpareBlock and FtwEraseBlock.
FtwEraseSpareBlock == EraseBlocks("spare")
FtwEraseBlock(a)   == EraseBlocks(a)

-----------------------------------------------------------------------------
(* The flash operation at hand                                             *)

AtHand(kind) == todo /= <<>> /\ Head(todo).do = kind

ErasedIn(x, parts) ==
  [data |-> IF "data" \in parts THEN Lost ELSE x.data,
   hdr  |-> IF "ws" \in parts THEN {}   ELSE x.hdr,
   log  |-> IF "ws" \in parts THEN <<>> ELSE x.log]

WrittenIn(x, parts, img) ==
  [data |-> IF "data" \in parts THEN img.data ELSE x.data,
   hdr  |-> IF "ws" \in parts THEN x.hdr \cup img.hdr ELSE x.hdr,
   log  |-> IF "ws" \in parts THEN img.log ELSE x.log]

\* The entry i of the log gets more bits; offset i of an area that has no
\* such entry is not part of a log.
WithBits(x, i, bits) ==
  IF i \in DOMAIN x.log THEN [x EXCEPT !.log[i] = @ \cup bits] ELSE x

Operate(new) ==
  /\ flash' = [flash EXCEPT ![Head(todo).at] = new]
  /\ todo' = Tail(todo)
  /\ UNCHANGED <<part, power, asked, writes, cuts>>

FvbEraseBlock ==
  /\ AtHand("erase")
  /\ LET op == Head(todo) IN Operate(ErasedIn(flash[op.at], op.parts))

FvbWriteBlock ==
  /\ AtHand("write")
  /\ LET op == Head(todo) IN Operate(WrittenIn(flash[op.at], op.parts, op.img))

\* FtwUpdateFvState: one bit of a header or of a record.
FtwUpdateFvState ==
  \/ /\ AtHand("header")
     /\ LET op == Head(todo)
        IN  Operate([flash[op.at] EXCEPT !.hdr = @ \cup {op.bit}])
  \/ /\ AtHand("record")
     /\ LET op == Head(todo)
        IN  Operate(WithBits(flash[op.at], op.idx, op.bits))

\* FtwAllocate programs a new write header.
WriteHeader ==
  /\ AtHand("append")
  /\ Operate([flash["working"] EXCEPT !.log = Append(@, {"alloc"})])

-----------------------------------------------------------------------------
(* The functions of the driver                                             *)

\* A step that enters the function called next and leaves its body to do.
Enter(f, body) ==
  /\ AtHand("call") /\ Head(todo).fn = f
  /\ todo' = body \o Tail(todo)
  /\ UNCHANGED <<part, flash, power, asked, writes, cuts>>

\* The spare block replaces the working block: valid mark on the spare,
\* invalid mark on the working block, erase, copy with both marks clear, and
\* the valid mark last.
FlushBody ==
  LET image == [flash["spare"] EXCEPT !.hdr = {"sig"}]
  IN  SetHeader("spare", "valid") \o SetHeader("working", "invalid")
      \o FtwEraseBlock("working") \o WriteBlocks("working", image)
      \o SetHeader("working", "valid")

FlushSpareBlockToWorkingBlock == Enter("FlushToWorking", FlushBody)

FlushSpareBlockToTargetBlock ==
  Enter("FlushToTarget",
        FtwEraseBlock("other")
          \o WriteBlocks("other", [Erased EXCEPT !.data = flash["spare"].data]))

\* The entries that survive: the last write, if it was allocated and is not
\* complete.
Preserved(log) ==
  IF {"alloc"} \subseteq FtwGetLastWriteRecord(log)
    THEN <<FtwGetLastWriteRecord(log)>> ELSE <<>>

\* Reclaim: the cleaned working block goes to the spare block, is marked
\* valid there, replaces the working block, and what the spare block held
\* (kept in memory only) is put back.
ReclaimBody(hdr, log) ==
  LET image == [data |-> flash["working"].data, hdr |-> hdr, log |-> log]
  IN  FtwEraseSpareBlock \o WriteBlocks("spare", image)
      \o SetHeader("spare", "valid") \o SetHeader("working", "invalid")
      \o Call("FlushToWorking")
      \o FtwEraseSpareBlock \o WriteBlocks("spare", flash["spare"])

\* PreserveRecord is TRUE: the header is the one read from the working block.
FtwReclaimWorkSpace ==
  Enter("Reclaim",
        ReclaimBody(flash["working"].hdr \ {"valid", "invalid"},
                    Preserved(flash["working"].log)))

\* PreserveRecord is FALSE: the header is the one InitFtwProtocol made.
FtwReclaimNewWorkSpace == Enter("ReclaimNew", ReclaimBody({"sig"}, <<>>))

\* Mutant: the log is never reclaimed.
RefreshOnly == Enter("Refresh", <<>>)

\* Mutant: the log is read again until the header is valid.
RefreshUntilValid ==
  Enter("Refresh",
        IF ~ IsValidWorkSpace("working") THEN Call("Refresh")
        ELSE IF Full(flash["working"].log) THEN Call("Reclaim") ELSE <<>>)

\* The log is read again, and reclaimed first when it has no room left.
\* The header is not looked at.
WorkSpaceRefresh ==
  Enter("Refresh",
        IF Full(flash["working"].log) THEN Call("Reclaim") ELSE <<>>)

-----------------------------------------------------------------------------
(* InitFtwProtocol, in the order of its blocks                             *)

InitBody ==
  Call("Refresh") \o Call("TrySpare") \o Call("AbortUnready")
    \o Call("AbortDone") \o Call("CheckTail") \o Call("RestartLast")
    \o Call("Hook")

\* An area whose volume header is damaged gets an empty one when the block
\* services start: its first sector is erased and the header written.
FvbInitialize ==
  LET Repair(a) == IF flash[a].data /= Lost THEN <<>>
                   ELSE IF part.sector = "4K" THEN <<Erase(a, {"data"})>>
                   ELSE <<Erase(a, {"data", "ws"})>>
  IN  /\ power = "off"
      /\ power' = "boot"
      /\ todo' = Repair("working") \o Repair("other") \o InitBody
      /\ UNCHANGED <<part, flash, asked, writes, cuts>>

\* A work space that is not valid is replaced from the spare block, if that
\* is valid, and initialised if not.
TrySpareBlock ==
  Enter("TrySpare",
        IF IsValidWorkSpace("working") THEN <<>>
        ELSE IF IsValidWorkSpace("spare")
          THEN Call("FlushToWorking") \o Call("Abort") \o Call("Refresh")
          ELSE Call("ReclaimNew"))

\* Mutant: a write that never reached the spare block stays in the log.
KeepUnready == Enter("AbortUnready", <<>>)

\* The first record of the last write is not in the spare block: give it up.
AbortUnready ==
  Enter("AbortUnready",
        IF "alloc" \in Last /\ "spare" \notin Last THEN Call("Abort") ELSE <<>>)

\* The last record is done and only the header's Complete bit is missing.
AbortDone == Enter("AbortDone", IF "dest" \in Last THEN Call("Abort") ELSE <<>>)

\* What follows the last write is not erased: reclaim.
CheckTail ==
  Enter("CheckTail",
        IF TornTail(flash["working"].log) THEN Call("Reclaim") ELSE <<>>)

\* Mutant: a write that is complete in the spare block is given up.
AbandonLast ==
  Enter("RestartLast", IF "spare" \in Last THEN Call("Abort") ELSE <<>>)

\* The image is complete in the spare block: finish the write.
RestartLast ==
  Enter("RestartLast",
        IF "spare" \in Last THEN Call("Restart") \o Call("Abort") ELSE <<>>)

\* The protocol is installed; the callers find what the blocks now hold.
HookProtocol ==
  /\ AtHand("call") /\ Head(todo).fn = "Hook"
  /\ todo' = Tail(todo)
  /\ power' = "ready"
  /\ asked' = [t \in Targets |-> flash[t].data]
  /\ UNCHANGED <<part, flash, writes, cuts>>

-----------------------------------------------------------------------------
(* The protocol functions (external), as the driver relies on them         *)

\* FtwAbort: complete the last write, whatever its state.
FtwAbort ==
  Enter("Abort",
        Call("Refresh")
          \o IF "alloc" \in Last
               THEN SetRecord("working",
                              FtwGetLastWriteHeader(flash["working"].log),
                              {"complete"})
               ELSE <<>>)

\* Flush the spare block to the target, then mark the record and the header.
\* The copy of the log in the spare block gets its mark first when the target
\* is the working block.
FtwWriteRecord ==
  LET i == FtwGetLastWriteHeader(flash["working"].log)
  IN  Enter("WriteRecord",
            (IF "working" \in Last
               THEN SetRecord("spare", i, {"spare"}) \o Call("FlushToWorking")
               ELSE Call("FlushToTarget"))
            \o SetRecord("working", i, {"dest"})
            \o SetRecord("working", i, {"complete"}))

\* FtwRestart: the spare block is not needed afterwards.
FtwRestart ==
  Enter("Restart", Call("Refresh") \o Call("WriteRecord") \o FtwEraseSpareBlock)

\* FtwWrite of a new image of target t.
FtwWrite(t) ==
  /\ power = "ready" /\ todo = <<>>
  /\ writes < MaxWrites
  /\ writes' = writes + 1
  /\ asked' = [asked EXCEPT ![t] = writes + 1]
  /\ todo' = Call("Refresh") \o <<[do |-> "append", at |-> "working"]>>
             \o <<[do |-> "call", fn |-> "Describe", target |-> t]>>
  /\ UNCHANGED <<part, flash, power, cuts>>

\* The record says where the data go.
FtwWriteDescribe ==
  LET t == Head(todo).target
      i == FtwGetLastWriteHeader(flash["working"].log)
  IN  Enter("Describe",
            SetRecord("working", i, {"rec", t})
              \o <<[do |-> "call", fn |-> "Store", target |-> t]>>)

\* The image goes to the spare block, the SPARE_COMPLETED bit commits it, and
\* the spare block gets its content back when the target is written.
FtwWriteStore ==
  LET t     == Head(todo).target
      image == IF t = "working"
                 THEN [flash["working"] EXCEPT !.data = asked[t]]
                 ELSE [Erased EXCEPT !.data = asked[t]]
      i     == FtwGetLastWriteHeader(flash["working"].log)
  IN  Enter("Store",
            FtwEraseSpareBlock \o WriteBlocks("spare", image)
              \o SetRecord("working", i, {"spare"}) \o Call("WriteRecord")
              \o FtwEraseSpareBlock \o WriteBlocks("spare", flash["spare"]))

-----------------------------------------------------------------------------
(* Power                                                                   *)

\* What an operation cut in the middle leaves: an erase and a write of data
\* leave no image, a half written work space has its header and no log, a
\* half written write header has its state byte (the first) and no length.
Torn(op) ==
  CASE op.do = "erase" -> ErasedIn(flash[op.at], op.parts)
    [] op.do = "write" /\ op.parts = {"ws"} ->
         WrittenIn(flash[op.at], op.parts, [op.img EXCEPT !.log = <<>>])
    [] op.do = "append" ->
         [flash[op.at] EXCEPT !.log = Append(@, {"alloc", "torn"})]
    [] OTHER -> flash[op.at]

PowerFails ==
  /\ power /= "off"
  /\ cuts < MaxCuts
  /\ cuts' = cuts + 1
  /\ power' = "off"
  /\ todo' = <<>>
  /\ \/ UNCHANGED flash
     \/ /\ todo /= <<>> /\ Head(todo).do /= "call"
        /\ flash' = [flash EXCEPT ![Head(todo).at] = Torn(Head(todo))]
  /\ UNCHANGED <<part, asked, writes>>

-----------------------------------------------------------------------------
\* A board is made with a work space in the working block, or without one.
Init ==
  /\ part \in Parts
  /\ flash \in [Areas -> {Erased, [Erased EXCEPT !.data = 0],
                          [Erased EXCEPT !.data = 0, !.hdr = {"sig", "valid"}]}]
  /\ flash["spare"] = Erased
  /\ flash["other"] = [Erased EXCEPT !.data = 0]
  /\ flash["working"] /= Erased
  /\ todo = <<>> /\ power = "off"
  /\ asked = [t \in Targets |-> 0]
  /\ writes = 0 /\ cuts = 0

Flash == FvbEraseBlock \/ FvbWriteBlock \/ FtwUpdateFvState \/ WriteHeader

Functions == \/ FlushSpareBlockToWorkingBlock \/ FlushSpareBlockToTargetBlock
             \/ FtwReclaimWorkSpace \/ FtwReclaimNewWorkSpace \/ WorkSpaceRefresh
             \/ TrySpareBlock \/ AbortUnready \/ AbortDone \/ CheckTail
             \/ RestartLast \/ HookProtocol \/ FtwAbort \/ FtwWriteRecord
             \/ FtwRestart \/ FtwWriteDescribe \/ FtwWriteStore

Driver == FvbInitialize \/ Flash \/ Functions

Next == Driver \/ (\E t \in Targets : FtwWrite(t)) \/ PowerFails

Spec == Init /\ [][Next]_vars

\* The driver runs on while there is power, and the power comes back.
FairSpec == Spec /\ WF_vars(Driver)

-----------------------------------------------------------------------------
(* Properties                                                              *)

Idle == power = "ready" /\ todo = <<>>

Images == -1 .. MaxWrites

AreaContents == [data : Images, hdr : SUBSET HeaderBits, log : Seq(SUBSET EntryBits)]

\* Every step of the driver finds the flash and its own state well formed:
\* the log never outgrows the work space, whatever was cut short.
TypeOK ==
  /\ part \in Parts
  /\ DOMAIN flash = Areas
  /\ \A a \in Areas : flash[a] \in AreaContents /\ Len(flash[a].log) <= part.cap
  /\ power \in {"off", "boot", "ready"}
  /\ asked \in [Targets -> Images]
  /\ writes \in 0 .. MaxWrites /\ cuts \in 0 .. MaxCuts

\* Whenever the services are open and idle the work space is valid, no write
\* is left half done in its log (FtwAllocate would refuse the next one), and
\* every target holds what its last successful write asked for.
SettledWhenIdle ==
  Idle => /\ IsValidWorkSpace("working")
          /\ Last = {}
          /\ \A t \in Targets : flash[t].data = asked[t]

\* No power failure, at any step and any number of times, costs the content
\* of a block: when the services are open again every target holds an image.
NothingIsLost == Idle => \A t \in Targets : flash[t].data /= Lost

\* What the next start-up makes of the flash as it is now.
Recovered(t) ==
  LET w == flash["working"]
      FromSpare == /\ {"spare", t} \subseteq Last
                   /\ Last \cap {"dest", "complete"} = {}
  IN  IF t = "other"
        THEN IF FromSpare /\ IsValidWorkSpace("working")
               THEN flash["spare"].data ELSE flash[t].data
      ELSE IF Full(w.log) THEN w.data
      ELSE IF IsValidWorkSpace("working")
        THEN IF FromSpare THEN flash["spare"].data ELSE w.data
      ELSE IF IsValidWorkSpace("spare") THEN flash["spare"].data
      ELSE w.data

Store == INSTANCE NvStore WITH Values <- 0 .. MaxWrites,
                               value  <- [t \in Targets |-> Recovered(t)]

\* The driver over failing power is an atomic store: a target goes from the
\* old image to the one asked for in one step, the programming of the
\* SPARE_COMPLETED bit, and never back; a write cut before it is dropped.
StoreIsAtomic == Store!Spec

\* However often the power fails, start-up comes to an end with the services
\* open, and every FtwWrite() returns.
Recovers == []<>Idle
=============================================================================
