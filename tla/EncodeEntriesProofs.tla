------------------------- MODULE EncodeEntriesProofs -------------------------
(***************************************************************************)
(* The C encoder, for every input, alphabet and size of the address space: *)
(* no construct costs more than block mode spends on the bytes it covers,  *)
(* so the first allocation always suffices, and a call that returns OK     *)
(* returns the canonical encoding of all of its input.  Then the entry     *)
(* points beside it: what the Rust function of the same interface, the     *)
(* Python module and the encoders in Go and TypeScript return.             *)
(***************************************************************************)
EXTENDS EncodeEntries, EncodeRangeProofs

-----------------------------------------------------------------------------
(* The frame of the call.                                                  *)

\* Unlike a call of encode_range, the C loop may stand at the end of the input
\* with a run pending; it has no other bound and no meeting point.
LoopInv(d, e) ==
  /\ FrameCore(d, e)
  /\ e.start = 0 /\ e.stop = Len(d) /\ e.meet = {}
  /\ ~e.running => e.block_start = NoBlock /\ e.pos = Len(d)

\* A call that takes an iteration is one of encode_range.
LEMMA InLoopFrame ==
  ASSUME NEW d \in Seq(Byte), NEW e, LoopInv(d, e), e.running, ~Stops(d, e)
  PROVE  FrameInv(d, e) /\ e.pos \in 0..(Len(d) - 1)
<1>1. e.pos \in 0..Len(d)
  BY DEF LoopInv, FrameCore, Frames
<1>2. ~(e.pos >= Len(d))
  BY DEF Stops
<1> QED BY <1>1, <1>2 DEF LoopInv, FrameInv

\* What is pending and what is written share the bytes before the cursor.
LEMMA PendingFacts ==
  ASSUME NEW d \in Seq(Byte), NEW e, LoopInv(d, e)
  PROVE  LET n == IF e.block_start = NoBlock THEN 0 ELSE e.pos - e.block_start
         IN  /\ n \in Nat /\ OutEnd(e) \in Nat /\ OutEnd(e) + n = e.pos
             /\ e.pos \in 0..Len(d) /\ e.block_start \in {NoBlock} \cup 0..e.pos
             /\ e.pos # Len(d) => n % 4 = 0
<1>1. e.pos \in 0..Len(d) /\ e.start = 0
  BY DEF LoopInv, FrameCore, Frames
<1>2. CASE e.block_start = NoBlock
  BY <1>1, <1>2 DEF OutEnd
<1>3. CASE e.block_start # NoBlock
  <2>1. /\ e.block_start \in 0..(e.pos - 1)
        /\ (e.pos - e.block_start) % 4 = 0 \/ e.pos = Len(d)
    BY <1>1, <1>3 DEF LoopInv, FrameCore, PendingOK, BlockRun
  <2> QED BY <1>1, <1>3, <2>1 DEF OutEnd
<1> QED BY <1>2, <1>3

\* An iteration that keeps the frame of encode_range keeps that of the C loop.
LEMMA GrewLoop ==
  ASSUME NEW d \in Seq(Byte), NEW e, NEW f,
         LoopInv(d, e), FrameCore(d, f), Grew(d, e, f),
         ~f.running => f.block_start = NoBlock /\ f.pos = Len(d)
  PROVE  LoopInv(d, f)
BY DEF LoopInv, Grew

-----------------------------------------------------------------------------
(* What the constructs cost.                                               *)

\* Block mode spends five characters on four bytes and one more than their
\* number on a remainder.
LEMMA BlockCost ==
  ASSUME NEW n \in Nat
  PROVE  /\ BlockModeChars(n) \in Nat
         /\ 4 * BlockModeChars(n) <= 5 * n + 3
         /\ n % 4 = 0 => 4 * BlockModeChars(n) = 5 * n
         /\ BlockModeChars(n) = RunChars(n)
BY DEF BlockModeChars, RunChars

-----------------------------------------------------------------------------
(* The invariant of the call.                                              *)

\* What the output accounts for: all of the input once the loop is left.
Accounted == IF call.running THEN 5 * OutEnd(call) ELSE 5 * Len(data) + 3

\* The size that encode_capacity computes, where it does not wrap.
Capacity == Len(data) + Len(data) \div 4 + 16

\* The inductive invariant: ReturnsWhole rests on the loop's frame, and
\* NeverGrows on what is written having cost no more than block mode would.
CallInv ==
  /\ data \in Inputs /\ legal \in BOOLEAN
  /\ DOMAIN enc = {1} /\ LoopInv(data, call)
  /\ phase = "call" =>
       /\ call.running /\ OutEnd(call) = 0 /\ call.out = <<>>
       /\ cap = 0 /\ w = 0 /\ status = "OK" /\ heap = {} /\ result = Unset
  /\ phase = "encode" =>
       /\ Capacity <= SizeMax /\ cap = Capacity /\ w \in Nat /\ 4 * w <= Accounted
       /\ w = CharsOf(call.out)
       /\ status = "OK" /\ heap = {"out"} /\ result = Unset
  /\ phase \in {"call", "encode", "returned"}
  /\ TypeOK /\ ReturnsWhole /\ LengthWritten

\* The initial states satisfy the invariant.
LEMMA InitCallInv == Init => CallInv
<1> SUFFICES ASSUME Init PROVE CallInv
  OBVIOUS
<1> DEFINE e == Call(0, Len(data), {}, FALSE)
<1>1. data \in Seq(Byte) /\ data \in Inputs
  BY InputsAssumption DEF Init
<1>2. call = e /\ DOMAIN enc = {1}
  BY DEF Init, call
<1>3. FrameInv(data, e)
  <2>1. Len(data) \in 0..Len(data) /\ 0 <= Len(data)
    BY <1>1
  <2> QED BY <1>1, <2>1, CallInit
<1>4. /\ e.start = 0 /\ e.stop = Len(data) /\ e.meet = {} /\ e.running
      /\ e.block_start = NoBlock /\ e.pos = 0 /\ e.out = <<>>
  BY DEF Call
<1> HIDE DEF e
<1>5. LoopInv(data, e) /\ OutEnd(e) = 0
  BY <1>3, <1>4 DEF LoopInv, FrameInv, OutEnd
<1>6. TypeOK
  BY <1>1, <1>2, <1>4, SizeAssumption DEF TypeOK, Init
<1> QED BY <1>1, <1>2, <1>4, <1>5, <1>6 DEF CallInv, Init, ReturnsWhole, LengthWritten

-----------------------------------------------------------------------------
(* The steps.                                                              *)

\* While what is written and what is needed cost no more than block mode would,
\* the buffer of the first allocation has the room.
LEMMA RoomEnough ==
  ASSUME CallInv, phase = "encode", NEW need \in Nat,
         4 * (w + need) <= 5 * Len(data) + 3
  PROVE  Ensured(need) = {cap} /\ w + need + 1 <= cap
<1>1. Len(data) \in Nat /\ w \in Nat /\ cap = Len(data) + Len(data) \div 4 + 16
  BY InputsAssumption DEF CallInv, Capacity
<1> DEFINE n == Len(data)
<1> HIDE DEF n
<1>2. w + need + 1 <= n + n \div 4 + 16
  BY <1>1 DEF n
<1>3. need + 1 <= cap - w
  BY <1>1, <1>2 DEF n
<1> QED BY <1>1, <1>2, <1>3 DEF Ensured, n

\* What a flush, and a construct after it, bring the characters written to.
LEMMA WrittenIs ==
  ASSUME CallInv, phase = "encode"
  PROVE  /\ w = CharsOf(call.out)
         /\ CharsOf(Flushed(data, call)) = w + BlockModeChars(Pending)
         /\ \A u \in Units(data) :
              CharsOf(Append(Flushed(data, call), u)) = w + BlockModeChars(Pending) + Chars(u)
<1>1. w = CharsOf(call.out) /\ data \in Seq(Byte) /\ FrameCore(data, call)
  BY InputsAssumption DEF CallInv, LoopInv
<1>2. Pending = PendingBytes(call)
  BY DEF Pending, PendingBytes
<1>3. PendingBytes(call) \in Nat
  BY <1>1, FrameChars
<1>4. BlockModeChars(Pending) = RunChars(PendingBytes(call))
  BY <1>2, <1>3, BlockCost
<1> QED BY <1>1, <1>4, FrameChars

\* A write of need characters that takes the call to frame f.
LEMMA WriteGood ==
  ASSUME CallInv, phase = "encode", NEW need \in Nat, NEW f,
         LoopInv(data, f), enc' = [enc EXCEPT ![1] = f], data' = data,
         4 * (w + need) <= (IF f.running THEN 5 * OutEnd(f) ELSE 5 * Len(data) + 3),
         OutEnd(f) <= Len(data), w + need = CharsOf(f.out),
         w' = w + need, cap' = cap,
         UNCHANGED <<legal, phase, status, heap, result>>
  PROVE  CallInv'
<1>1. DOMAIN enc' = {1} /\ call' = f
  BY DEF CallInv, call
<1>2. data \in Seq(Byte) /\ Len(data) \in Nat
  BY InputsAssumption DEF CallInv
<1>3. /\ OutEnd(f) \in Nat
      /\ f.pos \in 0..Len(data) /\ f.block_start \in {NoBlock} \cup 0..f.pos
  BY <1>2, PendingFacts
<1>4. 4 * (w + need) <= 5 * Len(data) + 3
  BY <1>2, <1>3
<1>5. /\ w + need + 1 <= cap /\ w \in Nat /\ cap = Capacity /\ Capacity <= SizeMax
      /\ Capacity \in Nat
  BY <1>2, <1>4, RoomEnough DEF CallInv, Capacity
<1>6. Accounted' = (IF f.running THEN 5 * OutEnd(f) ELSE 5 * Len(data) + 3)
  BY <1>1 DEF Accounted
<1>7. Capacity' = Capacity
  BY DEF Capacity
<1>8. w' \in 0..cap' /\ cap' \in 0..SizeMax /\ 4 * w' <= Accounted'
  BY <1>5, <1>6, SizeAssumption
<1>9. TypeOK'
  BY <1>1, <1>3, <1>8 DEF CallInv, TypeOK
<1>10. LoopInv(data, call)'
  BY <1>1
<1>11. w' = CharsOf(call.out)'
  BY <1>1
<1> QED BY <1>1, <1>5, <1>7, <1>8, <1>9, <1>10, <1>11 DEF CallInv, ReturnsWhole, LengthWritten

\* Room for what a step writes is there, so the step is taken.
LEMMA WithRoomTakes ==
  ASSUME CallInv, phase = "encode", NEW need \in Nat, NEW ACTION step,
         4 * (w + need) <= 5 * Len(data) + 3,
         WithRoom(need, step)
  PROVE  step /\ w' = w + need /\ cap' = cap /\ UNCHANGED <<legal, phase, status, heap, result>>
<1>1. Ensured(need) = {cap}
  BY RoomEnough
<1>2. cap # NoRoom
  BY DEF CallInv, TypeOK, NoRoom
<1> QED BY <1>1, <1>2 DEF WithRoom

\* The pending run and a construct of cost characters that covers len bytes
\* fit into the room block mode would need up to the end of the construct.
LEMMA WriteCost ==
  ASSUME CallInv, phase = "encode", call.running, call.pos < Len(data),
         NEW cost \in Nat, NEW len \in 1..(Len(data) - call.pos), 4 * cost <= 5 * len
  PROVE  LET need == BlockModeChars(Pending) + cost
         IN  /\ need \in Nat /\ 4 * (w + need) <= 5 * (call.pos + len)
             /\ 4 * (w + need) <= 5 * Len(data) + 3
<1> DEFINE d == data
           e == call
           n == Pending
           block == BlockModeChars(n)
           before == OutEnd(e)
           pos == e.pos
           size == Len(d)
<1>1. d \in Seq(Byte) /\ LoopInv(d, e) /\ size \in Nat /\ pos < size
  BY InputsAssumption DEF CallInv
<1>2. n \in Nat /\ before \in Nat /\ before + n = pos /\ n % 4 = 0
  BY <1>1, PendingFacts DEF Pending
<1>3. block \in Nat /\ 4 * block = 5 * n
  BY <1>2, BlockCost
<1>4. w \in Nat /\ 4 * w <= 5 * before
  BY DEF CallInv, Accounted
<1>5. len \in 1..(size - pos)
  OBVIOUS
<1> HIDE DEF n, block, before, pos, size
<1>6. /\ block + cost \in Nat /\ 4 * (w + (block + cost)) <= 5 * (pos + len)
      /\ 4 * (w + (block + cost)) <= 5 * size + 3
  BY <1>1, <1>2, <1>3, <1>4, <1>5
<1> QED BY <1>6 DEF block, n, pos, size

\* A Fill pays for itself.
LEMMA WriteFillGood == CallInv /\ WriteFill => CallInv'
<1> SUFFICES ASSUME CallInv, WriteFill PROVE CallInv'
  OBVIOUS
<1> DEFINE d == data
           e == call
           unit == UnitAt(d, e.pos)
           f == [Emitted(d, e, unit) EXCEPT !.xlat = e.xlat]
           need == BlockModeChars(Pending) + 5
<1>1. /\ d \in Seq(Byte) /\ LoopInv(d, e) /\ phase = "encode"
      /\ e.running /\ ~Stops(d, e) /\ FillCovers(d, e.pos) > 0
      /\ WithRoom(need, EmitFill(1))
  BY InputsAssumption DEF CallInv, WriteFill, InLoop, FillHere
<1>2. FrameInv(d, e) /\ e.pos \in 0..(Len(d) - 1) /\ e \in Frames(d)
  BY <1>1, InLoopFrame DEF FrameInv, FrameCore
<1>3. unit = ChooseFill(d, e.pos) /\ unit.len = FillCovers(d, e.pos)
  BY <1>1 DEF UnitAt, ChooseFill
<1>4. unit.len \in 5..(Len(d) - e.pos)
  <2>1. unit.len \in 1..(Len(d) - e.pos)
    BY <1>1, <1>2, UnitFacts
  <2>2. unit.len >= 5
    BY <1>1, <1>2, <1>3, FillCost
  <2> QED BY <2>1, <2>2
<1>5. FrameInv(d, f) /\ Grew(d, e, f)
  <2>1. e.xlat \in Xlats(d)
    BY <1>2 DEF Frames
  <2> QED BY <1>1, <1>2, <2>1, EmittedGood
<1>6. /\ f.running /\ f.pos = e.pos + unit.len /\ f.block_start = NoBlock
      /\ f.xlat = e.xlat
  BY <1>1, <1>2 DEF Emitted, Frames
<1>7. f = Emitted(d, e, unit)
  BY <1>2 DEF Emitted, Frames
<1>8. LoopInv(d, f)
  BY <1>1, <1>5, <1>6, GrewLoop DEF FrameInv
<1>9. OutEnd(f) = e.pos + unit.len
  BY <1>6 DEF OutEnd
<1>10. e.pos < Len(d) /\ e.pos + unit.len <= Len(d) /\ 20 <= 5 * unit.len
  <2> HIDE DEF unit, e, d
  <2>1. Len(d) \in Nat
    BY <1>1
  <2> QED BY <1>2, <1>4, <2>1
<1>11. /\ need \in Nat /\ 4 * (w + need) <= 5 * OutEnd(f) /\ OutEnd(f) <= Len(d)
       /\ 4 * (w + need) <= 5 * Len(data) + 3
  <2> HIDE DEF f
  <2> DEFINE len == unit.len
  <2>1. len \in 1..(Len(data) - call.pos) /\ 4 * 5 <= 5 * len
    BY <1>4, <1>10
  <2> HIDE DEF len
  <2>2. /\ need \in Nat /\ 4 * (w + need) <= 5 * (call.pos + len)
        /\ 4 * (w + need) <= 5 * Len(data) + 3
    BY <1>1, <1>10, <2>1, WriteCost
  <2> QED BY <1>9, <1>10, <2>2 DEF len
<1> HIDE DEF need
<1>12. EmitFill(1) /\ w' = w + need /\ cap' = cap /\ UNCHANGED <<legal, phase, status, heap, result>>
  BY <1>1, <1>11, WithRoomTakes
<1>13. enc' = [enc EXCEPT ![1] = f] /\ data' = data
  <2>1. Advance(1, Emitted(data, enc[1], ChooseFill(data, enc[1].pos)))
    BY <1>12 DEF EmitFill
  <2>2. f = Emitted(data, enc[1], ChooseFill(data, enc[1].pos))
    BY <1>3, <1>7 DEF call
  <2> HIDE DEF f
  <2> QED BY <2>1, <2>2 DEF Advance
<1>14. w + need = CharsOf(f.out)
  <2>1. Chars(unit) = 5 /\ unit \in Units(d)
    BY <1>1, <1>2, UnitLong, UnitFacts
  <2>2. f.out = Append(Flushed(d, e), unit)
    BY <1>2 DEF Emitted, Frames
  <2>3. CharsOf(Append(Flushed(d, e), unit)) = w + BlockModeChars(Pending) + Chars(unit)
    BY <1>1, <2>1, WrittenIs
  <2>4. w \in Nat /\ Pending \in Nat /\ BlockModeChars(Pending) \in Nat
    BY <1>1, PendingFacts, BlockCost DEF Pending, CallInv
  <2> HIDE DEF f, unit
  <2> QED BY <2>1, <2>2, <2>3, <2>4 DEF need
<1> HIDE DEF f
<1> QED BY <1>1, <1>6, <1>8, <1>11, <1>12, <1>13, <1>14, WriteGood

\* A segment is long enough to pay for its signal.
LEMMA WriteDpGood == CallInv /\ WriteDp => CallInv'
<1> SUFFICES ASSUME CallInv, WriteDp PROVE CallInv'
  OBVIOUS
<1> DEFINE d == data
           e == call
           len == DpLen(d, e.pos)
           profile == DpProfile(d, e.pos, len)
           mask == DpMask(d, e.pos, len)
           xlat == Xlat(e, <<profile, mask>>)
           unit == UnitAt(d, e.pos)
           f == [Emitted(d, e, unit) EXCEPT !.xlat = xlat]
           need == BlockModeChars(Pending) + 5 + len
           cost == 5 + len
<1>1. /\ d \in Seq(Byte) /\ LoopInv(d, e) /\ phase = "encode"
      /\ e.running /\ ~Stops(d, e) /\ ~(FillCovers(d, e.pos) > 0) /\ DpApplies(d, e.pos)
      /\ WithRoom(need, EmitDp(1))
  BY InputsAssumption DEF CallInv, WriteDp, InLoop, DpHere, FillHere
<1>2. FrameInv(d, e) /\ e.pos \in 0..(Len(d) - 1) /\ e \in Frames(d) /\ e.pos \in 0..Len(d)
  BY <1>1, InLoopFrame DEF FrameInv, FrameCore
<1>3. xlat \in Xlats(d) /\ xlat.donors = Donors(profile, mask)
  BY <1>1, <1>2, XlatGood
<1>4. unit = DpUnit(d, e.pos, len, xlat.donors) /\ unit.len = len
  BY <1>1, <1>3 DEF UnitAt, DpApplies, DpUnit
<1> HIDE DEF xlat
<1>5. unit.len \in 20..(Len(d) - e.pos)
  <2>1. unit.len \in 1..(Len(d) - e.pos)
    BY <1>1, <1>2, UnitFacts
  <2>2. unit.len >= 20
    BY <1>1, <1>4, <2>1, CostAssumption, ThresholdsAssumption DEF DpApplies
  <2> QED BY <2>1, <2>2
<1>6. FrameInv(d, f) /\ Grew(d, e, f)
  BY <1>1, <1>2, <1>3, EmittedGood
<1>7. f.running /\ f.pos = e.pos + unit.len /\ f.block_start = NoBlock
  BY <1>1, <1>2 DEF Emitted, Frames
<1>8. LoopInv(d, f)
  BY <1>1, <1>6, <1>7, GrewLoop DEF FrameInv
<1>9. OutEnd(f) = e.pos + unit.len
  BY <1>7 DEF OutEnd
<1>10. /\ e.pos < Len(d) /\ e.pos + unit.len <= Len(d)
       /\ cost \in Nat /\ 4 * cost <= 5 * unit.len
  <2>1. unit.len = len
    BY <1>4
  <2> HIDE DEF unit, e, d, len
  <2>2. Len(d) \in Nat
    BY <1>1
  <2> QED BY <1>2, <1>5, <2>1, <2>2
<1>11. /\ need \in Nat /\ 4 * (w + need) <= 5 * OutEnd(f) /\ OutEnd(f) <= Len(d)
       /\ 4 * (w + need) <= 5 * Len(data) + 3
  <2> HIDE DEF f
  <2> DEFINE covers == unit.len
  <2>1. covers \in 1..(Len(data) - call.pos) /\ 4 * cost <= 5 * covers
    BY <1>5, <1>10
  <2>2. Pending \in Nat /\ BlockModeChars(Pending) \in Nat
    BY <1>1, PendingFacts, BlockCost DEF Pending
  <2>3. need = BlockModeChars(Pending) + cost
    BY <1>4, <1>5, <2>2
  <2> HIDE DEF covers, cost, need
  <2>4. LET all == BlockModeChars(Pending) + cost
        IN  /\ all \in Nat /\ 4 * (w + all) <= 5 * (call.pos + covers)
            /\ 4 * (w + all) <= 5 * Len(data) + 3
    BY <1>1, <1>10, <2>1, WriteCost
  <2> QED BY <1>9, <1>10, <2>3, <2>4 DEF covers
<1> HIDE DEF need
<1>12. EmitDp(1) /\ w' = w + need /\ cap' = cap /\ UNCHANGED <<legal, phase, status, heap, result>>
  BY <1>1, <1>11, WithRoomTakes
<1>13. enc' = [enc EXCEPT ![1] = f] /\ data' = data
  <2>1. Advance(1, [Emitted(d, e, DpUnit(d, e.pos, len, xlat.donors)) EXCEPT !.xlat = xlat])
    BY <1>12 DEF EmitDp, call, xlat
  <2>2. Advance(1, f)
    BY <1>4, <2>1
  <2> HIDE DEF f
  <2> QED BY <2>2 DEF Advance
<1>14. w + need = CharsOf(f.out)
  <2>1. Chars(unit) = 5 + len /\ unit \in Units(d) /\ len \in Nat
    BY <1>1, <1>2, <1>4, <1>5, UnitLong, UnitFacts DEF DpApplies
  <2>2. f.out = Append(Flushed(d, e), unit)
    BY <1>2 DEF Emitted, Frames
  <2>3. CharsOf(Append(Flushed(d, e), unit)) = w + BlockModeChars(Pending) + Chars(unit)
    BY <1>1, <2>1, WrittenIs
  <2>4. w \in Nat /\ Pending \in Nat /\ BlockModeChars(Pending) \in Nat
    BY <1>1, PendingFacts, BlockCost DEF Pending, CallInv
  <2> HIDE DEF f, unit, len
  <2> QED BY <2>1, <2>2, <2>3, <2>4 DEF need
<1> HIDE DEF f
<1> QED BY <1>1, <1>7, <1>8, <1>11, <1>12, <1>13, <1>14, WriteGood

\* A group costs nothing until it is flushed.
LEMMA JoinBlockGood == CallInv /\ JoinBlock => CallInv'
<1> SUFFICES ASSUME CallInv, JoinBlock PROVE CallInv'
  OBVIOUS
<1> DEFINE d == data
           e == call
           f == Taken(d, e)
<1>1. /\ d \in Seq(Byte) /\ LoopInv(d, e) /\ phase = "encode"
      /\ e.running /\ ~Stops(d, e) /\ ~(FillCovers(d, e.pos) > 0) /\ ~DpApplies(d, e.pos)
      /\ Advance(1, f) /\ UNCHANGED <<legal, phase, cap, w, status, heap, result>>
  BY InputsAssumption DEF CallInv, JoinBlock, InLoop, DpHere, FillHere
<1>2. FrameInv(d, e) /\ e.pos \in 0..(Len(d) - 1) /\ e.pos \in 0..Len(d)
  BY <1>1, InLoopFrame
<1>3. OnlyBlock(d, e.pos)
  <2>1. FillCovers(d, e.pos) \in 0..(Len(d) - e.pos)
    BY <1>1, <1>2, FillNeeds
  <2> QED BY <1>1, <1>2, <2>1, GateSound DEF OnlyBlock
<1>4. FrameCore(d, f) /\ Grew(d, e, f) /\ f.running
  BY <1>1, <1>2, <1>3, TakenGood
<1>5. LoopInv(d, f)
  BY <1>1, <1>4, GrewLoop
<1>6. OutEnd(f) = OutEnd(e)
  <2>1. /\ f.block_start = (IF e.block_start = NoBlock THEN e.pos ELSE e.block_start)
    BY <1>2 DEF Taken, FrameInv, FrameCore, Frames
  <2>2. f.block_start # NoBlock
    BY <1>2, <2>1 DEF NoBlock
  <2> QED BY <2>1, <2>2 DEF OutEnd
<1>7. OutEnd(e) \in Nat /\ OutEnd(e) <= Len(d)
  <2>1. /\ OutEnd(e) \in Nat /\ e.pos \in 0..Len(d)
        /\ \E n \in Nat : OutEnd(e) + n = e.pos
    BY <1>1, PendingFacts, Zenon
  <2> HIDE DEF d, e
  <2>2. Len(d) \in Nat
    BY <1>1
  <2> QED BY <2>1, <2>2
<1>10. f.out = e.out
  BY <1>2 DEF Taken, FrameInv, FrameCore, Frames
<1> HIDE DEF f
<1>8. w \in Nat /\ 4 * w <= 5 * OutEnd(e) /\ w = CharsOf(e.out)
  BY <1>1 DEF CallInv, Accounted
<1>9. 4 * (w + 0) <= 5 * OutEnd(f) /\ w' = w + 0 /\ w + 0 = CharsOf(f.out)
  BY <1>1, <1>6, <1>8, <1>10
<1> QED BY <1>1, <1>4, <1>5, <1>6, <1>7, <1>9, WriteGood DEF Advance

\* At the end of the input the run still pending is written.
LEMMA LeaveLoopGood == CallInv /\ LeaveLoop => CallInv'
<1> SUFFICES ASSUME CallInv, LeaveLoop PROVE CallInv'
  OBVIOUS
<1> DEFINE d == data
           e == call
           f == Returned(d, e)
           need == BlockModeChars(Pending)
<1>1. /\ d \in Seq(Byte) /\ LoopInv(d, e) /\ phase = "encode"
      /\ e.running /\ Stops(d, e) /\ FrameCore(d, e) /\ e \in Frames(d)
  BY InputsAssumption DEF CallInv, LeaveLoop, LoopInv, FrameCore
<1>2. e.pos = Len(d) /\ e.stop = Len(d)
  BY <1>1 DEF Stops, LoopInv, Frames
<1>3. FrameInv(d, f) /\ Grew(d, e, f) /\ ~f.running
  BY <1>1, <1>2, ReturnedGood
<1>4. f.pos = e.pos /\ f.block_start = NoBlock /\ f.out = Flushed(d, e)
  BY <1>1 DEF Returned, Frames
<1>5. LoopInv(d, f)
  BY <1>1, <1>2, <1>3, <1>4, GrewLoop DEF FrameInv
<1>6. OutEnd(f) <= Len(data)
  BY <1>1, <1>2, <1>4 DEF OutEnd
<1>7. /\ Pending \in Nat /\ OutEnd(e) \in Nat /\ OutEnd(e) + Pending = Len(d)
  BY <1>1, <1>2, PendingFacts DEF Pending
<1>8. w \in Nat /\ 4 * w <= 5 * OutEnd(e)
  BY <1>1 DEF CallInv, Accounted
<1>9. need \in Nat /\ 4 * (w + need) <= 5 * Len(data) + 3
  <2>1. BlockModeChars(Pending) \in Nat /\ 4 * BlockModeChars(Pending) <= 5 * Pending + 3
    BY <1>7, BlockCost
  <2> DEFINE n == Pending
             before == OutEnd(e)
             block == BlockModeChars(n)
             size == Len(data)
  <2>2. /\ n \in Nat /\ before \in Nat /\ before + n = size /\ block \in Nat
        /\ 4 * block <= 5 * n + 3 /\ 4 * w <= 5 * before
    BY <1>7, <1>8, <2>1
  <2> HIDE DEF n, before, block, size
  <2>3. block \in Nat /\ 4 * (w + block) <= 5 * size + 3
    BY <1>8, <2>2
  <2> QED BY <2>3 DEF n, block, size
<1>10. e.block_start = NoBlock => 4 * (w + 0) <= 5 * Len(data) + 3 /\ w + 0 = w
  <2>1. e.block_start = NoBlock => OutEnd(e) = Len(d)
    BY <1>2 DEF OutEnd
  <2> QED BY <1>1, <1>8, <2>1
<1>13. w + need = CharsOf(f.out) /\ (e.block_start = NoBlock => w + 0 = CharsOf(f.out))
  <2>1. CharsOf(f.out) = w + need
    BY <1>1, <1>4, WrittenIs
  <2>2. e.block_start = NoBlock => f.out = e.out
    BY <1>4 DEF Flushed
  <2>3. w = CharsOf(e.out)
    BY <1>1, WrittenIs
  <2> QED BY <1>8, <2>1, <2>2, <2>3
<1>11. CASE e.block_start = NoBlock /\ Return(1)
             /\ UNCHANGED <<legal, phase, cap, w, status, heap, result>>
  <2>1. enc' = [enc EXCEPT ![1] = f] /\ data' = data
    BY <1>11 DEF Return, Advance, call
  <2> HIDE DEF f
  <2> QED BY <1>1, <1>3, <1>5, <1>6, <1>10, <1>11, <1>13, <2>1, WriteGood
<1>12. CASE e.block_start # NoBlock /\ WithRoom(need, Return(1))
  <2> HIDE DEF need
  <2>1. Return(1) /\ w' = w + need /\ cap' = cap
        /\ UNCHANGED <<legal, phase, status, heap, result>>
    BY <1>1, <1>9, <1>12, WithRoomTakes
  <2>2. enc' = [enc EXCEPT ![1] = f] /\ data' = data
    BY <2>1 DEF Return, Advance, call
  <2> HIDE DEF f
  <2> QED BY <1>1, <1>3, <1>5, <1>6, <1>9, <1>13, <2>1, <2>2, WriteGood
<1> QED BY <1>11, <1>12 DEF LeaveLoop

\* A refused call has touched nothing.
LEMMA RefusedGood ==
  ASSUME CallInv, phase = "call", phase' = "returned",
         status' \in {"INVALID_ARGUMENT", "ALLOC"},
         UNCHANGED <<data, enc, legal, cap, w, heap, result>>
  PROVE  CallInv'
<1>1. LoopInv(data, call)' /\ call' = call
  BY DEF CallInv, call
<1>2. TypeOK'
  BY <1>1 DEF CallInv, TypeOK
<1>3. ReturnsWhole'
  BY DEF CallInv, ReturnsWhole, Unset
<1>4. LengthWritten'
  BY DEF LengthWritten
<1> QED BY <1>1, <1>2, <1>3, <1>4 DEF CallInv

\* The size of the first allocation does not wrap for an input that is let in.
LEMMA AllocateOutputGood == CallInv /\ AllocateOutput => CallInv'
<1> SUFFICES ASSUME CallInv, AllocateOutput PROVE CallInv'
  OBVIOUS
<1>1. /\ phase = "call" /\ ~TooLong(Len(data)) /\ UNCHANGED <<data, enc, legal, w, result>>
  BY DEF AllocateOutput
<1>2. CASE phase' = "returned" /\ status' = "ALLOC" /\ UNCHANGED <<cap, heap>>
  BY <1>1, <1>2, RefusedGood
<1>3. CASE /\ phase' = "encode" /\ cap' = EncodeCapacity(Len(data)) /\ heap' = {"out"}
           /\ UNCHANGED status
  <2>1. Capacity \in Nat /\ Capacity <= SizeMax /\ EncodeCapacity(Len(data)) = Capacity
    <3> DEFINE n == Len(data)
    <3>1. n \in Nat /\ ~(n > (SizeMax - 16) \div 2)
      BY <1>1, InputsAssumption DEF CallInv, TooLong
    <3> HIDE DEF n
    <3>2. n + n \div 4 + 16 \in 0..SizeMax
      BY <3>1, SizeAssumption
    <3>3. (n + n \div 4 + 16) % (SizeMax + 1) = n + n \div 4 + 16
      <4> DEFINE x == n + n \div 4 + 16
                 m == SizeMax + 1
      <4>1. x \in 0..(m - 1) /\ m \in Nat \ {0}
        BY <3>2, SizeAssumption
      <4> HIDE DEF x, m
      <4>2. x % m = x
        BY <4>1
      <4> QED BY <4>2 DEF x, m
    <3> QED BY <3>2, <3>3 DEF Capacity, EncodeCapacity, n
  <2>2. call' = call /\ LoopInv(data, call)' /\ call.running /\ OutEnd(call) = 0
        /\ w = 0 /\ status = "OK" /\ result = Unset
    BY <1>1 DEF CallInv, call
  <2>3. Capacity' = Capacity /\ Accounted' = 0
    BY <1>1, <2>2 DEF Capacity, Accounted
  <2>4. TypeOK'
    BY <1>1, <1>3, <2>1, <2>2, SizeAssumption DEF CallInv, TypeOK
  <2>5. ReturnsWhole' /\ LengthWritten'
    BY <1>3 DEF ReturnsWhole, LengthWritten
  <2>6. w' = CharsOf(call.out)'
    <3>1. call.out = <<>>
      BY <1>1 DEF CallInv
    <3>2. CharsOf(<<>>) = 0
      BY CharsOfUnit, Chars([kind |-> "solid"]) = 5 DEF Chars
    <3> QED BY <1>1, <2>2, <3>1, <3>2
  <2> QED BY <1>1, <1>3, <2>1, <2>2, <2>3, <2>4, <2>5, <2>6 DEF CallInv
<1> QED BY <1>1, <1>2, <1>3 DEF AllocateOutput

\* What is returned is what the loop left.
LEMMA FinishGood == CallInv /\ Finish => CallInv'
<1> SUFFICES ASSUME CallInv, Finish PROVE CallInv'
  OBVIOUS
<1>1. /\ phase = "encode" /\ ~call.running /\ phase' = "returned" /\ cap' \in {cap, w + 1}
      /\ result' = [set |-> TRUE, units |-> call.out, len |-> w]
      /\ UNCHANGED <<data, enc, legal, w, status, heap>>
  BY DEF Finish
<1>2. data \in Seq(Byte) /\ LoopInv(data, call) /\ call' = call
  BY <1>1, InputsAssumption DEF CallInv, call
<1>3. Canon(data, 0, call.out, Len(data))
  <2>1. call.block_start = NoBlock /\ call.pos = Len(data) /\ call.start = 0
    BY <1>1, <1>2 DEF LoopInv
  <2>2. OutEnd(call) = Len(data)
    BY <2>1 DEF OutEnd
  <2> HIDE DEF call
  <2> QED BY <1>2, <2>1, <2>2 DEF LoopInv, FrameCore
<1>4. w \in Nat /\ w + 1 <= cap /\ cap \in 0..SizeMax
  <2> DEFINE n == Len(data)
  <2>1. n \in Nat /\ w \in Nat /\ 4 * w <= 5 * n + 3 /\ cap = n + n \div 4 + 16
    BY <1>1, <1>2 DEF CallInv, Accounted, Capacity
  <2> HIDE DEF n
  <2>2. w + 1 <= cap
    BY <2>1
  <2> QED BY <2>1, <2>2 DEF CallInv, TypeOK
<1>5. w + 1 <= cap' /\ cap' \in 0..SizeMax
  BY <1>1, <1>4, SizeAssumption
<1>6. result'.set /\ result'.units = call.out
  BY <1>1
<1>7. ReturnsWhole'
  BY <1>1, <1>2, <1>3, <1>5, <1>6 DEF CallInv, ReturnsWhole
<1>8. TypeOK'
  BY <1>1, <1>2, <1>4, <1>5 DEF CallInv, TypeOK
<1>9. LengthWritten'
  <2>1. w = CharsOf(call.out)
    BY <1>1 DEF CallInv
  <2>2. result'.len = w /\ result'.units = call.out
    BY <1>1
  <2> QED BY <1>1, <1>2, <2>1, <2>2 DEF LengthWritten
<1> QED BY <1>1, <1>2, <1>7, <1>8, <1>9 DEF CallInv

\* Every step keeps the invariant.
LEMMA NextCallInv == CallInv /\ [Next]_vars => CallInv'
<1> SUFFICES ASSUME CallInv, [Next]_vars PROVE CallInv'
  OBVIOUS
<1>1. CASE UNCHANGED vars
  BY <1>1 DEF CallInv, vars, call, LoopInv, Accounted, Capacity, TypeOK, ReturnsWhole,
             LengthWritten
<1>2. CASE RefuseArguments
  BY <1>2, RefusedGood DEF RefuseArguments
<1>3. CASE RefuseLength
  BY <1>3, RefusedGood DEF RefuseLength
<1>4. CASE AllocateOutput
  BY <1>4, AllocateOutputGood
<1>5. CASE WriteFill
  BY <1>5, WriteFillGood
<1>6. CASE WriteDp
  BY <1>6, WriteDpGood
<1>7. CASE JoinBlock
  BY <1>7, JoinBlockGood
<1>8. CASE LeaveLoop
  BY <1>8, LeaveLoopGood
<1>9. CASE Finish
  BY <1>9, FinishGood
<1> QED BY <1>1, <1>2, <1>3, <1>4, <1>5, <1>6, <1>7, <1>8, <1>9 DEF Next

\* The inductive invariant of the C encoder holds at every step.
THEOREM CEncodeInvariant == Spec => []CallInv
BY InitCallInv, NextCallInv, PTL DEF Spec

\* The variables of a call have their types at every step.
THEOREM CEncodeTypeOK == Spec => []TypeOK
<1>1. CallInv => TypeOK
  BY DEF CallInv
<1> QED BY <1>1, CEncodeInvariant, PTL

\* The first allocation suffices for every input: no write of the loop ever
\* has to grow the buffer, and its size does not wrap.
THEOREM CEncodeNeverGrows == Spec => []NeverGrows
<1>1. CallInv => NeverGrows
  <2> SUFFICES ASSUME CallInv, phase = "encode"
               PROVE  cap = Len(data) + Len(data) \div 4 + 16 /\ w + 1 <= cap
    BY DEF NeverGrows
  <2>1. Len(data) \in Nat /\ LoopInv(data, call) /\ data \in Seq(Byte)
    BY InputsAssumption DEF CallInv
  <2>2. OutEnd(call) \in Nat /\ OutEnd(call) <= Len(data)
    <3> DEFINE e == call
    <3>1. /\ OutEnd(e) \in Nat /\ e.pos \in 0..Len(data)
          /\ \E n \in Nat : OutEnd(e) + n = e.pos
      BY <2>1, PendingFacts, Zenon
    <3> HIDE DEF e
    <3>2. OutEnd(e) <= Len(data)
      BY <2>1, <3>1
    <3> QED BY <3>1, <3>2 DEF e
  <2>3. w \in Nat /\ cap = Capacity /\ 4 * w <= 5 * Len(data) + 3
    BY <2>1, <2>2 DEF CallInv, Accounted
  <2> QED BY <2>1, <2>3 DEF Capacity
<1> QED BY <1>1, CEncodeInvariant, PTL

\* A call that returns OK returns the canonical encoding of all of its input,
\* and one that does not has freed what it allocated and set nothing.
THEOREM CEncodeReturnsWhole == Spec => []ReturnsWhole
<1>1. CallInv => ReturnsWhole
  BY DEF CallInv
<1> QED BY <1>1, CEncodeInvariant, PTL

\* The length reported with the string is what its constructs are long, each
\* by itself: the characters counted before each write were those written.
THEOREM CEncodeLengthWritten == Spec => []LengthWritten
<1>1. CallInv => LengthWritten
  BY DEF CallInv
<1> QED BY <1>1, CEncodeInvariant, PTL

-----------------------------------------------------------------------------
(* The loop of Go and TypeScript.                                          *)

\* A position at which the lookahead sees nothing holds neither a Fill nor a
\* segment.
LEMMA PortQuiet ==
  ASSUME NEW d \in Seq(Byte), NEW q \in 0..(Len(d) - 1),
         ~PortFillAt(d, q), ~PortDpAt(d, q)
  PROVE  OnlyBlock(d, q)
<1>1. ~(DpLen(d, q) >= MinPassthrough)
  BY DpNeeds DEF PortDpAt
<1>2. FillCovers(d, q) \in 0..(Len(d) - q)
  BY FillNeeds
<1>3. ~(FillCovers(d, q) > 0)
  <2>1. ~(q + MinFill <= Len(d) /\ RunAt(d, q))
    BY DEF PortFillAt
  <2>2. ~(q + MinTailZeros + 2 <= Len(d) /\ ZerosAt(d, q))
    <3> SUFFICES ASSUME q + MinTailZeros + 2 <= Len(d), ZerosAt(d, q) PROVE FALSE
      OBVIOUS
    <3>1. q + 2 < Len(d) /\ d[q + 3] = Zero
      BY ThresholdsAssumption DEF ZerosAt
    <3> QED BY <3>1 DEF PortFillAt
  <2>3. ~(q + 2 + MinTailZeros <= Len(d) /\ ZerosAt(d, q + 2))
    <3> SUFFICES ASSUME q + 2 + MinTailZeros <= Len(d), ZerosAt(d, q + 2) PROVE FALSE
      OBVIOUS
    <3>1. q + 2 < Len(d)
      BY ThresholdsAssumption
    <3>2. d[(q + 2) + 1] = Zero /\ (q + 2) + 1 = q + 3
      BY ThresholdsAssumption DEF ZerosAt
    <3> QED BY <3>1, <3>2 DEF PortFillAt
  <2> QED BY <2>1, <2>2, <2>3, FillNeeds
<1> QED BY <1>1, <1>2, <1>3 DEF OnlyBlock

\* The lookahead ends in the input, and what it passed on its grid is groups.
LEMMA PortPointFacts ==
  ASSUME NEW d \in Seq(Byte), NEW from \in 0..Len(d)
  PROVE  /\ PortDecisionPoint(d, from) \in from..Len(d)
         /\ \A g \in Grid(from, PortDecisionPoint(d, from)) : OnlyBlock(d, g)
<1> DEFINE n == Len(d)
           sees(q) == PortFillAt(d, q) \/ PortDpAt(d, q)
           Q == Grid(from, n) \cup {n}
           first(q) == (q = n \/ sees(q)) /\ \A g \in Grid(from, q) : ~sees(g)
           S == {q \in Q : q = n \/ sees(q)}
<1>1. n \in Nat /\ from \in 0..n /\ Q \in SUBSET (from..n)
  BY DEF Grid
<1>2. PICK m \in S : \A x \in S : m <= x
  <2>1. S \in SUBSET Nat /\ n \in S
    BY <1>1
  <2> HIDE DEF S
  <2> QED BY <2>1, LeastNat, Zenon
<1> HIDE DEF sees
<1>3. \A g \in Grid(from, m) : ~sees(g)
  <2> SUFFICES ASSUME NEW g \in Grid(from, m), sees(g) PROVE FALSE
    OBVIOUS
  <2>1. m \in from..n
    BY <1>1, <1>2
  <2>2. g \in Nat /\ ~(m <= g) /\ g \in Grid(from, n)
    BY <1>1, <2>1 DEF Grid
  <2> QED BY <1>2, <2>2
<1>4. m \in Q /\ first(m)
  BY <1>2, <1>3
<1> DEFINE point == PortDecisionPoint(d, from)
<1>5. point = CHOOSE q \in Q : first(q)
  BY Zenon DEF PortDecisionPoint, sees
<1> HIDE DEF Q, first, point
<1>6. point \in Q /\ first(point)
  BY <1>4, <1>5, Zenon
<1>7. ASSUME NEW g \in Grid(from, point) PROVE OnlyBlock(d, g)
  <2>1. point \in from..n
    BY <1>1, <1>6
  <2>2. g \in 0..(n - 1)
    BY <1>1, <2>1 DEF Grid
  <2>3. ~sees(g)
    BY <1>6 DEF first
  <2> HIDE DEF n
  <2> QED BY <2>2, <2>3, PortQuiet DEF sees, n
<1> QED BY <1>1, <1>6, <1>7 DEF point

\* From where it stands the lookahead moves on by whole groups.
LEMMA PortSkipFacts ==
  ASSUME NEW d \in Seq(Byte), NEW pos \in 0..Len(d)
  PROVE  /\ PortSkipFrom(d, pos) \in pos..Len(d)
         /\ (PortSkipFrom(d, pos) - pos) % 4 = 0
         /\ \A q \in Grid(pos, PortSkipFrom(d, pos)) : OnlyBlock(d, q)
<1> DEFINE next == PortDecisionPoint(d, pos)
           to == PortSkipFrom(d, pos)
<1>1. CASE ~SkipGate(d, pos)
  <2>1. to = pos
    BY <1>1 DEF PortSkipFrom
  <2> QED BY <2>1 DEF Grid
<1>2. CASE SkipGate(d, pos)
  <2>2. next \in pos..Len(d) /\ \A q \in Grid(pos, next) : OnlyBlock(d, q)
    BY PortPointFacts
  <2>3. to = pos + ((next - pos) \div 4) * 4
    BY <1>2 DEF PortSkipFrom
  <2> HIDE DEF next, to
  <2>4. to \in pos..next /\ (to - pos) % 4 = 0
    <3> DEFINE k == (next - pos) \div 4
    <3>1. k \in Nat /\ k * 4 <= next - pos
      BY <2>2
    <3>2. to = pos + k * 4
      BY <2>3
    <3> QED BY <2>2, <3>1, <3>2
  <2>5. \A q \in Grid(pos, to) : OnlyBlock(d, q)
    BY <2>2, <2>4 DEF Grid
  <2> QED BY <2>2, <2>4, <2>5 DEF to
<1> QED BY <1>1, <1>2

\* An iteration of this loop keeps the frame that one of the C loop keeps.
LEMMA PortStepGood ==
  ASSUME NEW e, e = enc[1], DOMAIN enc = {1}, data \in Seq(Byte), LoopInv(data, e),
         ~e.record, PortStep(1)
  PROVE  /\ data' = data
         /\ \E f : enc' = [enc EXCEPT ![1] = f] /\ LoopInv(data, f) /\ ~f.record
<1> DEFINE d == data
<1>1. /\ e \in Frames(d) /\ FrameCore(d, e) /\ e.stop = Len(d) /\ e.meet = {}
      /\ e.pos \in 0..Len(d)
  BY DEF LoopInv, FrameCore, Frames
<1>2. e.pos < Len(d) => ~Stops(d, e)
  BY <1>1 DEF Stops
<1>3. ASSUME e.running, e.pos < Len(d)
      PROVE  FrameInv(d, e) /\ e.pos \in 0..(Len(d) - 1)
  BY <1>2, <1>3, InLoopFrame
<1>4. ASSUME NEW unit, unit = UnitAt(d, e.pos), e.running, e.pos < Len(d),
             Advance(1, Emitted(d, e, unit))
      PROVE  /\ data' = data
             /\ \E f : enc' = [enc EXCEPT ![1] = f] /\ LoopInv(data, f) /\ ~f.record
  <2> DEFINE f == Emitted(d, e, unit)
             g == [Emitted(d, e, UnitAt(d, e.pos)) EXCEPT !.xlat = e.xlat]
  <2>1. e.xlat \in Xlats(d)
    BY <1>1 DEF Frames
  <2>2. FrameInv(d, g) /\ Grew(d, e, g)
    BY <1>2, <1>3, <1>4, <2>1, EmittedGood
  <2>3. f = g /\ f.running /\ f.record = e.record
    BY <1>1, <1>4 DEF Emitted, Frames
  <2>4. LoopInv(d, f)
    BY <1>4, <2>2, <2>3, GrewLoop DEF FrameInv
  <2> HIDE DEF f
  <2> QED BY <1>4, <2>3, <2>4 DEF Advance, f
<1>5. CASE PortReturn(1)
  <2> DEFINE f == Returned(d, e)
  <2>1. e.running /\ Stops(d, e) /\ Advance(1, f)
    BY <1>5 DEF PortReturn, Return
  <2>2. e.pos = Len(d)
    BY <1>1, <2>1 DEF Stops
  <2>3. FrameInv(d, f) /\ Grew(d, e, f) /\ ~f.running
    BY <1>1, <2>2, ReturnedGood
  <2>4. f.pos = e.pos /\ f.block_start = NoBlock /\ f.record = e.record
    BY <1>1 DEF Returned, Frames
  <2>5. LoopInv(d, f)
    BY <2>2, <2>3, <2>4, GrewLoop DEF FrameInv
  <2> HIDE DEF f
  <2> QED BY <2>1, <2>4, <2>5 DEF Advance
<1>6. CASE PortFill(1)
  <2>1. /\ e.running /\ ~Stops(d, e) /\ FillCovers(d, e.pos) > 0
        /\ Advance(1, Emitted(d, e, ChooseFill(d, e.pos)))
    BY <1>6 DEF PortFill, EmitFill
  <2>2. e.pos < Len(d)
    BY <1>1, <2>1 DEF Stops
  <2>3. ChooseFill(d, e.pos) = UnitAt(d, e.pos)
    BY <2>1 DEF UnitAt
  <2> QED BY <1>4, <2>1, <2>2, <2>3
<1>7. CASE PortDp(1)
  <2> DEFINE len == DpLen(d, e.pos)
             unit == DpUnit(d, e.pos, len, Donors(DpProfile(d, e.pos, len), DpMask(d, e.pos, len)))
  <2>1. /\ e.running /\ e.pos < Len(d) /\ FillCovers(d, e.pos) = 0 /\ len >= MinPassthrough
        /\ Advance(1, Emitted(d, e, unit))
    BY <1>7 DEF PortDp
  <2>2. unit = UnitAt(d, e.pos)
    BY <2>1 DEF UnitAt
  <2> HIDE DEF unit
  <2> QED BY <1>4, <2>1, <2>2
<1>8. CASE PortBlock(1)
  <2> DEFINE next == Behind(d, e)
             to == PortSkipFrom(d, next)
             f == TakenTo(e, to)
  <2>1. /\ e.running /\ e.pos < Len(d)
        /\ FillCovers(d, e.pos) = 0 /\ DpLen(d, e.pos) < MinPassthrough
        /\ Advance(1, [e EXCEPT
             !.block_start = IF e.block_start = NoBlock THEN e.pos ELSE e.block_start,
             !.pos = to])
    BY <1>8 DEF PortBlock, Behind
  <2>2. f = [e EXCEPT
              !.block_start = IF e.block_start = NoBlock THEN e.pos ELSE e.block_start,
              !.pos = to]
    BY <1>1 DEF TakenTo, Recorded, Frames
  <2>3. OnlyBlock(d, e.pos)
    <3>1. DpLen(d, e.pos) \in Int /\ MinPassthrough \in Int
      BY <1>1, DpLenFacts, ThresholdsAssumption
    <3> QED BY <2>1, <3>1 DEF OnlyBlock
  <2>4. next \in 0..Len(d)
    BY <1>1, <2>1 DEF Behind, Smaller
  <2> HIDE DEF next
  <2>5. /\ to \in next..Len(d) /\ (to - next) % 4 = 0
        /\ \A q \in Grid(next, to) : OnlyBlock(d, q)
    BY <2>4, PortSkipFacts
  <2>6. to <= Larger(e.stop, next)
    BY <1>1, <2>4, <2>5 DEF Larger
  <2> HIDE DEF to
  <2>7. FrameCore(d, f) /\ Grew(d, e, f) /\ f.running
    BY <1>2, <1>3, <2>1, <2>3, <2>5, <2>6, TakenToGood DEF next
  <2>8. LoopInv(d, f) /\ f.record = e.record
    BY <1>1, <2>7, GrewLoop DEF TakenTo, Frames
  <2> HIDE DEF f
  <2> QED BY <2>1, <2>2, <2>8 DEF Advance
<1> QED BY <1>5, <1>6, <1>7, <1>8 DEF PortStep

-----------------------------------------------------------------------------
(* The invariant of all the ways in.                                       *)

\* The Rust function holds the crate's string, or nothing, until it returns.
RustInv ==
  /\ stage = "call" /\ phase \in {"call", "returned"}
  /\ string \in {NoString, Encoding(data)}
  /\ phase = "call" => status = "OK" /\ heap = {} /\ result = Unset
  /\ ReturnsWhole /\ LengthWritten

\* The Python call has its own copy from before the lock is released: what is
\* encoded does not depend on the object any more.
PyInv ==
  /\ phase = "call" /\ given \in Seq(Byte)
  /\ stage = "call" => object.bytes = given
  /\ stage = "detached" => copy = given
  /\ stage = "encoded" => string = Encoding(given)
  /\ stage = "returned" => answer = Encoding(given)

\* The loop of the ports keeps the frame of the C loop.
PortInv ==
  /\ phase = "call" /\ stage \in {"call", "returned"} /\ given = data
  /\ DOMAIN enc = {1} /\ LoopInv(data, call) /\ ~call.record
  /\ stage = "returned" => ~call.running /\ answer = call.out

EntriesInv ==
  /\ data \in Inputs /\ entry \in {"c", "rust", "python", "port"}
  /\ entry = "c" => CallInv /\ stage = "call"
  /\ entry = "rust" => RustInv
  /\ entry = "python" => PyInv
  /\ entry = "port" => PortInv

\* What the crate returns for an input is its canonical encoding.
LEMMA EncodingGood ==
  ASSUME NEW d \in Seq(Byte)
  PROVE  Canon(d, 0, Encoding(d), Len(d)) /\ CharsOf(Encoding(d)) \in Nat
<1>1. Encoding(d) \in Seq(Units(d)) /\ Canon(d, 0, Encoding(d), Len(d))
  BY EncodingCanon
<1>2. CharsOf(Encoding(d)) \in Nat
  <2>1. \A u \in Units(d) : Chars(u) \in Nat
    BY UnitLong
  <2> QED BY <1>1, <2>1, CharsOfType
<1> QED BY <1>1, <1>2

\* The initial states satisfy the invariant.
LEMMA InitEntriesInv == EntriesInit => EntriesInv
<1> SUFFICES ASSUME EntriesInit PROVE EntriesInv
  OBVIOUS
<1>1. CallInv /\ phase = "call" /\ stage = "call" /\ string = NoString
  BY InitCallInv DEF EntriesInit, Init
<1>2. status = "OK" /\ heap = {} /\ result = Unset
  BY DEF EntriesInit, Init
<1>3. RustInv
  BY <1>1, <1>2 DEF RustInv, ReturnsWhole, LengthWritten
<1>4. ASSUME entry = "python" PROVE PyInv
  <2>1. given = object.bytes /\ object \in Objects
    BY <1>4 DEF EntriesInit
  <2> QED BY <1>1, <2>1, EntriesAssumption DEF PyInv
<1>5. ASSUME entry = "port" PROVE PortInv
  <2>1. given = data /\ ~call.record
    BY <1>5 DEF EntriesInit, Init, Call, call
  <2> QED BY <1>1, <2>1 DEF PortInv, CallInv
<1>6. entry \in {"c", "rust", "python", "port"}
  BY DEF EntriesInit
<1> QED BY <1>1, <1>3, <1>4, <1>5, <1>6 DEF EntriesInv, CallInv

\* The Rust function returns a copy of the string, or what it was refused.
LEMMA RustGood ==
  ASSUME EntriesInv, RustRefuses \/ RustEncodes \/ RustReturns
  PROVE  EntriesInv'
<1>1. entry = "rust" /\ RustInv /\ data \in Inputs /\ data \in Seq(Byte)
  BY InputsAssumption DEF EntriesInv, RustRefuses, RustEncodes, RustReturns
<1>2. data' = data /\ entry' = entry /\ stage' = stage /\ phase = "call"
  BY DEF RustRefuses, RustEncodes, RustReturns, RefuseArguments, vars, rustVars, pyVars
<1>3. status = "OK" /\ heap = {} /\ result = Unset /\ stage = "call"
      /\ string \in {NoString, Encoding(data)}
  BY <1>1, <1>2 DEF RustInv
<1>4. ASSUME RustRefuses PROVE RustInv'
  <2>1. /\ phase' = "returned" /\ status' = "INVALID_ARGUMENT" /\ heap' = {}
        /\ result' = Unset /\ string' = string
    BY <1>3, <1>4 DEF RustRefuses, RefuseArguments, rustVars, Unset
  <2>2. ReturnsWhole' /\ LengthWritten'
    BY <2>1 DEF ReturnsWhole, LengthWritten, Unset
  <2> QED BY <1>2, <1>3, <2>1, <2>2 DEF RustInv
<1>5. ASSUME RustEncodes PROVE RustInv'
  <2>1. phase' = "call" /\ string' = Encoding(data) /\ UNCHANGED <<status, heap, result>>
    BY <1>5 DEF RustEncodes, vars
  <2>2. ReturnsWhole' /\ LengthWritten'
    BY <2>1 DEF ReturnsWhole, LengthWritten
  <2>3. result' = Unset'
    BY <1>3, <2>1 DEF Unset
  <2> QED BY <1>2, <1>3, <2>1, <2>2, <2>3 DEF RustInv
<1>6. ASSUME RustReturns PROVE RustInv'
  <2>1. string = Encoding(data) /\ phase' = "returned" /\ string' = NoString
    BY <1>3, <1>6 DEF RustReturns
  <2>2. Canon(data, 0, string, Len(data)) /\ CharsOf(string) \in Nat
    BY <1>1, <2>1, EncodingGood
  <2>3. CASE Copied(string) /\ result' = [set |-> TRUE, units |-> string, len |-> w']
             /\ UNCHANGED status
    <3>1. heap' = {"out"} /\ w' = CharsOf(string) /\ cap' = w' + 1 /\ status' = "OK"
      BY <1>3, <2>3 DEF Copied
    <3>2. w' + 1 <= cap'
      BY <2>2, <3>1
    <3>3. result'.set /\ result'.units = string /\ result'.len = w'
      BY <2>3
    <3>4. ReturnsWhole' /\ LengthWritten'
      BY <1>2, <2>1, <2>2, <3>1, <3>2, <3>3 DEF ReturnsWhole, LengthWritten
    <3> QED BY <1>2, <1>3, <2>1, <3>4 DEF RustInv
  <2>4. CASE status' = "ALLOC" /\ UNCHANGED <<heap, w, cap, result>>
    <3>1. ReturnsWhole' /\ LengthWritten'
      BY <1>3, <2>1, <2>4 DEF ReturnsWhole, LengthWritten, Unset
    <3> QED BY <1>2, <1>3, <2>1, <3>1 DEF RustInv
  <2> QED BY <1>6, <2>3, <2>4 DEF RustReturns
<1>7. RustInv'
  BY <1>4, <1>5, <1>6
<1> QED BY <1>1, <1>2, <1>7 DEF EntriesInv

\* The Python call encodes its copy, whatever becomes of the object.
LEMMA PyGood ==
  ASSUME EntriesInv, PyRefuses \/ PyCopies \/ PyEncodes \/ PyReturns \/ OtherThread
  PROVE  EntriesInv'
<1>1. entry = "python"
  BY DEF EntriesInv, CallInv, RustInv, PortInv, PyRefuses, PyCopies, PyEncodes, PyReturns,
         OtherThread
<1>2. PyInv /\ data \in Inputs
  BY <1>1 DEF EntriesInv
<1>3. data' = data /\ entry' = entry /\ phase' = phase /\ given' = given
  BY DEF PyRefuses, PyCopies, PyEncodes, PyReturns, OtherThread, vars, rustVars
<1>4. ASSUME PyRefuses PROVE PyInv'
  BY <1>2, <1>3, <1>4 DEF PyRefuses, PyInv
<1>5. ASSUME PyCopies PROVE PyInv'
  BY <1>2, <1>3, <1>5 DEF PyCopies, PyInv
<1>6. ASSUME PyEncodes PROVE PyInv'
  BY <1>2, <1>3, <1>6 DEF PyEncodes, PyInv
<1>7. ASSUME PyReturns PROVE PyInv'
  BY <1>2, <1>3, <1>7 DEF PyReturns, PyInv
<1>8. ASSUME OtherThread PROVE PyInv'
  <2>1. UNCHANGED <<stage, copy, string, answer>> /\ stage \in {"detached", "encoded"}
    BY <1>8 DEF OtherThread, rustVars
  <2> QED BY <1>2, <1>3, <2>1 DEF PyInv
<1>9. PyInv'
  BY <1>4, <1>5, <1>6, <1>7, <1>8
<1> QED BY <1>1, <1>2, <1>3, <1>9 DEF EntriesInv

\* An iteration of the ports keeps their frame; the last hands over its string.
LEMMA PortGood ==
  ASSUME EntriesInv, PortEncodes
  PROVE  EntriesInv'
<1>1. entry = "port" /\ PortInv /\ PortStep(1) /\ data \in Inputs /\ data \in Seq(Byte)
  BY InputsAssumption DEF EntriesInv, PortEncodes
<1>2. DOMAIN enc = {1} /\ LoopInv(data, call) /\ ~call.record /\ call = enc[1]
  BY <1>1 DEF PortInv, call
<1>3. data' = data
  BY <1>1, <1>2, PortStepGood
<1>4. PICK f : enc' = [enc EXCEPT ![1] = f] /\ LoopInv(data, f) /\ ~f.record
  BY <1>1, <1>2, PortStepGood
<1>5. DOMAIN enc' = {1} /\ call' = f
  BY <1>2, <1>4 DEF call
<1>6. call.running
  BY <1>1 DEF PortStep, PortReturn, Return, PortFill, EmitFill, PortDp, PortBlock, call
<1>7. stage = "call"
  BY <1>1, <1>6 DEF PortInv
<1>8. phase' = phase /\ entry' = entry /\ given' = given
  BY DEF PortEncodes, rustVars
<1>9. \/ call'.running /\ stage' = "call"
      \/ ~call'.running /\ stage' = "returned" /\ answer' = call'.out
  BY <1>7 DEF PortEncodes
<1>10. LoopInv(data, call)' /\ ~call'.record
  BY <1>3, <1>4, <1>5
<1>11. PortInv'
  BY <1>1, <1>3, <1>5, <1>8, <1>9, <1>10 DEF PortInv
<1> QED BY <1>1, <1>3, <1>8, <1>11 DEF EntriesInv

\* Every step keeps the invariant.
LEMMA NextEntriesInv == EntriesInv /\ [EntriesNext]_entryVars => EntriesInv'
<1> SUFFICES ASSUME EntriesInv, [EntriesNext]_entryVars PROVE EntriesInv'
  OBVIOUS
<1>1. CASE UNCHANGED entryVars
  <2>1. UNCHANGED vars /\ UNCHANGED rustVars /\ UNCHANGED pyVars
    BY <1>1 DEF entryVars
  <2>2. CallInv => CallInv'
    BY <2>1, NextCallInv
  <2>3. ReturnsWhole' = ReturnsWhole /\ LengthWritten' = LengthWritten /\ call' = call
    BY <2>1 DEF vars, ReturnsWhole, LengthWritten, call, Unset
  <2>4. RustInv => RustInv'
    BY <2>1, <2>3 DEF vars, rustVars, pyVars, RustInv, Unset
  <2>5. PyInv => PyInv'
    BY <2>1 DEF vars, rustVars, pyVars, PyInv
  <2>6. PortInv => PortInv'
    BY <2>1, <2>3 DEF vars, rustVars, pyVars, PortInv
  <2> QED BY <2>1, <2>2, <2>4, <2>5, <2>6 DEF EntriesInv, vars, rustVars, pyVars
<1>2. CASE CEncodes
  <2>1. entry = "c" /\ Next /\ UNCHANGED <<rustVars, pyVars>>
    BY <1>2 DEF CEncodes
  <2>2. CallInv' /\ entry' = "c" /\ stage' = "call"
    BY <2>1, NextCallInv DEF EntriesInv, rustVars, pyVars
  <2> QED BY <2>2 DEF EntriesInv, CallInv
<1>3. CASE RustRefuses \/ RustEncodes \/ RustReturns
  BY <1>3, RustGood
<1>4. CASE PyRefuses \/ PyCopies \/ PyEncodes \/ PyReturns \/ OtherThread
  BY <1>4, PyGood
<1>5. CASE PortEncodes
  BY <1>5, PortGood
<1> QED BY <1>1, <1>2, <1>3, <1>4, <1>5 DEF EntriesNext

\* The invariant of all the ways in holds at every step.
THEOREM EntriesInvariant == EntriesSpec => []EntriesInv
BY InitEntriesInv, NextEntriesInv, PTL DEF EntriesSpec

\* A caller in Python, Go or TypeScript gets the canonical encoding of the bytes
\* it passed, whatever other threads do to a bytearray meanwhile, and wherever
\* the ports' lookahead stops.
THEOREM EntriesArgumentEncoded == EntriesSpec => []ArgumentEncoded
<1>1. EntriesInv => ArgumentEncoded
  <2> SUFFICES ASSUME EntriesInv, stage = "returned"
               PROVE  Canon(given, 0, answer, Len(given))
    BY DEF ArgumentEncoded
  <2>1. CASE entry = "python"
    <3>1. given \in Seq(Byte) /\ answer = Encoding(given)
      BY <2>1 DEF EntriesInv, PyInv
    <3> QED BY <3>1, EncodingGood
  <2>2. CASE entry = "port"
    <3>1. PortInv /\ data \in Seq(Byte)
      BY <2>2, InputsAssumption DEF EntriesInv
    <3>2. /\ LoopInv(data, call) /\ ~call.running /\ given = data /\ answer = call.out
      BY <3>1 DEF PortInv
    <3>3. call.block_start = NoBlock /\ call.pos = Len(data) /\ call.start = 0
      BY <3>2 DEF LoopInv
    <3>4. OutEnd(call) = Len(data)
      BY <3>3 DEF OutEnd
    <3> HIDE DEF call
    <3> QED BY <3>1, <3>2, <3>3, <3>4 DEF LoopInv, FrameCore
  <2>3. CASE entry \in {"c", "rust"}
    BY <2>3 DEF EntriesInv, RustInv
  <2> QED BY <2>1, <2>2, <2>3 DEF EntriesInv
<1> QED BY <1>1, EntriesInvariant, PTL

\* From C and from Rust, a call that returns OK hands over the canonical encoding
\* of all of its input, and one that does not has set and kept nothing.
THEOREM EntriesReturnWhole == EntriesSpec => []ReturnsWhole
<1>1. EntriesInv => ReturnsWhole
  BY DEF EntriesInv, CallInv, RustInv, PyInv, PortInv, ReturnsWhole
<1> QED BY <1>1, EntriesInvariant, PTL

\* From C and from Rust, the length reported is that of the string.
THEOREM EntriesLengthWritten == EntriesSpec => []LengthWritten
<1>1. EntriesInv => LengthWritten
  BY DEF EntriesInv, CallInv, RustInv, PyInv, PortInv, LengthWritten
<1> QED BY <1>1, EntriesInvariant, PTL
=============================================================================
