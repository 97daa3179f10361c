---------------------------- MODULE RangeWriter -----------------------------
(***************************************************************************)
(* The output buffer of one call of encode_range: a vector of room bytes   *)
(* written at the cursor w.  It is sized from the length of the call's     *)
(* stretch of input, although a construct may run past the end of that     *)
(* stretch, and it is made longer only by reserve, before every write.     *)
(***************************************************************************)
EXTENDS EncodeCall

CONSTANT Slack   \* the bytes added to a capacity (16)

ASSUME SlackAssumption == Slack \in Nat \ {0}

VARIABLES
  w,       \* the cursor: characters written
  room     \* the length of the buffer

writerVars == <<vars, w, room>>

EncodeCapacity(n) == n + n \div 4 + Slack

Buffer == [w |-> w, room |-> room]

\* A write of some characters at the cursor, after reserve(need).
Put(b, need, chars) ==
  LET want == b.w + need
  IN  [w    |-> b.w + chars,
       room |-> IF need > b.room - b.w THEN want + want \div 4 ELSE b.room]

\* What flush_block reserves for a pending run of len bytes.
BlockNeed(len) ==
  (len \div 4) * 5 + (IF len % 4 = 0 THEN 0 ELSE (len % 4) + 1)

\* The buffer after the frame's pending run has been flushed to it.
FlushedTo(b, d, e) ==
  IF e.block_start = NoBlock THEN b
  ELSE Put(b, BlockNeed(e.pos - e.block_start), CharsOf(Groups(d, e.block_start, e.pos)))

\* What is reserved for a segment of len bytes.
DpNeed_SignalOnly(len) == 5
DpNeed(len) == 5 + len

WriterInit ==
  /\ Init
  /\ w = 0
  /\ room = EncodeCapacity(call.stop - call.start) + Slack

Writes(b) == w' = b.w /\ room' = b.room

WriteEnd == Return(1) /\ Writes(FlushedTo(Buffer, data, call))

WriteFill == EmitFill(1) /\ Writes(Put(FlushedTo(Buffer, data, call), 5, 5))

WriteDp ==
  /\ EmitDp(1)
  /\ LET len == DpLen(data, call.pos)
     IN  Writes(Put(FlushedTo(Buffer, data, call), DpNeed(len), 5 + len))

\* A group is written when its run ends, at the latest where the call does.
KeepBlock == TakeBlock(1) /\ call'.running /\ UNCHANGED <<w, room>>

WriteBlocks ==
  /\ TakeBlock(1) /\ ~call'.running
  /\ Writes(FlushedTo(Buffer, data, Taken(data, call)))

WriterNext == WriteEnd \/ WriteFill \/ WriteDp \/ KeepBlock \/ WriteBlocks

WriterSpec == WriterInit /\ [][WriterNext]_writerVars

-----------------------------------------------------------------------------
\* Every write ends inside the buffer, also the one that carries a bounded call
\* past its bound; and since neither Fill nor passthrough ever costs more than
\* block mode would, a call over the whole input never has to grow the buffer
\* it was sized at the start, as encode_capacity promises.
RoomReserved ==
  /\ w <= room
  /\ call.start = 0 /\ call.stop = Len(data) => room = EncodeCapacity(Len(data)) + Slack
=============================================================================
