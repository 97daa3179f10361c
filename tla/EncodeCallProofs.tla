-------------------------- MODULE EncodeCallProofs --------------------------
(***************************************************************************)
(* Every call of encode_range, for every input, bounds, meeting points and *)
(* alphabet, keeps the safety properties of EncodeCall and implements the  *)
(* abstract stream.  The inductive invariant is the one of its frame.      *)
(***************************************************************************)
EXTENDS RangeWriter, EncodeRangeProofs

\* The inductive invariant.
CallInv ==
  /\ data \in Seq(Byte)
  /\ DOMAIN enc = {1}
  /\ FrameInv(data, call)

\* The initial states satisfy the invariant.
LEMMA InitCallInv == Init => CallInv
<1> SUFFICES ASSUME NEW c \in Cases,
                    data = c.data,
                    enc = [r \in {1} |-> Call(c.start, c.stop, c.meet, TRUE)]
             PROVE  CallInv
  BY DEF Init
<1>1. /\ data \in Seq(Byte) /\ c.start \in Nat /\ c.stop \in 0..Len(data)
      /\ c.start <= c.stop /\ c.meet \in SUBSET Nat
  BY CasesAssumption
<1>2. FrameInv(data, Call(c.start, c.stop, c.meet, TRUE))
  BY <1>1, CallInit
<1> QED BY <1>1, <1>2 DEF CallInv, call

\* Every iteration keeps it, and grows the output.
LEMMA NextCallInv ==
  ASSUME CallInv, [Next]_vars
  PROVE  CallInv' /\ (UNCHANGED vars \/ (data' = data /\ Grew(data, call, call')))
<1>1. CASE UNCHANGED vars
  BY <1>1 DEF CallInv, vars, call
<1>2. CASE Next
  <2>1. /\ data' = data
        /\ \E f : /\ enc' = [enc EXCEPT ![1] = f]
                  /\ FrameInv(data, f) /\ Grew(data, enc[1], f)
    BY <1>2, EncodeStepGood DEF CallInv, Next, call
  <2>2. PICK f : /\ enc' = [enc EXCEPT ![1] = f]
                 /\ FrameInv(data, f) /\ Grew(data, enc[1], f)
    BY <2>1
  <2>3. DOMAIN enc' = {1} /\ call' = f
    BY <2>2 DEF CallInv, call
  <2> QED BY <2>1, <2>2, <2>3 DEF CallInv, call
<1> QED BY <1>1, <1>2

\* The inductive invariant of a call of encode_range holds at every step.
THEOREM CallInvariant == Spec => []CallInv
<1>1. CallInv /\ [Next]_vars => CallInv'
  BY NextCallInv
<1> QED BY InitCallInv, <1>1, PTL DEF Spec

\* A frame in its invariant has every safety property of the call.
LEMMA CallInvProperties ==
  CallInv => TypeOK /\ EmittedCanonical /\ PointsSelfContained /\ NeverStartsPastStop
<1> SUFFICES ASSUME CallInv
             PROVE  TypeOK /\ EmittedCanonical /\ PointsSelfContained /\ NeverStartsPastStop
  OBVIOUS
<1>1. data \in Seq(Byte) /\ FrameCore(data, call)
  BY DEF CallInv, FrameInv
<1> HIDE DEF call
<1>2. /\ call \in Frames(data) /\ call.start <= call.pos
      /\ Canon(data, call.start, call.out, OutEnd(call))
      /\ PendingOK(data, call)
      /\ PointsOK(call.points, call.start, call.meet, call.out, OutEnd(call), call.pos)
  BY <1>1 DEF FrameCore
<1>3. /\ call.start \in Nat /\ call.pos \in 0..Len(data) /\ call.out \in Seq(Units(data))
      /\ call.points \in Seq([pos : Nat, w : Nat]) /\ call.running \in BOOLEAN
  BY <1>2 DEF Frames
<1>4. /\ Canon(data, call.start, Flushed(data, call), call.pos)
      /\ \A k \in 1..Len(Flushed(data, call)) : Flushed(data, call)[k].at < call.stop
  BY <1>1, FlushedCanon
<1>5. ASSUME NEW k \in 1..Len(call.points)
      PROVE  /\ call.points[k] \in [pos : call.start..call.pos, w : 0..Len(call.out)]
             /\ call.points[k].pos = StartOf(call.out, call.points[k].w, OutEnd(call))
             /\ k > 1 => call.points[k - 1].pos < call.points[k].pos
             /\ call.points[k].pos > call.start => call.points[k].pos \notin call.meet
  <2> DEFINE p == call.points[k]
  <2>1. /\ p.pos \in call.start..(call.pos - 1) /\ p.w \in 0..Len(call.out)
        /\ p.pos = StartOf(call.out, p.w, OutEnd(call))
        /\ k > 1 => call.points[k - 1].pos < p.pos
        /\ p.pos > call.start => p.pos \notin call.meet
    BY <1>2 DEF PointsOK
  <2>2. p \in [pos : Nat, w : Nat]
    <3> DEFINE points == call.points
    <3>1. points \in Seq([pos : Nat, w : Nat]) /\ k \in 1..Len(points)
      BY <1>3
    <3> HIDE DEF points
    <3>2. points[k] \in [pos : Nat, w : Nat]
      BY <3>1, ElementOfSeq
    <3> QED BY <3>2 DEF points
  <2> HIDE DEF p
  <2>3. p \in [pos : call.start..call.pos, w : 0..Len(call.out)]
    <3>1. p.pos \in call.start..call.pos
      BY <1>3, <2>1
    <3> QED BY <2>1, <2>2, <3>1
  <2> QED BY <2>1, <2>3 DEF p
<1>6. call.block_start \in {NoBlock} \cup (call.start..call.pos)
  BY <1>2, <1>3 DEF PendingOK
<1>7. ASSUME NEW k \in 1..Len(call.out)
      PROVE  call.out[k].at >= call.start /\ call.out[k].len \in 1..(call.pos - call.out[k].at)
  <2>1. OutEnd(call) \in Nat /\ OutEnd(call) <= call.pos
    BY <1>3, <1>6, <1>2 DEF OutEnd, PendingOK
  <2>2. /\ call.out[k].at \in Nat /\ call.out[k].len \in Nat \ {0}
        /\ call.out[k].at >= call.start
        /\ call.out[k].at + call.out[k].len <= OutEnd(call)
    BY <1>2, <1>3, <1>1, <2>1, CanonBounds
  <2> QED BY <1>3, <2>1, <2>2
<1>8. TypeOK
  BY <1>1, <1>2, <1>3, <1>5, <1>6, <1>7 DEF TypeOK
<1> QED BY <1>4, <1>5, <1>8
        DEF EmittedCanonical, PointsSelfContained, NeverStartsPastStop, StartOf

\* The frame of a call has its type at every step.
THEOREM CallTypeOK == Spec => []TypeOK
BY CallInvariant, CallInvProperties, PTL

\* What a call has produced is canonical at every step.
THEOREM CallCanonical == Spec => []EmittedCanonical
BY CallInvariant, CallInvProperties, PTL

\* Splice points are self-contained and ascending.
THEOREM CallPoints == Spec => []PointsSelfContained
BY CallInvariant, CallInvProperties, PTL

\* No construct is taken at or past the bound of the call.
THEOREM CallBound == Spec => []NeverStartsPastStop
BY CallInvariant, CallInvProperties, PTL

-----------------------------------------------------------------------------
(* The refinement.                                                         *)

\* A call that grew takes a step of the abstract stream, or none.
LEMMA GrewExtends ==
  ASSUME CallInv, CallInv', data' = data, Grew(data, call, call')
  PROVE  [Stream!Next]_(Stream!vars)
<1> DEFINE u == Flushed(data, call)
           longer == Flushed(data, call')
           p == call.pos
           q == call'.pos
<1>1. PICK v \in Seq(Units(data)) : longer = u \o v /\ Canon(data, p, v, q)
  BY DEF Grew
<1>2. u \in Seq(Units(data)) /\ p \in Nat /\ q \in Nat
  <2>1. data \in Seq(Byte) /\ FrameCore(data, call) /\ FrameCore(data, call')
    BY DEF CallInv, FrameInv
  <2>2. call \in Frames(data) /\ call' \in Frames(data)
    BY <2>1 DEF FrameCore
  <2> HIDE DEF call
  <2> QED BY <2>1, <2>2, FlushedCanon DEF Frames
<1>3. Flushed(data, call)' = longer /\ call.pos' = q
  BY DEF call
<1> HIDE DEF u, longer, p, q
<1>4. \/ q = p /\ longer = u
      \/ q > p /\ IsStrictPrefix(u, longer) /\ SubSeq(longer, Len(u) + 1, Len(longer)) = v
  BY <1>1, <1>2, Extends DEF CallInv
<1>5. CASE q = p /\ longer = u
  BY <1>3, <1>5 DEF Stream!vars, u, p
<1>6. CASE q > p /\ IsStrictPrefix(u, longer) /\ SubSeq(longer, Len(u) + 1, Len(longer)) = v
  <2>1. Stream!IsStrictPrefix(u, longer)
    BY <1>6 DEF Stream!IsStrictPrefix, Stream!IsPrefix, IsStrictPrefix, IsPrefix
  <2>2. Stream!Extend
    BY <1>1, <1>3, <1>6, <2>1 DEF Stream!Extend, u, p
  <2> QED BY <2>2 DEF Stream!Next
<1> QED BY <1>4, <1>5, <1>6

\* A call implements the abstract stream: its output only grows, and only by
\* canonical pieces.
THEOREM CallRefines == Spec => StreamSpec
<1>1. Init => Stream!Init
  <2> SUFFICES ASSUME NEW c \in Cases,
                      data = c.data,
                      enc = [r \in {1} |-> Call(c.start, c.stop, c.meet, TRUE)]
               PROVE  Stream!Init
    BY DEF Init
  <2>1. call = Call(c.start, c.stop, c.meet, TRUE)
    BY DEF call
  <2>2. call.pos = c.start /\ call.block_start = NoBlock /\ call.out = <<>>
    BY <2>1 DEF Call
  <2>3. data \in CaseInputs /\ c.start \in 0..Len(data)
    BY CasesAssumption DEF CaseInputs
  <2> QED BY <2>2, <2>3 DEF Stream!Init, Flushed
<1>2. CallInv /\ CallInv' /\ [Next]_vars => [Stream!Next]_(Stream!vars)
  <2> SUFFICES ASSUME CallInv, CallInv', [Next]_vars
               PROVE  [Stream!Next]_(Stream!vars)
    OBVIOUS
  <2>1. CASE UNCHANGED vars
    BY <2>1 DEF vars, Stream!vars, call
  <2>2. CASE data' = data /\ Grew(data, call, call')
    BY <2>2, GrewExtends
  <2> QED BY <2>1, <2>2, NextCallInv
<1> QED BY <1>1, <1>2, CallInvariant, PTL DEF Spec, StreamSpec, Stream!Spec

-----------------------------------------------------------------------------
(* The buffer of a call.                                                   *)

\* A write that stays below what it reserves ends inside the buffer, and makes
\* it longer only where what is reserved does not fit.
LEMMA PutFits ==
  ASSUME NEW b, b.w \in Nat, b.room \in Nat, b.w <= b.room,
         NEW need \in Nat, NEW chars \in 0..need
  PROVE  LET c == Put(b, need, chars)
         IN  /\ c.w = b.w + chars /\ c.room \in Nat /\ c.w <= c.room
             /\ b.w + need <= b.room => c.room = b.room
<1> DEFINE c == Put(b, need, chars)
           at == b.w
           size == b.room
           want == at + need
<1>1. at \in Nat /\ size \in Nat /\ at <= size
  OBVIOUS
<1>2. c.w = at + chars /\ c.room = IF need > size - at THEN want + want \div 4 ELSE size
  BY DEF Put
<1> HIDE DEF c, at, size
<1>3. /\ c.room \in Nat /\ at + chars <= c.room
      /\ at + need <= size => c.room = size
  BY <1>1, <1>2
<1> QED BY <1>2, <1>3 DEF c, at, size

\* Flushing the pending run reserves exactly what it writes.
LEMMA FlushFits ==
  ASSUME NEW d \in Seq(Byte), NEW e, FrameCore(d, e),
         NEW b, b.w \in Nat, b.room \in Nat, b.w <= b.room
  PROVE  LET c == FlushedTo(b, d, e)
             n == RunChars(PendingBytes(e))
         IN  /\ n \in Nat /\ c.w = b.w + n /\ c.room \in Nat /\ c.w <= c.room
             /\ b.w + n <= b.room => c.room = b.room
<1> DEFINE n == PendingBytes(e)
           g == Groups(d, e.block_start, e.pos)
<1>1. n \in Nat /\ RunChars(n) \in Nat
  BY FrameChars, RunCost
<1>2. CASE e.block_start = NoBlock
  <2>1. RunChars(n) = 0 /\ FlushedTo(b, d, e) = b
    BY <1>2 DEF PendingBytes, RunChars, FlushedTo
  <2> QED BY <2>1
<1>3. CASE e.block_start # NoBlock
  <2>1. e.block_start \in Nat /\ e.pos \in Nat /\ e.block_start <= e.pos /\ n = e.pos - e.block_start
    BY <1>3 DEF FrameCore, Frames, PendingOK, PendingBytes
  <2>2. CharsOf(g) = RunChars(n)
    BY <2>1, GroupsChars
  <2>3. BlockNeed(n) = RunChars(n)
    BY DEF BlockNeed, RunChars
  <2>4. FlushedTo(b, d, e) = Put(b, RunChars(n), RunChars(n))
    BY <1>3, <2>1, <2>2, <2>3 DEF FlushedTo
  <2> DEFINE chars == RunChars(n)
  <2>5. chars \in Nat /\ chars \in 0..chars /\ FlushedTo(b, d, e) = Put(b, chars, chars)
    BY <1>1, <2>4
  <2>6. LET c == Put(b, chars, chars)
        IN  /\ c.w = b.w + chars /\ c.room \in Nat /\ c.w <= c.room
            /\ b.w + chars <= b.room => c.room = b.room
    <3> HIDE DEF n, chars
    <3> QED BY <2>5, PutFits
  <2> QED BY <2>5, <2>6
<1> QED BY <1>2, <1>3

\* A call over the whole input.
Whole == call.start = 0 /\ call.stop = Len(data)

\* What the characters written are paid for by: block mode spends five on four
\* bytes, and only the end of the input can leave a remainder.
Paid == IF call.running THEN 5 * OutEnd(call) ELSE 5 * Len(data) + 3

\* The inductive invariant of the buffer.
WriterInv ==
  /\ CallInv
  /\ w \in Nat /\ room \in Nat /\ w <= room
  /\ Whole => room = EncodeCapacity(Len(data)) + Slack /\ 4 * w <= Paid

\* What a frame has written and has pending.
LEMMA PendingEnds ==
  ASSUME NEW d \in Seq(Byte), NEW e, FrameCore(d, e)
  PROVE  /\ OutEnd(e) \in Nat /\ PendingBytes(e) \in Nat /\ e.pos \in 0..Len(d)
         /\ OutEnd(e) + PendingBytes(e) = e.pos
         /\ e.pos # Len(d) => PendingBytes(e) % 4 = 0
<1>1. e.pos \in 0..Len(d) /\ e.start \in Nat
  BY DEF FrameCore, Frames
<1>2. CASE e.block_start = NoBlock
  BY <1>1, <1>2 DEF OutEnd, PendingBytes
<1>3. CASE e.block_start # NoBlock
  <2>1. /\ e.block_start \in e.start..(e.pos - 1)
        /\ (e.pos - e.block_start) % 4 = 0 \/ e.pos = Len(d)
    BY <1>3 DEF FrameCore, PendingOK, BlockRun
  <2> QED BY <1>1, <1>3, <2>1 DEF OutEnd, PendingBytes
<1> QED BY <1>2, <1>3

\* At the start there is a capacity, and twice the slack.
LEMMA InitWriterInv == WriterInit => WriterInv
<1> SUFFICES ASSUME WriterInit PROVE WriterInv
  OBVIOUS
<1>1. CallInv /\ w = 0 /\ room = EncodeCapacity(call.stop - call.start) + Slack
  BY InitCallInv DEF WriterInit
<1>2. data \in Seq(Byte) /\ FrameCore(data, call) /\ call.stop - call.start \in Nat
  BY <1>1 DEF CallInv, FrameInv, FrameCore, Frames
<1>3. room \in Nat
  <2> DEFINE n == call.stop - call.start
  <2>1. n \in Nat /\ room = n + n \div 4 + Slack + Slack
    BY <1>1, <1>2 DEF EncodeCapacity
  <2> HIDE DEF n
  <2> QED BY <2>1, SlackAssumption
<1>4. OutEnd(call) \in Nat /\ Len(data) \in Nat
  BY <1>2, PendingEnds
<1>5. 4 * w <= Paid
  BY <1>1, <1>4 DEF Paid
<1>6. Whole => call.stop - call.start = Len(data)
  BY <1>4 DEF Whole
<1> QED BY <1>1, <1>3, <1>5, <1>6 DEF WriterInv

\* The room is enough for what block mode would write up to the end.
LEMMA WholeFits ==
  ASSUME NEW n \in Nat, NEW chars \in Nat, 4 * chars <= 5 * n + 3
  PROVE  chars <= EncodeCapacity(n) + Slack
BY SlackAssumption DEF EncodeCapacity

\* A flush, and after it a construct of cost characters that covers len bytes.
LEMMA WriteFits ==
  ASSUME WriterInv, call.running, call.pos < Len(data),
         NEW cost \in Nat, NEW len \in 1..(Len(data) - call.pos), 4 * cost <= 5 * len
  PROVE  LET c == Put(FlushedTo(Buffer, data, call), cost, cost)
         IN  /\ c.w \in Nat /\ c.room \in Nat /\ c.w <= c.room
             /\ Whole => c.room = room /\ 4 * c.w <= 5 * (call.pos + len)
<1> DEFINE b == FlushedTo(Buffer, data, call)
           c == Put(b, cost, cost)
           n == PendingBytes(call)
           block == RunChars(n)
           before == OutEnd(call)
           pos == call.pos
           size == Len(data)
<1>1. data \in Seq(Byte) /\ FrameCore(data, call) /\ size \in Nat /\ pos < size
  BY DEF WriterInv, CallInv, FrameInv
<1>2. before \in Nat /\ n \in Nat /\ before + n = pos /\ n % 4 = 0
  BY <1>1, PendingEnds
<1>3. block \in Nat /\ 4 * block = 5 * n
  BY <1>2, RunCost
<1>4. Buffer.w = w /\ Buffer.room = room /\ w \in Nat /\ room \in Nat /\ w <= room
  BY DEF WriterInv, Buffer
<1>5. /\ b.w = w + block /\ b.room \in Nat /\ b.w <= b.room
      /\ w + block <= room => b.room = room
  BY <1>1, <1>4, FlushFits
<1> HIDE DEF b
<1>6. b.w \in Nat /\ cost \in 0..cost
  BY <1>3, <1>4, <1>5
<1>7. /\ c.w = b.w + cost /\ c.room \in Nat /\ c.w <= c.room
      /\ b.w + cost <= b.room => c.room = b.room
  BY <1>5, <1>6, PutFits
<1>8. ASSUME Whole
      PROVE  c.room = room /\ 4 * c.w <= 5 * (pos + len)
  <2>1. room = EncodeCapacity(size) + Slack /\ 4 * w <= 5 * before
    BY <1>8 DEF WriterInv, Paid
  <2> HIDE DEF c, n, block, before, pos, size
  <2>2. len \in 1..(size - pos)
    BY DEF size, pos
  <2>3. /\ w + block \in Nat /\ 4 * (w + block) <= 5 * size + 3
        /\ w + block + cost \in Nat /\ 4 * (w + block + cost) <= 5 * (pos + len)
        /\ 4 * (w + block + cost) <= 5 * size + 3
    BY <1>1, <1>2, <1>3, <1>4, <2>1, <2>2
  <2>4. w + block <= room /\ w + block + cost <= room
    BY <1>1, <2>1, <2>3, WholeFits
  <2> QED BY <1>5, <1>7, <2>3, <2>4
<1> HIDE DEF c, n, block, before
<1> QED BY <1>6, <1>7, <1>8 DEF c, b, pos

\* The last flush of a call.
LEMMA LastFits ==
  ASSUME WriterInv, call.running, NEW f, FrameCore(data, f), OutEnd(f) = OutEnd(call)
  PROVE  LET c == FlushedTo(Buffer, data, f)
         IN  /\ c.w \in Nat /\ c.room \in Nat /\ c.w <= c.room
             /\ Whole => c.room = room /\ 4 * c.w <= 5 * Len(data) + 3
<1> DEFINE c == FlushedTo(Buffer, data, f)
           n == PendingBytes(f)
           block == RunChars(n)
           before == OutEnd(f)
           size == Len(data)
<1>1. data \in Seq(Byte) /\ size \in Nat
  BY DEF WriterInv, CallInv
<1>2. before \in Nat /\ n \in Nat /\ before + n <= size
  <2>1. before \in Nat /\ n \in Nat /\ f.pos \in 0..Len(data) /\ before + n = f.pos
    BY <1>1, PendingEnds
  <2> QED BY <1>1, <2>1
<1>3. block \in Nat /\ 4 * block <= 5 * n + 3
  BY <1>2, RunCost
<1>4. Buffer.w = w /\ Buffer.room = room /\ w \in Nat /\ room \in Nat /\ w <= room
  BY DEF WriterInv, Buffer
<1>5. /\ c.w = w + block /\ c.room \in Nat /\ c.w <= c.room
      /\ w + block <= room => c.room = room
  BY <1>1, <1>4, FlushFits
<1>6. ASSUME Whole
      PROVE  c.room = room /\ 4 * c.w <= 5 * size + 3
  <2>1. room = EncodeCapacity(size) + Slack /\ 4 * w <= 5 * before
    BY <1>6 DEF WriterInv, Paid
  <2> HIDE DEF c, n, block, before, size
  <2>3. w + block \in Nat /\ 4 * (w + block) <= 5 * size + 3
    BY <1>1, <1>2, <1>3, <1>4, <2>1
  <2>4. w + block <= room
    BY <1>1, <2>1, <2>3, WholeFits
  <2> QED BY <1>5, <2>3, <2>4
<1> HIDE DEF c, n, block
<1> QED BY <1>3, <1>4, <1>5, <1>6 DEF c, size

\* A step of the buffer is an iteration of the loop.
LEMMA WriterSteps ==
  ASSUME WriterInv, WriterNext
  PROVE  /\ CallInv' /\ data' = data
         /\ call'.start = call.start /\ call'.stop = call.stop
<1>1. Next
  BY DEF WriterNext, WriteEnd, WriteFill, WriteDp, KeepBlock, WriteBlocks, Next, EncodeStep
<1>2. /\ CallInv'
      /\ UNCHANGED vars \/ (data' = data /\ Grew(data, call, call'))
  BY <1>1, NextCallInv DEF WriterInv
<1> QED BY <1>2 DEF Grew, vars, call

\* What an iteration leaves of the call: a construct behind the pending run, or
\* that run with more groups, flushed if the call ends there.
LEMMA StepFrames ==
  ASSUME WriterInv
  PROVE  /\ EmitFill(1) =>
              /\ call.running /\ call.pos < Len(data) /\ FillCovers(data, call.pos) > 0
              /\ call'.running /\ OutEnd(call') = call.pos + FillCovers(data, call.pos)
         /\ EmitDp(1) =>
              /\ call.running /\ call.pos < Len(data)
              /\ ~(FillCovers(data, call.pos) > 0) /\ DpLen(data, call.pos) >= MinPassthrough
              /\ call'.running /\ OutEnd(call') = call.pos + DpLen(data, call.pos)
         /\ TakeBlock(1) =>
              /\ call.running /\ FrameCore(data, Taken(data, call))
              /\ OutEnd(Taken(data, call)) = OutEnd(call)
              /\ call'.running => call' = Taken(data, call)
         /\ Return(1) => call.running /\ ~call'.running
<1> DEFINE d == data
           e == call
<1>1. /\ d \in Seq(Byte) /\ FrameInv(d, e) /\ e \in Frames(d) /\ FrameCore(d, e)
      /\ enc[1] = e /\ 1 \in DOMAIN enc
  BY DEF WriterInv, CallInv, FrameInv, FrameCore, call
<1>2. ASSUME e.running, ~Stops(d, e) PROVE e.pos \in 0..(Len(d) - 1)
  BY <1>1, <1>2, NotStopped
<1>3. ASSUME EmitFill(1)
      PROVE  /\ e.running /\ e.pos < Len(d) /\ FillCovers(d, e.pos) > 0
             /\ e'.running /\ OutEnd(e') = e.pos + FillCovers(d, e.pos)
  <2> DEFINE f == Emitted(d, e, ChooseFill(d, e.pos))
  <2>1. /\ e.running /\ ~Stops(d, e) /\ FillCovers(d, e.pos) > 0
        /\ enc' = [enc EXCEPT ![1] = f]
    BY <1>1, <1>3 DEF EmitFill, Advance
  <2>2. e' = f
    BY <1>1, <2>1 DEF call
  <2>3. /\ f.running /\ f.block_start = NoBlock
        /\ f.pos = e.pos + FillCovers(d, e.pos)
    BY <1>1, <2>1 DEF Emitted, Frames, ChooseFill
  <2>4. OutEnd(f) = e.pos + FillCovers(d, e.pos)
    BY <2>3 DEF OutEnd
  <2> HIDE DEF f
  <2> QED BY <1>2, <2>1, <2>2, <2>3, <2>4
<1>4. ASSUME EmitDp(1)
      PROVE  /\ e.running /\ e.pos < Len(d)
             /\ ~(FillCovers(d, e.pos) > 0) /\ DpLen(d, e.pos) >= MinPassthrough
             /\ e'.running /\ OutEnd(e') = e.pos + DpLen(d, e.pos)
  <2> DEFINE len == DpLen(d, e.pos)
             xlat == Xlat(e, <<DpProfile(d, e.pos, len), DpMask(d, e.pos, len)>>)
             f == [Emitted(d, e, DpUnit(d, e.pos, len, xlat.donors)) EXCEPT !.xlat = xlat]
  <2>1. /\ e.running /\ ~Stops(d, e) /\ FillCovers(d, e.pos) = 0
        /\ DpApplies(d, e.pos) /\ enc' = [enc EXCEPT ![1] = f]
    BY <1>1, <1>4 DEF EmitDp, Advance
  <2> HIDE DEF xlat
  <2>2. e' = f
    BY <1>1, <2>1 DEF call
  <2>3. /\ f.running /\ f.block_start = NoBlock
        /\ f.pos = e.pos + DpLen(d, e.pos)
    BY <1>1, <2>1 DEF Emitted, Frames, DpUnit
  <2>4. OutEnd(f) = e.pos + DpLen(d, e.pos)
    BY <2>3 DEF OutEnd
  <2> HIDE DEF f
  <2> QED BY <1>2, <2>1, <2>2, <2>3, <2>4 DEF DpApplies
<1>5. ASSUME TakeBlock(1)
      PROVE  /\ e.running /\ FrameCore(d, Taken(d, e))
             /\ OutEnd(Taken(d, e)) = OutEnd(e)
             /\ e'.running => e' = Taken(d, e)
  <2> DEFINE f == Taken(d, e)
             g == IF f.pos < e.stop THEN f ELSE Returned(d, f)
  <2>1. /\ e.running /\ ~Stops(d, e) /\ FillCovers(d, e.pos) = 0
        /\ ~DpApplies(d, e.pos) /\ enc' = [enc EXCEPT ![1] = g]
    BY <1>1, <1>5 DEF TakeBlock, Advance
  <2>2. e' = g
    BY <1>1, <2>1 DEF call
  <2>3. OnlyBlock(d, e.pos)
    BY <1>1, <1>2, <2>1, GateSound DEF OnlyBlock
  <2>4. FrameCore(d, f) /\ f.running
    BY <1>1, <2>1, <2>3, TakenGood
  <2>5. OutEnd(f) = OutEnd(e)
    <3>1. f.block_start = (IF e.block_start = NoBlock THEN e.pos ELSE e.block_start)
      BY <1>1 DEF Taken, Frames
    <3>2. f.block_start # NoBlock
      BY <1>2, <2>1, <3>1 DEF NoBlock
    <3> QED BY <3>1, <3>2 DEF OutEnd
  <2>6. ~(f.pos < e.stop) => ~e'.running
    <3>1. f \in Frames(d)
      BY <2>4 DEF FrameCore
    <3> HIDE DEF f
    <3>2. ~Returned(d, f).running
      BY <3>1 DEF Returned, Frames
    <3> QED BY <2>2, <3>2
  <2> HIDE DEF f
  <2> QED BY <2>1, <2>2, <2>4, <2>5, <2>6 DEF f
<1>6. ASSUME Return(1) PROVE e.running /\ ~e'.running
  <2>1. e.running /\ enc' = [enc EXCEPT ![1] = Returned(d, e)]
    BY <1>1, <1>6 DEF Return, Advance
  <2>2. e' = Returned(d, e)
    BY <1>1, <2>1 DEF call
  <2>3. ~Returned(d, e).running
    BY <1>1 DEF Returned, Frames
  <2> QED BY <2>1, <2>2, <2>3
<1> QED BY <1>3, <1>4, <1>5, <1>6

\* Every step keeps the invariant of the buffer.
LEMMA NextWriterInv == WriterInv /\ [WriterNext]_writerVars => WriterInv'
<1> SUFFICES ASSUME WriterInv, [WriterNext]_writerVars PROVE WriterInv'
  OBVIOUS
<1>1. CASE UNCHANGED writerVars
  BY <1>1 DEF WriterInv, writerVars, vars, CallInv, call, Whole, Paid
<1>2. CASE WriterNext
  <2>1. /\ CallInv' /\ data' = data
        /\ Whole' <=> Whole
        /\ data \in Seq(Byte) /\ FrameCore(data, call)
    BY <1>2, WriterSteps DEF Whole, WriterInv, CallInv, FrameInv
  <2>2. Len(data) \in Nat /\ call.pos \in 0..Len(data) /\ OutEnd(call) \in Nat
    BY <2>1, PendingEnds
  <2>3. CASE WriteEnd
    <3> DEFINE c == FlushedTo(Buffer, data, call)
    <3>1. Return(1) /\ w' = c.w /\ room' = c.room
      BY <2>3 DEF WriteEnd, Writes
    <3>2. call.running /\ ~call'.running
      BY <3>1, StepFrames
    <3>3. /\ c.w \in Nat /\ c.room \in Nat /\ c.w <= c.room
          /\ Whole => c.room = room /\ 4 * c.w <= 5 * Len(data) + 3
      BY <2>1, <3>2, LastFits
    <3> HIDE DEF c
    <3> QED BY <2>1, <3>1, <3>2, <3>3 DEF WriterInv, Paid
  <2>4. CASE WriteFill
    <3> DEFINE c == Put(FlushedTo(Buffer, data, call), 5, 5)
               len == FillCovers(data, call.pos)
    <3>1. EmitFill(1) /\ w' = c.w /\ room' = c.room
      BY <2>4 DEF WriteFill, Writes
    <3>2. /\ call.running /\ call.pos < Len(data) /\ len > 0
          /\ call'.running /\ OutEnd(call') = call.pos + len
      BY <3>1, StepFrames
    <3>3. call.pos \in 0..(Len(data) - 1)
      BY <2>2, <3>2
    <3>4. len \in 1..(Len(data) - call.pos) /\ 4 * 5 <= 5 * len
      BY <2>1, <3>2, <3>3, FillRange, FillCost
    <3>5. 5 \in Nat
      OBVIOUS
    <3> HIDE DEF len
    <3>6. /\ c.w \in Nat /\ c.room \in Nat /\ c.w <= c.room
          /\ Whole => c.room = room /\ 4 * c.w <= 5 * (call.pos + len)
      BY <3>2, <3>4, <3>5, WriteFits
    <3> HIDE DEF c
    <3> QED BY <2>1, <3>1, <3>2, <3>6 DEF WriterInv, Paid
  <2>5. CASE WriteDp
    <3> DEFINE len == DpLen(data, call.pos)
               cost == 5 + len
               c == Put(FlushedTo(Buffer, data, call), cost, cost)
    <3>1. EmitDp(1) /\ w' = c.w /\ room' = c.room
      BY <2>5 DEF WriteDp, Writes, DpNeed
    <3>2. /\ call.running /\ call.pos < Len(data) /\ len >= MinPassthrough
          /\ call'.running /\ OutEnd(call') = call.pos + len
      BY <3>1, StepFrames
    <3>3. len \in 0..(Len(data) - call.pos)
      BY <2>1, <2>2, DpLenFacts
    <3> HIDE DEF len
    <3>4. len \in 1..(Len(data) - call.pos) /\ cost \in Nat /\ 4 * cost <= 5 * len
      BY <3>2, <3>3, CostAssumption, ThresholdsAssumption
    <3> HIDE DEF cost
    <3>6. /\ c.w \in Nat /\ c.room \in Nat /\ c.w <= c.room
          /\ Whole => c.room = room /\ 4 * c.w <= 5 * (call.pos + len)
      BY <3>2, <3>4, WriteFits
    <3> HIDE DEF c
    <3> QED BY <2>1, <3>1, <3>2, <3>6 DEF WriterInv, Paid
  <2>6. CASE KeepBlock
    <3>1. TakeBlock(1) /\ call'.running /\ w' = w /\ room' = room
      BY <2>6 DEF KeepBlock
    <3>2. call.running /\ OutEnd(call') = OutEnd(call)
      BY <3>1, StepFrames
    <3> QED BY <2>1, <3>1, <3>2 DEF WriterInv, Paid
  <2>7. CASE WriteBlocks
    <3> DEFINE f == Taken(data, call)
               c == FlushedTo(Buffer, data, f)
    <3>1. TakeBlock(1) /\ ~call'.running /\ w' = c.w /\ room' = c.room
      BY <2>7 DEF WriteBlocks, Writes
    <3>2. call.running /\ FrameCore(data, f) /\ OutEnd(f) = OutEnd(call)
      BY <3>1, StepFrames
    <3> HIDE DEF f
    <3>3. /\ c.w \in Nat /\ c.room \in Nat /\ c.w <= c.room
          /\ Whole => c.room = room /\ 4 * c.w <= 5 * Len(data) + 3
      BY <3>2, LastFits
    <3> HIDE DEF c
    <3> QED BY <2>1, <3>1, <3>3 DEF WriterInv, Paid
  <2> QED BY <1>2, <2>3, <2>4, <2>5, <2>6, <2>7 DEF WriterNext
<1> QED BY <1>1, <1>2

\* The inductive invariant of a call's output buffer holds at every step.
THEOREM WriterInvariant == WriterSpec => []WriterInv
BY InitWriterInv, NextWriterInv, PTL DEF WriterSpec

\* Every write of a call ends inside its buffer, whatever the bounds of the call
\* and however long its last construct, and a call over the whole input never
\* makes the buffer longer than it was at the start.
THEOREM WriterRoomReserved == WriterSpec => []RoomReserved
<1>1. WriterInv => RoomReserved
  BY DEF WriterInv, RoomReserved, Whole
<1> QED BY <1>1, WriterInvariant, PTL

\* A call with its buffer is a call: what holds of one holds of the other.
THEOREM WriterIsCall == WriterSpec => Spec
<1>1. WriterInit => Init
  BY DEF WriterInit
<1>2. [WriterNext]_writerVars => [Next]_vars
  BY DEF WriterNext, WriteEnd, WriteFill, WriteDp, KeepBlock, WriteBlocks, Next, EncodeStep,
         writerVars
<1> QED BY <1>1, <1>2, PTL DEF WriterSpec, Spec
=============================================================================
