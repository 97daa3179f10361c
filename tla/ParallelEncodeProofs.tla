------------------------ MODULE ParallelEncodeProofs ------------------------
(***************************************************************************)
(* The parallel encoder produces the canonical encoding of its input: for  *)
(* every input, chunk length and alphabet, and however the threads run.    *)
(* Each call keeps the invariant of its frame; the main thread's invariant *)
(* is that the output is canonical up to the cursor and that the cursor    *)
(* has passed the chunks of the parts it has looked at.                    *)
(***************************************************************************)
EXTENDS ParallelEncode, EncodeRangeProofs

Meet(e) == {e.points[k].pos : k \in 1..Len(e.points)}

\* The end of chunk i.
StopOf(i) == IF i = Parts THEN Len(data) ELSE i * chunk

\* Each worker is the call of its chunk, and meets no one.
WorkersInv ==
  \A i \in 1..Parts :
    /\ enc[i].start = (i - 1) * chunk
    /\ enc[i].stop = StopOf(i)
    /\ enc[i].meet = {}

\* The main thread: what it has looked at is behind the cursor, and a repair
\* is the call that leads from the cursor to the part it is to be joined with.
MainInv ==
  /\ phase = "encode" => part = 1 /\ out = <<>> /\ cursor = 0
  /\ phase # "encode" =>
       /\ part \in 2..(Parts + 1)
       /\ \A i \in 1..Parts : ~enc[i].running
       /\ cursor >= StopOf(part - 1)
  /\ phase = "repair" =>
       /\ part \in 1..Parts /\ cursor < enc[part].pos
       /\ enc[0].start = cursor /\ enc[0].stop = enc[part].pos
       /\ enc[0].meet = Meet(enc[part])
  /\ phase = "done" => part = Parts + 1

OutInv ==
  /\ out \in Seq(Units(data))
  /\ cursor \in 0..Len(data)
  /\ Canon(data, 0, out, cursor)

ParInv ==
  /\ data \in Seq(Byte) /\ data # <<>> /\ chunk \in Nat \ {0}
  /\ phase \in {"encode", "splice", "repair", "done"}
  /\ part \in 1..(Parts + 1)
  /\ DOMAIN enc = 0..Parts
  /\ \A i \in 0..Parts : FrameInv(data, enc[i])
  /\ WorkersInv
  /\ MainInv
  /\ OutInv

-----------------------------------------------------------------------------
(* The pieces.                                                             *)

\* The chunks cover the input.
LEMMA ChunkFacts ==
  ASSUME NEW len \in Nat \ {0}, NEW c \in Nat \ {0}, NEW m, m = (len + c - 1) \div c
  PROVE  /\ m \in Nat \ {0}
         /\ \A i \in 1..m : /\ (i - 1) * c \in 0..(len - 1)
                            /\ i # m => i * c \in 0..(len - 1) /\ (i - 1) * c <= i * c
<1>1. m \in Nat /\ m * c <= len + c - 1 /\ len + c - 1 < m * c + c
  OBVIOUS
<1>2. m # 0
  BY <1>1
<1>3. ASSUME NEW j \in Nat, j < m PROVE j * c \in 0..(len - 1)
  <2>1. j * c \in Nat /\ j + 1 <= m
    BY <1>1, <1>3
  <2>2. (j + 1) * c <= m * c
    BY <1>1, <2>1
  <2>3. (j + 1) * c = j * c + c
    OBVIOUS
  <2> QED BY <1>1, <2>1, <2>2, <2>3
<1>4. ASSUME NEW i \in 1..m
      PROVE  /\ (i - 1) * c \in 0..(len - 1)
             /\ i # m => i * c \in 0..(len - 1) /\ (i - 1) * c <= i * c
  <2>1. i - 1 \in Nat /\ i - 1 < m /\ i \in Nat /\ (i # m => i < m)
    BY <1>1
  <2>2. (i - 1) * c \in 0..(len - 1)
    BY <1>3, <2>1
  <2>3. i # m => i * c \in 0..(len - 1)
    BY <1>3, <2>1
  <2>4. (i - 1) * c <= i * c
    <3>1. i * c = (i - 1) * c + c
      BY <2>1
    <3> QED BY <2>2, <3>1
  <2> QED BY <2>2, <2>3, <2>4
<1> QED BY <1>1, <1>2, <1>4

\* There is a part, and the bounds of every part lie in the input.
LEMMA PartsFacts ==
  ASSUME data \in Seq(Byte), data # <<>>, chunk \in Nat \ {0}
  PROVE  /\ Parts \in Nat \ {0}
         /\ \A i \in 1..Parts : (i - 1) * chunk \in Nat /\ StopOf(i) \in 0..Len(data)
<1> DEFINE len == Len(data)
<1>1. len \in Nat \ {0}
  OBVIOUS
<1>2. Parts = (len + chunk - 1) \div chunk
  BY DEF Parts, Chunks
<1> HIDE DEF len
<1> DEFINE m == Parts
<1> HIDE DEF m
<1>3. m \in Nat \ {0}
  <2>1. m = (len + chunk - 1) \div chunk
    BY <1>2 DEF m
  <2> QED BY <1>1, <2>1
<1>4. ASSUME NEW i \in 1..m
      PROVE  (i - 1) * chunk \in Nat /\ StopOf(i) \in 0..len
  <2>1. StopOf(i) = (IF i = m THEN len ELSE i * chunk)
    BY DEF StopOf, len, m
  <2>2. m = (len + chunk - 1) \div chunk
    BY <1>2 DEF m
  <2>3. (i - 1) * chunk \in 0..(len - 1) /\ (i # m => i * chunk \in 0..(len - 1))
    BY <1>1, <2>2, ChunkFacts
  <2> QED BY <1>1, <2>1, <2>3
<1> QED BY <1>3, <1>4 DEF len, m

\* What a part adds is canonical from where it is joined to where it ends.
LEMMA JoinedGood ==
  ASSUME NEW d \in Seq(Byte), NEW e, FrameInv(d, e), ~e.running, NEW pos \in Nat
  PROVE  /\ Joined(e, pos) \in Seq(Units(d))
         /\ Canon(d, pos, Joined(e, pos), JoinedEnd(e, pos))
         /\ JoinedEnd(e, pos) = (IF IsPoint(e, pos) THEN e.pos ELSE pos)
<1>1. CASE ~IsPoint(e, pos)
  <2>1. Joined(e, pos) = <<>> /\ JoinedEnd(e, pos) = pos
    BY <1>1 DEF Joined, JoinedEnd
  <2> QED BY <1>1, <2>1, CanonEmpty
<1>2. CASE IsPoint(e, pos)
  <2> DEFINE at(k) == e.points[k].pos = pos
             k == CHOOSE i \in 1..Len(e.points) : at(i)
             w == PointOffset(e, pos)
  <2>1. k \in 1..Len(e.points) /\ at(k)
    <3>1. \E i \in 1..Len(e.points) : at(i)
      BY <1>2 DEF IsPoint
    <3> HIDE DEF at
    <3> QED BY <3>1, Zenon
  <2>2. w = e.points[k].w
    BY Zenon DEF PointOffset
  <2>3. /\ e \in Frames(d) /\ Canon(d, e.start, e.out, OutEnd(e)) /\ OutEnd(e) = e.pos
        /\ PointsOK(e.points, e.start, e.meet, e.out, OutEnd(e), e.pos)
    BY DEF FrameInv, FrameCore, OutEnd
  <2>4. w \in 0..Len(e.out) /\ pos = StartOf(e.out, w, e.pos)
    BY <2>1, <2>2, <2>3 DEF PointsOK
  <2>5. e.out \in Seq(Units(d))
    BY <2>3 DEF Frames
  <2>6. Joined(e, pos) = SubSeq(e.out, w + 1, Len(e.out)) /\ JoinedEnd(e, pos) = e.pos
    BY <1>2 DEF Joined, JoinedEnd
  <2> HIDE DEF w
  <2> QED BY <1>2, <2>3, <2>4, <2>5, <2>6, CanonSuffix
<1> QED BY <1>1, <1>2

\* Nothing is under repair at first.
LEMMA NoRepairInv ==
  ASSUME NEW d \in Seq(Byte)
  PROVE  FrameInv(d, NoRepair)
<1> DEFINE e == Call(0, 0, {}, FALSE)
           f == NoRepair
<1>1. FrameCore(d, e)
  <2>1. 0 \in Nat /\ 0 \in 0..Len(d) /\ 0 <= 0 /\ {} \in SUBSET Nat /\ FALSE \in BOOLEAN
    OBVIOUS
  <2>2. FrameInv(d, Call(0, 0, {}, FALSE))
    BY <2>1, CallInit
  <2> QED BY <2>2 DEF FrameInv
<1>2. /\ e.start = 0 /\ e.stop = 0 /\ e.meet = {} /\ e.pos = 0 /\ e.block_start = NoBlock
      /\ e.out = <<>> /\ e.points = <<>>
  BY DEF Call
<1>3. f = [e EXCEPT !.running = FALSE]
  BY DEF NoRepair
<1>4. e \in Frames(d)
  BY <1>1 DEF FrameCore
<1> HIDE DEF e, f
<1>5. /\ f \in Frames(d) /\ f.start = 0 /\ f.stop = 0 /\ f.meet = {} /\ f.pos = 0
      /\ f.block_start = NoBlock /\ f.out = <<>> /\ f.points = <<>> /\ f.running = FALSE
  BY <1>2, <1>3, <1>4 DEF Frames
<1>6. FrameCore(d, f)
  BY <1>1, <1>2, <1>5 DEF FrameCore, OutEnd, PendingOK, PointsOK
<1>7. FrameInv(d, f)
  BY <1>5, <1>6 DEF FrameInv
<1> QED BY <1>7 DEF f

\* Worker i starts as the call of its chunk.
LEMMA WorkerInit ==
  ASSUME NEW d \in Seq(Byte), d # <<>>, NEW c \in Nat \ {0}, NEW i \in 1..Chunks(d, c)
  PROVE  /\ FrameInv(d, Worker(d, c, i))
         /\ Worker(d, c, i).start = (i - 1) * c
         /\ Worker(d, c, i).stop = (IF i = Chunks(d, c) THEN Len(d) ELSE i * c)
         /\ Worker(d, c, i).meet = {}
<1> DEFINE start == (i - 1) * c
           stop == IF i = Chunks(d, c) THEN Len(d) ELSE i * c
           m == Chunks(d, c)
           record == i > 1
<1>1. Len(d) \in Nat \ {0}
  OBVIOUS
<1>2. m = (Len(d) + c - 1) \div c
  BY DEF Chunks
<1> HIDE DEF m
<1>3. start \in 0..(Len(d) - 1) /\ (i # m => i * c \in 0..(Len(d) - 1) /\ start <= i * c)
  BY <1>1, <1>2, ChunkFacts DEF m
<1>4. start \in Nat /\ stop \in 0..Len(d) /\ start <= stop
  BY <1>1, <1>3 DEF m
<1>5. Worker(d, c, i) = Call(start, stop, {}, record)
  BY DEF Worker
<1>6. record \in BOOLEAN /\ {} \in SUBSET Nat
  OBVIOUS
<1> HIDE DEF start, stop, record
<1>7. FrameInv(d, Call(start, stop, {}, record))
  BY <1>4, <1>6, CallInit
<1>8. /\ Call(start, stop, {}, record).start = start
      /\ Call(start, stop, {}, record).stop = stop
      /\ Call(start, stop, {}, record).meet = {}
  BY DEF Call
<1> QED BY <1>5, <1>7, <1>8 DEF start, stop

\* The initial states satisfy the invariant.
LEMMA InitParInv == Init => ParInv
<1> SUFFICES ASSUME NEW c \in Cases, data = c.data, chunk = c.chunk,
                    enc = [i \in 0..Parts |->
                             IF i = 0 THEN NoRepair ELSE Worker(data, chunk, i)],
                    phase = "encode", part = 1, out = <<>>, cursor = 0
             PROVE  ParInv
  BY DEF Init, Parts
<1>1. data \in Seq(Byte) /\ data # <<>> /\ chunk \in Nat \ {0}
  BY CasesAssumption
<1>2. Parts \in Nat \ {0}
  BY <1>1, PartsFacts
<1>3. DOMAIN enc = 0..Parts /\ enc[0] = NoRepair
      /\ \A i \in 1..Parts : enc[i] = Worker(data, chunk, i)
  BY <1>2
<1>4. \A i \in 0..Parts : FrameInv(data, enc[i])
  <2> SUFFICES ASSUME NEW i \in 0..Parts PROVE FrameInv(data, enc[i])
    OBVIOUS
  <2>1. CASE i = 0
    BY <1>1, <1>3, <2>1, NoRepairInv
  <2>2. CASE i # 0
    <3>1. i \in 1..Parts
      BY <1>2, <2>2
    <3>2. FrameInv(data, Worker(data, chunk, i))
      BY <1>1, <3>1, WorkerInit DEF Parts
    <3> QED BY <1>3, <3>1, <3>2
  <2> QED BY <2>1, <2>2
<1>5. WorkersInv
  <2> SUFFICES ASSUME NEW i \in 1..Parts
               PROVE  /\ enc[i].start = (i - 1) * chunk
                      /\ enc[i].stop = StopOf(i) /\ enc[i].meet = {}
    BY DEF WorkersInv
  <2>1. enc[i] = Worker(data, chunk, i)
    BY <1>3
  <2> QED BY <1>1, <2>1, WorkerInit DEF Parts, StopOf
<1>6. MainInv
  BY DEF MainInv
<1>7. OutInv
  BY <1>1, CanonEmpty DEF OutInv
<1> QED BY <1>1, <1>2, <1>3, <1>4, <1>5, <1>6, <1>7 DEF ParInv

-----------------------------------------------------------------------------
(* The steps.                                                              *)

\* The output is left alone, or grows by a canonical piece.
OutStep ==
  /\ data' = data
  /\ \/ UNCHANGED <<out, cursor>>
     \/ /\ cursor' \in 0..Len(data)
        /\ \E v \in Seq(Units(data)) : out' = out \o v /\ Canon(data, cursor, v, cursor')

\* Growing by a canonical piece keeps the output canonical.
LEMMA OutKept ==
  ASSUME ParInv, OutStep PROVE OutInv'
<1>1. CASE UNCHANGED <<data, out, cursor>>
  BY <1>1 DEF ParInv, OutInv
<1>2. ASSUME data' = data, cursor' \in 0..Len(data),
             NEW v \in Seq(Units(data)), out' = out \o v, Canon(data, cursor, v, cursor')
      PROVE  OutInv'
  <2>1. out' \in Seq(Units(data)) /\ Canon(data, 0, out', cursor')
    BY <1>2, CanonConcat DEF ParInv, OutInv
  <2> QED BY <1>2, <2>1 DEF OutInv
<1> QED BY <1>1, <1>2 DEF OutStep

\* What a returned part says of itself.
LEMMA ReturnedPart ==
  ASSUME ParInv, NEW i \in 0..Parts, ~enc[i].running
  PROVE  /\ enc[i].pos \in 0..Len(data) /\ enc[i].stop \in 0..Len(data)
         /\ enc[i].start \in Nat
         /\ enc[i].out \in Seq(Units(data))
         /\ Canon(data, enc[i].start, enc[i].out, enc[i].pos)
         /\ enc[i].pos >= enc[i].stop \/ enc[i].pos \in enc[i].meet
         /\ i # 0 => enc[i].pos >= StopOf(i)
<1>1. data \in Seq(Byte) /\ FrameInv(data, enc[i])
  BY DEF ParInv
<1> DEFINE e == enc[i]
<1>2. i # 0 => e.stop = StopOf(i) /\ e.meet = {}
  <2>1. i # 0 => i \in 1..Parts
    BY PartsFacts DEF ParInv
  <2> QED BY <2>1 DEF ParInv, WorkersInv
<1> HIDE DEF e
<1>3. /\ e \in Frames(data) /\ Canon(data, e.start, e.out, OutEnd(e))
      /\ e.block_start = NoBlock /\ (e.pos >= e.stop \/ e.pos \in e.meet)
  BY <1>1 DEF FrameInv, FrameCore, e
<1>4. OutEnd(e) = e.pos
  BY <1>3 DEF OutEnd
<1> QED BY <1>2, <1>3, <1>4 DEF Frames, e

\* An iteration of a worker keeps the invariant; the output is untouched.
LEMMA WorkerStepInv ==
  ASSUME ParInv, NEW i \in 1..Parts, WorkerStep(i)
  PROVE  ParInv' /\ OutStep
<1>1. /\ EncodeStep(i) /\ UNCHANGED <<chunk, phase, part, out, cursor>>
      /\ data \in Seq(Byte) /\ i \in DOMAIN enc /\ FrameInv(data, enc[i])
      /\ Parts \in Nat
  BY PartsFacts DEF WorkerStep, ParInv
<1>2. data' = data /\ \E f : /\ enc' = [enc EXCEPT ![i] = f]
                             /\ FrameInv(data, f) /\ Grew(data, enc[i], f)
  BY <1>1, EncodeStepGood
<1>3. PICK f : enc' = [enc EXCEPT ![i] = f] /\ FrameInv(data, f) /\ Grew(data, enc[i], f)
  BY <1>2
<1>4. enc[i].running
  BY <1>1 DEF EncodeStep, Return, EmitFill, EmitDp, TakeBlock
<1>5. phase = "encode"
  BY <1>4 DEF ParInv, MainInv
<1>6. Parts' = Parts
  BY <1>1, <1>2 DEF Parts
<1>7. DOMAIN enc' = 0..Parts /\ \A j \in 0..Parts : enc'[j] = IF j = i THEN f ELSE enc[j]
  BY <1>3 DEF ParInv
<1>8. \A j \in 0..Parts : FrameInv(data, enc'[j])
  BY <1>3, <1>7 DEF ParInv
<1>9. WorkersInv'
  <2> SUFFICES ASSUME NEW j \in 1..Parts
               PROVE  /\ enc'[j].start = (j - 1) * chunk
                      /\ enc'[j].stop = StopOf(j) /\ enc'[j].meet = {}
    BY <1>1, <1>2, <1>6 DEF WorkersInv, StopOf
  <2>1. /\ enc'[j].start = enc[j].start /\ enc'[j].stop = enc[j].stop
        /\ enc'[j].meet = enc[j].meet
    BY <1>1, <1>3, <1>7 DEF Grew
  <2> QED BY <2>1 DEF ParInv, WorkersInv
<1>10. MainInv'
  BY <1>1, <1>5 DEF ParInv, MainInv
<1>11. OutStep
  BY <1>1, <1>2 DEF OutStep
<1>12. OutInv'
  BY <1>11, OutKept
<1> QED BY <1>1, <1>2, <1>6, <1>7, <1>8, <1>9, <1>10, <1>11, <1>12 DEF ParInv

\* So does an iteration of the call that repairs a seam.
LEMMA RepairStepInv ==
  ASSUME ParInv, RepairStep
  PROVE  ParInv' /\ OutStep
<1>1. /\ phase = "repair" /\ EncodeStep(0)
      /\ UNCHANGED <<chunk, phase, part, out, cursor>>
      /\ data \in Seq(Byte) /\ Parts \in Nat \ {0} /\ 0 \in 0..Parts /\ FrameInv(data, enc[0])
  BY PartsFacts DEF RepairStep, ParInv
<1>2. data' = data /\ \E f : /\ enc' = [enc EXCEPT ![0] = f]
                             /\ FrameInv(data, f) /\ Grew(data, enc[0], f)
  BY <1>1, EncodeStepGood DEF ParInv
<1>3. PICK f : enc' = [enc EXCEPT ![0] = f] /\ FrameInv(data, f) /\ Grew(data, enc[0], f)
  BY <1>2
<1>4. Parts' = Parts
  BY <1>1, <1>2 DEF Parts
<1>5. DOMAIN enc' = 0..Parts /\ \A j \in 0..Parts : enc'[j] = IF j = 0 THEN f ELSE enc[j]
  BY <1>3 DEF ParInv
<1>6. \A j \in 0..Parts : FrameInv(data, enc'[j])
  BY <1>3, <1>5 DEF ParInv
<1>7. \A j \in 1..Parts : enc'[j] = enc[j]
  BY <1>1, <1>5
<1>8. WorkersInv'
  BY <1>1, <1>2, <1>4, <1>7 DEF ParInv, WorkersInv, StopOf
<1>9. MainInv'
  <2>1. /\ f.start = cursor /\ f.stop = enc[part].pos /\ f.meet = Meet(enc[part])
        /\ part \in 1..Parts /\ cursor < enc[part].pos
    BY <1>1, <1>3 DEF ParInv, MainInv, Grew
  <2>2. enc'[0] = f /\ enc'[part] = enc[part]
    BY <1>1, <1>5, <1>7, <2>1
  <2>3. StopOf(part - 1)' = StopOf(part - 1)
    BY <1>1, <1>2, <1>4 DEF StopOf
  <2>4. /\ part \in 2..(Parts + 1) /\ cursor >= StopOf(part - 1)
        /\ \A i \in 1..Parts : ~enc'[i].running
    BY <1>1, <1>7 DEF ParInv, MainInv
  <2> QED BY <1>1, <1>4, <2>1, <2>2, <2>3, <2>4 DEF MainInv
<1>10. OutStep
  BY <1>1, <1>2 DEF OutStep
<1>11. OutInv'
  BY <1>10, OutKept
<1> QED BY <1>1, <1>2, <1>4, <1>5, <1>6, <1>8, <1>9, <1>10, <1>11 DEF ParInv

\* A step that leaves the calls alone keeps what is said of them.
LEMMA CallsKept ==
  ASSUME ParInv, UNCHANGED <<data, enc, chunk>>
  PROVE  /\ data' \in Seq(Byte) /\ data' # <<>> /\ chunk' \in Nat \ {0}
         /\ Parts' = Parts /\ DOMAIN enc' = 0..Parts
         /\ \A i \in 0..Parts : FrameInv(data, enc'[i])
         /\ WorkersInv'
<1>1. Parts' = Parts
  BY DEF Parts
<1> QED BY <1>1 DEF ParInv, WorkersInv, StopOf

\* The first part is canonical from the start of the input, and ends at or
\* past the end of the first chunk.
LEMMA JoinWorkersInv ==
  ASSUME ParInv, JoinWorkers PROVE ParInv' /\ OutStep
<1>1. /\ phase = "encode" /\ (\A i \in 1..Parts : ~enc[i].running)
      /\ phase' = "splice" /\ part' = 2
      /\ out' = enc[1].out /\ cursor' = enc[1].pos
      /\ UNCHANGED <<data, enc, chunk>>
  BY DEF JoinWorkers
<1>2. Parts \in Nat \ {0} /\ 1 \in 1..Parts /\ 1 \in 0..Parts
  BY PartsFacts DEF ParInv
<1>3. /\ cursor' \in 0..Len(data) /\ cursor' >= StopOf(1)
      /\ enc[1].out \in Seq(Units(data)) /\ Canon(data, enc[1].start, enc[1].out, cursor')
  BY <1>1, <1>2, ReturnedPart
<1>4. enc[1].start = 0 /\ out = <<>> /\ cursor = 0
  BY <1>1, <1>2 DEF ParInv, WorkersInv, MainInv
<1>5. OutStep
  <2> DEFINE v == enc[1].out
  <2>1. out' = out \o v /\ Canon(data, cursor, v, cursor') /\ v \in Seq(Units(data))
    BY <1>1, <1>3, <1>4
  <2> HIDE DEF v
  <2> QED BY <1>1, <1>3, <2>1 DEF OutStep
<1>6. OutInv'
  BY <1>5, OutKept
<1>7. Parts' = Parts /\ StopOf(1)' = StopOf(1)
  BY <1>1 DEF Parts, StopOf
<1>8. MainInv'
  <2>1. part' - 1 = 1 /\ part' \in 2..(Parts + 1)
    BY <1>1, <1>2
  <2>2. StopOf(part - 1)' = StopOf(1)'
    BY <2>1 DEF StopOf
  <2>3. cursor' >= StopOf(part - 1)'
    BY <1>3, <1>7, <2>2
  <2>4. \A i \in 1..Parts : ~enc'[i].running
    BY <1>1
  <2> QED BY <1>1, <1>7, <2>1, <2>3, <2>4 DEF MainInv
<1> QED BY <1>1, <1>2, <1>5, <1>6, <1>7, <1>8, CallsKept DEF ParInv

\* The main thread moves on to the next part.
LEMMA MovesOn ==
  ASSUME ParInv, part \in 1..Parts, phase # "encode", UNCHANGED <<data, enc, chunk>>,
         phase' = "splice", part' = part + 1, cursor' \in Nat, cursor' >= StopOf(part), OutStep
  PROVE  ParInv'
<1>1. OutInv'
  BY OutKept
<1>2. Parts' = Parts /\ Parts \in Nat \ {0}
  BY PartsFacts DEF Parts, ParInv
<1>3. part' \in 2..(Parts + 1) /\ part' - 1 = part
  BY <1>2
<1>4. StopOf(part - 1)' = StopOf(part)
  BY <1>2, <1>3 DEF StopOf
<1>5. \A i \in 1..Parts : ~enc'[i].running
  BY DEF ParInv, MainInv
<1>6. MainInv'
  BY <1>2, <1>3, <1>4, <1>5 DEF MainInv
<1> QED BY <1>1, <1>2, <1>3, <1>6, CallsKept DEF ParInv

\* The part the main thread looks at.
LEMMA LookedAt ==
  ASSUME ParInv, phase # "encode", part <= Parts
  PROVE  /\ part \in 1..Parts /\ part \in 0..Parts /\ part # 0
         /\ FrameInv(data, enc[part]) /\ ~enc[part].running
         /\ enc[part].pos \in 0..Len(data) /\ enc[part].pos >= StopOf(part)
         /\ StopOf(part) \in Nat /\ cursor \in Nat
<1>1. Parts \in Nat \ {0} /\ part \in 2..(Parts + 1)
  BY PartsFacts DEF ParInv, MainInv
<1>2. part \in 1..Parts /\ part \in 0..Parts /\ part # 0
  BY <1>1
<1>3. FrameInv(data, enc[part]) /\ ~enc[part].running
  BY <1>2 DEF ParInv, MainInv
<1>4. StopOf(part) \in 0..Len(data)
  BY <1>2, PartsFacts DEF ParInv
<1> QED BY <1>2, <1>3, <1>4, ReturnedPart DEF ParInv, OutInv

\* A part the output already runs past needs nothing.
LEMMA SkipPartInv ==
  ASSUME ParInv, SkipPart PROVE ParInv' /\ OutStep
<1>1. /\ phase = "splice" /\ part <= Parts /\ cursor >= enc[part].pos
      /\ part' = part + 1 /\ UNCHANGED <<data, enc, chunk, phase, out, cursor>>
  BY DEF SkipPart
<1>2. OutStep
  BY <1>1 DEF OutStep
<1>3. cursor' >= StopOf(part) /\ cursor' \in Nat
  BY <1>1, LookedAt
<1> QED BY <1>1, <1>2, <1>3, LookedAt, MovesOn

\* A part joined at one of its splice points continues the output exactly.
LEMMA SplicePartInv ==
  ASSUME ParInv, SplicePart PROVE ParInv' /\ OutStep
<1> DEFINE e == enc[part]
           v == Joined(e, cursor)
<1>1. /\ phase = "splice" /\ part <= Parts /\ cursor < e.pos /\ IsPoint(e, cursor)
      /\ out' = out \o v /\ cursor' = JoinedEnd(e, cursor)
      /\ part' = part + 1 /\ UNCHANGED <<data, enc, chunk, phase>>
  BY DEF SplicePart
<1>2. /\ FrameInv(data, e) /\ ~e.running /\ cursor \in Nat
      /\ e.pos \in 0..Len(data) /\ e.pos >= StopOf(part) /\ StopOf(part) \in Nat
  BY <1>1, LookedAt
<1>3. /\ v \in Seq(Units(data)) /\ Canon(data, cursor, v, cursor')
      /\ cursor' = e.pos
  BY <1>1, <1>2, JoinedGood DEF ParInv
<1>4. OutStep
  <2> HIDE DEF v
  <2> QED BY <1>1, <1>2, <1>3 DEF OutStep
<1> QED BY <1>1, <1>2, <1>3, <1>4, LookedAt, MovesOn

\* A repair starts as a call from the cursor to the end of the part.
LEMMA StartRepairInv ==
  ASSUME ParInv, StartRepair PROVE ParInv' /\ OutStep
<1> DEFINE e == enc[part]
           f == Call(cursor, e.pos, Meet(e), FALSE)
<1>1. /\ phase = "splice" /\ part <= Parts /\ cursor < e.pos /\ ~IsPoint(e, cursor)
      /\ enc' = [enc EXCEPT ![0] = f] /\ phase' = "repair"
      /\ UNCHANGED <<data, chunk, part, out, cursor>>
  BY DEF StartRepair, Meet
<1>2. /\ part \in 1..Parts /\ FrameInv(data, e) /\ cursor \in Nat /\ e.pos \in 0..Len(data)
  BY <1>1, LookedAt
<1>3. Meet(e) \in SUBSET Nat
  <2> DEFINE points == e.points
  <2>1. points \in Seq([pos : Nat, w : Nat])
    BY <1>2 DEF FrameInv, FrameCore, Frames
  <2> HIDE DEF points
  <2>2. \A k \in 1..Len(points) : points[k] \in [pos : Nat, w : Nat]
    BY <2>1, ElementOfSeq
  <2>3. \A k \in 1..Len(points) : points[k].pos \in Nat
    BY <2>2
  <2> QED BY <2>3 DEF Meet, points
<1>4. FrameInv(data, f)
  <2>1. data \in Seq(Byte) /\ cursor <= e.pos /\ FALSE \in BOOLEAN
    BY <1>1, <1>2 DEF ParInv
  <2> DEFINE meet == Meet(e)
             stop == e.pos
  <2>2. meet \in SUBSET Nat /\ stop \in 0..Len(data) /\ cursor <= stop
    BY <1>2, <1>3, <2>1
  <2> HIDE DEF meet, stop
  <2>3. FrameInv(data, Call(cursor, stop, meet, FALSE))
    BY <1>2, <2>1, <2>2, CallInit
  <2> QED BY <2>3 DEF meet, stop
<1>5. f.start = cursor /\ f.stop = e.pos /\ f.meet = Meet(e)
  BY DEF Call
<1> HIDE DEF f
<1>6. Parts' = Parts /\ Parts \in Nat \ {0}
  BY <1>1, PartsFacts DEF Parts, ParInv
<1>7. /\ DOMAIN enc' = 0..Parts /\ enc'[0] = f
      /\ \A j \in 1..Parts : enc'[j] = enc[j]
  BY <1>1, <1>6 DEF ParInv
<1>8. \A j \in 0..Parts : FrameInv(data, enc'[j])
  <2> SUFFICES ASSUME NEW j \in 0..Parts PROVE FrameInv(data, enc'[j])
    OBVIOUS
  <2>1. j = 0 \/ j \in 1..Parts
    BY <1>6
  <2> QED BY <1>4, <1>7, <2>1 DEF ParInv
<1>9. WorkersInv'
  BY <1>1, <1>6, <1>7 DEF ParInv, WorkersInv, StopOf
<1>10. MainInv'
  <2>1. StopOf(part - 1)' = StopOf(part - 1)
    BY <1>1, <1>6 DEF StopOf
  <2>2. /\ part \in 2..(Parts + 1) /\ cursor >= StopOf(part - 1)
        /\ \A i \in 1..Parts : ~enc'[i].running
    BY <1>1, <1>7 DEF ParInv, MainInv
  <2>3. enc'[part] = e
    BY <1>2, <1>7
  <2> QED BY <1>1, <1>2, <1>5, <1>6, <1>7, <2>1, <2>2, <2>3 DEF MainInv
<1>11. OutStep
  BY <1>1 DEF OutStep
<1>12. OutInv'
  BY <1>11, OutKept
<1> QED BY <1>1, <1>6, <1>7, <1>8, <1>9, <1>10, <1>11, <1>12 DEF ParInv

\* A repair has either met the part at a splice point or run past its end;
\* both lead past the end of the chunk.
LEMMA EndRepairInv ==
  ASSUME ParInv, EndRepair PROVE ParInv' /\ OutStep
<1> DEFINE e == enc[part]
           f == enc[0]
           u == f.out
           v == Joined(e, f.pos)
<1>1. /\ phase = "repair" /\ ~f.running
      /\ out' = out \o u \o v /\ cursor' = JoinedEnd(e, f.pos)
      /\ part' = part + 1 /\ phase' = "splice" /\ UNCHANGED <<data, enc, chunk>>
  BY DEF EndRepair
<1>2. /\ part \in 1..Parts /\ part <= Parts
      /\ f.start = cursor /\ f.stop = e.pos /\ f.meet = Meet(e)
  BY <1>1, PartsFacts DEF ParInv, MainInv
<1>3. /\ FrameInv(data, e) /\ ~e.running
      /\ e.pos \in 0..Len(data) /\ e.pos >= StopOf(part) /\ StopOf(part) \in Nat
  BY <1>1, <1>2, LookedAt
<1>4. /\ f.pos \in 0..Len(data) /\ u \in Seq(Units(data))
      /\ Canon(data, cursor, u, f.pos)
      /\ f.pos >= e.pos \/ f.pos \in Meet(e)
  <2>1. 0 \in 0..Parts
    BY PartsFacts DEF ParInv
  <2> QED BY <1>1, <1>2, <2>1, ReturnedPart
<1>5. /\ v \in Seq(Units(data)) /\ Canon(data, f.pos, v, cursor')
      /\ cursor' = (IF IsPoint(e, f.pos) THEN e.pos ELSE f.pos)
  <2> DEFINE end == f.pos
  <2>1. data \in Seq(Byte) /\ end \in Nat /\ cursor' = JoinedEnd(e, end)
    BY <1>1, <1>4 DEF ParInv
  <2> HIDE DEF e, end
  <2>2. /\ Joined(e, end) \in Seq(Units(data))
        /\ Canon(data, end, Joined(e, end), JoinedEnd(e, end))
        /\ JoinedEnd(e, end) = (IF IsPoint(e, end) THEN e.pos ELSE end)
    BY <1>3, <2>1, JoinedGood DEF e
  <2> QED BY <2>1, <2>2 DEF end, e
<1>6. cursor' \in 0..Len(data) /\ cursor' >= StopOf(part)
  <2>1. CASE IsPoint(e, f.pos)
    BY <1>3, <1>5, <2>1
  <2>2. CASE ~IsPoint(e, f.pos)
    <3>1. f.pos \notin Meet(e)
      BY <2>2 DEF IsPoint, Meet
    <3> QED BY <1>3, <1>4, <1>5, <2>2, <3>1
  <2> QED BY <2>1, <2>2
<1>7. OutStep
  <2> HIDE DEF u, v
  <2>1. u \o v \in Seq(Units(data)) /\ Canon(data, cursor, u \o v, cursor')
    BY <1>4, <1>5, CanonConcat DEF ParInv
  <2>2. out \o u \o v = out \o (u \o v)
    BY <1>4, <1>5, ConcatAssociative, SMTT(30) DEF ParInv, OutInv
  <2>3. \E x \in Seq(Units(data)) : out' = out \o x /\ Canon(data, cursor, x, cursor')
    BY <1>1, <2>1, <2>2
  <2> QED BY <1>1, <1>6, <2>3 DEF OutStep
<1> QED BY <1>1, <1>2, <1>6, <1>7, MovesOn

\* Nothing changes when the last part has been joined.
LEMMA FinishInv ==
  ASSUME ParInv, Finish PROVE ParInv' /\ OutStep
<1>1. /\ phase = "splice" /\ part > Parts /\ phase' = "done"
      /\ UNCHANGED <<data, enc, chunk, part, out, cursor>>
  BY DEF Finish
<1>2. OutStep
  BY <1>1 DEF OutStep
<1>3. OutInv'
  BY <1>2, OutKept
<1>4. Parts' = Parts /\ Parts \in Nat \ {0}
  BY <1>1, PartsFacts DEF Parts, ParInv
<1>5. MainInv'
  <2>1. StopOf(part - 1)' = StopOf(part - 1)
    BY <1>1, <1>4 DEF StopOf
  <2>2. part = Parts + 1
    BY <1>1, <1>4 DEF ParInv
  <2> QED BY <1>1, <1>4, <2>1, <2>2 DEF ParInv, MainInv
<1> QED BY <1>1, <1>2, <1>3, <1>4, <1>5, CallsKept DEF ParInv

\* Every step of the parallel encoder keeps the invariant.
LEMMA NextParInv ==
  ASSUME ParInv, [Next]_vars
  PROVE  ParInv' /\ OutStep
<1>1. CASE UNCHANGED vars
  <2>1. Parts' = Parts /\ (StopOf(part - 1)' = StopOf(part - 1))
    BY <1>1 DEF vars, Parts, StopOf
  <2>2. OutStep
    BY <1>1 DEF vars, OutStep
  <2>3. MainInv'
    BY <1>1, <2>1 DEF vars, ParInv, MainInv
  <2> QED BY <1>1, <2>1, <2>2, <2>3, CallsKept, OutKept DEF vars, ParInv
<1>2. CASE \E i \in 1..Parts : WorkerStep(i)
  BY <1>2, WorkerStepInv
<1>3. CASE RepairStep
  BY <1>3, RepairStepInv
<1>4. CASE Main
  BY <1>4, JoinWorkersInv, SkipPartInv, SplicePartInv, StartRepairInv, EndRepairInv, FinishInv
     DEF Main
<1> QED BY <1>1, <1>2, <1>3, <1>4 DEF Next

-----------------------------------------------------------------------------
(* The theorems.                                                           *)

\* The inductive invariant holds at every step.
THEOREM ParInvariant == Spec => []ParInv
<1>1. ParInv /\ [Next]_vars => ParInv'
  BY NextParInv
<1> QED BY InitParInv, <1>1, PTL DEF Spec

\* The inductive invariant is strong enough for the safety properties.
LEMMA ParInvProperties ==
  ParInv => TypeOK /\ SplicedCanonical /\ NothingLeft /\ OnlyLastGroupPartial
<1> SUFFICES ASSUME ParInv
             PROVE  TypeOK /\ SplicedCanonical /\ NothingLeft /\ OnlyLastGroupPartial
  OBVIOUS
<1>1. data \in Seq(Byte) /\ Parts \in Nat \ {0}
  BY PartsFacts DEF ParInv
<1>2. ASSUME NEW i \in 0..Parts
      PROVE  /\ enc[i].pos \in enc[i].start..Len(data)
             /\ \A k \in 1..Len(enc[i].points) :
                  enc[i].points[k] \in [pos : enc[i].start..enc[i].pos, w : 0..Len(enc[i].out)]
             /\ enc[i].out \in Seq(Units(data))
             /\ \A k \in 1..Len(enc[i].out) :
                  /\ enc[i].out[k].at \in 0..(Len(data) - 1)
                  /\ enc[i].out[k] = UnitAt(data, enc[i].out[k].at)
  <2> DEFINE e == enc[i]
  <2>1. FrameCore(data, e)
    BY DEF ParInv, FrameInv
  <2> HIDE DEF e
  <2>2. /\ e \in Frames(data) /\ e.start <= e.pos /\ Canon(data, e.start, e.out, OutEnd(e))
        /\ PointsOK(e.points, e.start, e.meet, e.out, OutEnd(e), e.pos)
    BY <2>1 DEF FrameCore
  <2>3. /\ e.start \in Nat /\ e.pos \in 0..Len(data) /\ e.out \in Seq(Units(data))
        /\ e.points \in Seq([pos : Nat, w : Nat])
    BY <2>2 DEF Frames
  <2>4. ASSUME NEW k \in 1..Len(e.points)
        PROVE  e.points[k] \in [pos : e.start..e.pos, w : 0..Len(e.out)]
    <3> DEFINE points == e.points
               p == points[k]
    <3>1. p.pos \in e.start..(e.pos - 1) /\ p.w \in 0..Len(e.out)
      BY <2>2 DEF PointsOK
    <3>2. points \in Seq([pos : Nat, w : Nat]) /\ k \in 1..Len(points)
      BY <2>3
    <3> HIDE DEF points
    <3>3. p \in [pos : Nat, w : Nat]
      BY <3>2, ElementOfSeq
    <3> HIDE DEF p
    <3>4. p.pos \in e.start..e.pos
      BY <2>3, <3>1, SMTT(30)
    <3>5. p \in [pos : e.start..e.pos, w : 0..Len(e.out)]
      BY <3>1, <3>3, <3>4
    <3> QED BY <3>5 DEF p, points
  <2>5. \A k \in 1..Len(e.out) : /\ e.out[k].at \in 0..(Len(data) - 1)
                                 /\ e.out[k] = UnitAt(data, e.out[k].at)
    BY <2>2 DEF Canon
  <2>6. e.pos \in e.start..Len(data)
    BY <2>2, <2>3
  <2> QED BY <2>3, <2>4, <2>5, <2>6 DEF e
<1>3. TypeOK
  BY <1>1, <1>2 DEF TypeOK, ParInv, OutInv
<1>4. SplicedCanonical
  BY DEF ParInv, OutInv, SplicedCanonical
<1>5. NothingLeft
  <2> SUFFICES ASSUME part > Parts, phase # "encode" PROVE cursor = Len(data)
    BY DEF NothingLeft
  <2>1. part = Parts + 1
    BY <1>1 DEF ParInv
  <2>2. part - 1 = Parts
    BY <1>1, <2>1
  <2>3. cursor >= StopOf(Parts)
    BY <2>2 DEF ParInv, MainInv
  <2>4. StopOf(Parts) = Len(data)
    BY DEF StopOf
  <2> QED BY <2>3, <2>4 DEF ParInv, OutInv
<1>6. OnlyLastGroupPartial
  <2> SUFFICES ASSUME NEW i \in 0..Parts, NEW k \in 1..Len(enc[i].out),
                      enc[i].out[k].kind = "block", enc[i].out[k].len < 4
               PROVE  enc[i].out[k].at + enc[i].out[k].len = Len(data)
    BY DEF OnlyLastGroupPartial
  <2> DEFINE u == enc[i].out[k]
             p == u.at
  <2>1. p \in 0..(Len(data) - 1) /\ u = UnitAt(data, p)
    BY <1>2
  <2> HIDE DEF u, p
  <2>2. u.kind = "block" /\ u.len < 4
    BY DEF u
  <2>3. u = BlockUnit(data, p)
    BY <2>1, <2>2 DEF UnitAt, ChooseFill, DpUnit
  <2>4. u.len = Smaller(Len(data) - p, 4)
    BY <2>3 DEF BlockUnit
  <2>5. p + u.len = Len(data)
    BY <2>1, <2>2, <2>4 DEF Smaller
  <2> QED BY <2>5 DEF u, p
<1> QED BY <1>3, <1>4, <1>5, <1>6

\* The state has its type at every step.
THEOREM ParallelTypeOK == Spec => []TypeOK
BY ParInvariant, ParInvProperties, PTL

\* What the main thread has joined is the canonical encoding of the input up
\* to its cursor, for every input, chunk length and schedule.
THEOREM ParallelCanonical == Spec => []SplicedCanonical
BY ParInvariant, ParInvProperties, PTL

\* When the last part is joined nothing of the input is left.
THEOREM ParallelComplete == Spec => []NothingLeft
BY ParInvariant, ParInvProperties, PTL

\* Only the last group of the input is ever emitted short.
THEOREM ParallelGroups == Spec => []OnlyLastGroupPartial
BY ParInvariant, ParInvProperties, PTL

\* The parallel encoder implements the abstract stream.
THEOREM ParallelRefines == Spec => StreamSpec
<1>1. Init => Stream!Init
  BY DEF Init, Stream!Init, CaseInputs
<1>2. ParInv /\ [Next]_vars => [Stream!Next]_(Stream!vars)
  <2> SUFFICES ASSUME ParInv, [Next]_vars PROVE [Stream!Next]_(Stream!vars)
    OBVIOUS
  <2>1. OutStep
    BY NextParInv
  <2>2. CASE UNCHANGED <<data, out, cursor>>
    BY <2>2 DEF Stream!vars
  <2>3. ASSUME data' = data, cursor' \in 0..Len(data),
               NEW v \in Seq(Units(data)), out' = out \o v, Canon(data, cursor, v, cursor')
        PROVE  [Stream!Next]_(Stream!vars)
    <3>1. out \in Seq(Units(data)) /\ data \in Seq(Byte) /\ cursor \in Nat /\ cursor' \in Nat
      BY <2>3 DEF ParInv, OutInv
    <3>2. \/ cursor' = cursor /\ out' = out
          \/ /\ cursor' > cursor /\ IsStrictPrefix(out, out')
             /\ SubSeq(out', Len(out) + 1, Len(out')) = v
      BY <2>3, <3>1, Extends
    <3>3. CASE cursor' = cursor /\ out' = out
      BY <2>3, <3>3 DEF Stream!vars
    <3>4. CASE /\ cursor' > cursor /\ IsStrictPrefix(out, out')
               /\ SubSeq(out', Len(out) + 1, Len(out')) = v
      <4>1. Stream!IsStrictPrefix(out, out')
        BY <3>4 DEF Stream!IsStrictPrefix, Stream!IsPrefix, IsStrictPrefix, IsPrefix
      <4> QED BY <2>3, <3>4, <4>1 DEF Stream!Next, Stream!Extend
    <3> QED BY <3>2, <3>3, <3>4
  <2> QED BY <2>1, <2>2, <2>3 DEF OutStep
<1> QED BY <1>1, <1>2, ParInvariant, PTL DEF Spec, StreamSpec, Stream!Spec
=============================================================================
