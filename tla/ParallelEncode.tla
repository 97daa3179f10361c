--------------------------- MODULE ParallelEncode ---------------------------
(***************************************************************************)
(* The parallel encoder (parallel_with_chunk, rust/src/encode.rs).  One    *)
(* call of encode_range per chunk runs on a thread of its own; when all    *)
(* have returned, the main thread joins their parts in order: where the    *)
(* previous part really ended is looked up in the next part's splice       *)
(* points, and where it is not one of them that stretch is encoded again   *)
(* until the two chains meet.                                              *)
(*                                                                         *)
(* enc[1 .. Chunks] are the workers, enc[0] is the repair of a seam.       *)
(***************************************************************************)
EXTENDS EncodeRange, SequencesExt

CONSTANT Cases   \* the inputs considered, each with its chunk length

ASSUME CasesAssumption ==
  \A c \in Cases :
    /\ c.data \in Seq(Byte) /\ c.data # <<>>
    /\ c.chunk \in Nat \ {0}

CaseInputs == {c.data : c \in Cases}

VARIABLES
  chunk,    \* the chunk length
  phase,    \* where the main thread is: "encode", "splice", "repair", "done"
  part,     \* the part the main thread looks at
  out,      \* the output so far
  cursor    \* the position the output accounts for

vars == <<data, enc, chunk, phase, part, out, cursor>>

Chunks(d, c) == (Len(d) + c - 1) \div c

\* The call of worker i: from the start of its chunk to the start of the next
\* one, recording splice points where its output may have to be joined.
Worker(d, c, i) ==
  LET start == (i - 1) * c
      stop  == IF i = Chunks(d, c) THEN Len(d) ELSE i * c
  IN  Call(start, stop, {}, i > 1)

NoRepair == [Call(0, 0, {}, FALSE) EXCEPT !.running = FALSE]

Init ==
  \E c \in Cases :
    /\ data = c.data /\ chunk = c.chunk
    /\ enc = [i \in 0..Chunks(c.data, c.chunk) |->
                IF i = 0 THEN NoRepair ELSE Worker(c.data, c.chunk, i)]
    /\ phase = "encode" /\ part = 1 /\ out = <<>> /\ cursor = 0

Parts == Chunks(data, chunk)

\* A thread of the scope takes an iteration.
WorkerStep(i) ==
  /\ EncodeStep(i)
  /\ UNCHANGED <<chunk, phase, part, out, cursor>>

\* All threads of the scope are joined; the first part is taken whole.
JoinWorkers ==
  /\ phase = "encode"
  /\ \A i \in 1..Parts : ~enc[i].running
  /\ phase' = "splice" /\ part' = 2
  /\ out' = enc[1].out /\ cursor' = enc[1].pos
  /\ UNCHANGED <<data, enc, chunk>>

\* The offset in e's output at which position pos can be joined.
IsPoint(e, pos) == \E k \in 1..Len(e.points) : e.points[k].pos = pos
PointOffset_OffByOne(e, pos) ==
  e.points[CHOOSE k \in 1..Len(e.points) : e.points[k].pos = pos].w + 1
PointOffset(e, pos) ==
  e.points[CHOOSE k \in 1..Len(e.points) : e.points[k].pos = pos].w

\* What part e adds to an output that ends at pos, and where that leads.
Joined(e, pos) ==
  IF IsPoint(e, pos) THEN SubSeq(e.out, PointOffset(e, pos) + 1, Len(e.out)) ELSE <<>>
JoinedEnd_NotMoved(e, pos) == pos
JoinedEnd(e, pos) == IF IsPoint(e, pos) THEN e.pos ELSE pos

\* The output already runs past this whole part.
SkipPart ==
  /\ phase = "splice" /\ part <= Parts
  /\ cursor >= enc[part].pos
  /\ part' = part + 1
  /\ UNCHANGED <<data, enc, chunk, phase, out, cursor>>

\* The output ends at a splice point of this part.
SplicePart_Early ==
  /\ phase = "splice" /\ part <= Parts
  /\ IsPoint(enc[part], cursor) \/ enc[part].start <= cursor
  /\ out' = out \o enc[part].out
  /\ cursor' = enc[part].pos
  /\ part' = part + 1
  /\ UNCHANGED <<data, enc, chunk, phase>>
SplicePart ==
  /\ phase = "splice" /\ part <= Parts
  /\ cursor < enc[part].pos
  /\ IsPoint(enc[part], cursor)
  /\ out' = out \o Joined(enc[part], cursor)
  /\ cursor' = JoinedEnd(enc[part], cursor)
  /\ part' = part + 1
  /\ UNCHANGED <<data, enc, chunk, phase>>

\* It does not: the seam is encoded again, towards the part's points.
StartRepair ==
  /\ phase = "splice" /\ part <= Parts
  /\ cursor < enc[part].pos
  /\ ~IsPoint(enc[part], cursor)
  /\ LET meet == {enc[part].points[k].pos : k \in 1..Len(enc[part].points)}
     IN  enc' = [enc EXCEPT ![0] = Call(cursor, enc[part].pos, meet, FALSE)]
  /\ phase' = "repair"
  /\ UNCHANGED <<data, chunk, part, out, cursor>>

RepairStep ==
  /\ phase = "repair"
  /\ EncodeStep(0)
  /\ UNCHANGED <<chunk, phase, part, out, cursor>>

\* The repair has returned: its output, and the rest of the part if they met.
EndRepair ==
  /\ phase = "repair" /\ ~enc[0].running
  /\ LET end == enc[0].pos
     IN  /\ out' = out \o enc[0].out \o Joined(enc[part], end)
         /\ cursor' = JoinedEnd(enc[part], end)
  /\ part' = part + 1 /\ phase' = "splice"
  /\ UNCHANGED <<data, enc, chunk>>

\* Every part has been looked at.  (The code would encode what is left of the
\* input here; NothingLeft says that nothing ever is.)
Finish ==
  /\ phase = "splice" /\ part > Parts
  /\ phase' = "done"
  /\ UNCHANGED <<data, enc, chunk, part, out, cursor>>

Main == JoinWorkers \/ SkipPart \/ SplicePart \/ StartRepair \/ EndRepair \/ Finish

Next ==
  \/ \E i \in 1..Parts : WorkerStep(i)
  \/ RepairStep
  \/ Main

Spec == Init /\ [][Next]_vars

Threads == UNION {1..Chunks(c.data, c.chunk) : c \in Cases}

\* The scope runs every thread to its end before it is left, and the main
\* thread has no step it could wait at for ever.
FairSpec ==
  /\ Spec
  /\ \A i \in Threads : WF_vars(i <= Parts /\ WorkerStep(i))
  /\ WF_vars(RepairStep) /\ WF_vars(Main)

-----------------------------------------------------------------------------
\* Type invariant.
TypeOK ==
  /\ data \in Seq(Byte) /\ chunk \in Nat \ {0}
  /\ phase \in {"encode", "splice", "repair", "done"}
  /\ part \in 1..(Parts + 1)
  /\ DOMAIN enc = 0..Parts
  /\ cursor \in 0..Len(data)
  /\ \A i \in 0..Parts :
       /\ enc[i].pos \in enc[i].start..Len(data)
       /\ \A k \in 1..Len(enc[i].points) :
            enc[i].points[k] \in [pos : enc[i].start..enc[i].pos, w : 0..Len(enc[i].out)]

\* What is spliced together is at every step the canonical encoding of the
\* input up to the cursor, whatever the chunking and wherever the seams fall.
SplicedCanonical == Canon(data, 0, out, cursor)

\* The result is the canonical encoding of the whole input, and nothing is
\* left for the encode that would follow the last part.
NothingLeft == part > Parts /\ phase # "encode" => cursor = Len(data)

\* A worker that stops short of the end of the input leaves no partial group
\* behind: only the last construct of the input can be shorter than a group.
OnlyLastGroupPartial ==
  \A i \in 0..Parts : \A k \in 1..Len(enc[i].out) :
    LET u == enc[i].out[k]
    IN  u.kind = "block" /\ u.len < 4 => u.at + u.len = Len(data)

\* Main-thread steps never take output back: it implements the abstract stream.
Stream == INSTANCE CanonicalStream
            WITH Inputs <- CaseInputs, emitted <- out
StreamSpec == Stream!Spec

\* The parallel encoder returns, with the whole input encoded.
EventuallyDone == <>(phase = "done" /\ cursor = Len(data))
=============================================================================
