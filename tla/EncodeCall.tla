----------------------------- MODULE EncodeCall -----------------------------
(***************************************************************************)
(* One call of encode_range on its own: the sequential encoder when it     *)
(* covers the whole input, a worker or a seam repair of the parallel one   *)
(* when it does not.                                                       *)
(***************************************************************************)
EXTENDS EncodeRange, SequencesExt

CONSTANT Cases   \* the calls considered: an input, the bounds of the call and
                 \* the positions another encoder offers to meet it at

ASSUME CasesAssumption ==
  \A c \in Cases :
    /\ c.data \in Seq(Byte)
    /\ c.start \in 0..Len(c.data) /\ c.stop \in c.start..Len(c.data)
    /\ c.meet \subseteq 0..Len(c.data)

CaseInputs == {c.data : c \in Cases}

vars == <<data, enc>>

call == enc[1]

Init ==
  \E c \in Cases :
    /\ data = c.data
    /\ enc = [r \in {1} |-> Call(c.start, c.stop, c.meet, TRUE)]

Next == EncodeStep(1)

Spec == Init /\ [][Next]_vars

-----------------------------------------------------------------------------
\* Type invariant of a frame: positions stay in the input and in order.
TypeOK ==
  /\ data \in Seq(Byte)
  /\ call.pos \in call.start..Len(data)
  /\ call.block_start \in {NoBlock} \cup (call.start..call.pos)
  /\ \A k \in 1..Len(call.out) :
       call.out[k].at >= call.start /\ call.out[k].len \in 1..(call.pos - call.out[k].at)
  /\ \A k \in 1..Len(call.points) :
       call.points[k] \in [pos : call.start..call.pos, w : 0..Len(call.out)]
  /\ call.running \in BOOLEAN

\* What the call has produced is at every step the canonical encoding of what
\* it has consumed: neither the gates before the passthrough scan nor the skip
\* over block-mode groups passes a position at which another construct begins.
EmittedCanonical == Canon(data, call.start, Flushed(data, call), call.pos)

\* A splice point is self-contained: what the call produced for its position
\* begins exactly at its offset in the output, so everything from that offset
\* on is what an encoder that started there would have produced.  The points
\* are ascending, which is what the binary search for one rests on.
PointsSelfContained ==
  \A k \in 1..Len(call.points) :
    LET p == call.points[k]
    IN  /\ p.pos = (IF p.w = Len(call.out) THEN OutEnd(call) ELSE call.out[p.w + 1].at)
        /\ k > 1 => call.points[k - 1].pos < p.pos

\* A call takes no construct at or past its bound: a worker's work, the skip
\* included, ends with the construct that crosses into the next chunk.
NeverStartsPastStop ==
  \A k \in 1..Len(Flushed(data, call)) : Flushed(data, call)[k].at < call.stop

\* The format's document says of the variants of Fill (spec section 6.5): "Two
\* candidates can only tie when the length fields of both saturate".
TiesOnlyWhenSaturated ==
  call.pos < Len(data) =>
    LET covers == <<SolidCovers(data, call.pos), ZerosFirstCovers(data, call.pos),
                    LiteralsFirstCovers(data, call.pos)>>
        most   == <<MaxFill, MaxTailZeros + 2, MaxTailZeros + 2>>
    IN  \A j, k \in 1..3 :
          /\ j < k /\ covers[j] = covers[k]
          /\ covers[j] > 0 /\ covers[j] = FillCovers(data, call.pos)
          => covers[j] = most[j] /\ covers[k] = most[k]

\* What block mode spends on len bytes, in whole groups.
BlockChars(len) == ((len + 3) \div 4) * 5

\* The comment on MIN_PASSTHROUGH_BYTES calls it the smallest L at which 5 + L
\* is never more than ceil(L / 4) * 5; so where a candidate is left to block
\* mode for being shorter, some candidate at least as long must cost more.
BlockOnlyWherePassthroughMayCostMore ==
  \A k \in 1..Len(call.out) :
    LET u == call.out[k]
    IN  u.kind = "block" /\ DpLen(data, u.at) > 0 =>
          \E len \in DpLen(data, u.at)..MaxDpSegment : 5 + len > BlockChars(len)

\* The call implements the abstract stream: its output, the pending run
\* included, only grows and only by canonical constructs.
Stream == INSTANCE CanonicalStream
            WITH Inputs  <- CaseInputs,
                 emitted <- Flushed(data, call),
                 cursor  <- call.pos
StreamSpec == Stream!Spec
=============================================================================
