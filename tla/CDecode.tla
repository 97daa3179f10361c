------------------------------ MODULE CDecode -------------------------------
(***************************************************************************)
(* The C decoder (c/src/base85n.c, base85n_decode and decode_scan).  One   *)
(* loop reads construct after construct and answers with a status.  It     *)
(* tests the buffer at the two Fill signals only, everywhere else relying  *)
(* on there being at least as much room in the buffer as input to read.    *)
(* A text that is rejected and has white space in it is scanned a second   *)
(* time without it.                                                        *)
(*                                                                         *)
(* The input is bytes, a character of the text being one; any allocation   *)
(* may fail.                                                               *)
(***************************************************************************)
EXTENDS Wire

CONSTANT Streams   \* the texts decoded

ASSUME StreamsAssumption == \A t \in Streams : t \in Seq(Char)

VARIABLES
  text,    \* s, the text to decode
  legal,   \* whether the caller's pointers are
  phase,   \* "call", "scan", "rescan", "scanned", "rescanned" or "returned"
  in,      \* the bytes being scanned
  pos,     \* how many of them are read
  buf,     \* the bytes written to the output buffer
  cap,     \* the buffer's size as the scan knows it
  room,    \* the buffer's size
  cache,   \* the last segment's substitution, with its profile and mask
  status,  \* what the last scan, or the call, returned
  heap,    \* the blocks allocated and not freed
  result   \* the caller's out-parameters: Unset, or the bytes they name

vars == <<text, legal, phase, in, pos, buf, cap, room, cache, status, heap, result>>

NoKey == [key |-> <<>>, map |-> <<>>]
Unset == [set |-> FALSE]

Init ==
  /\ text \in Streams /\ legal \in BOOLEAN
  /\ phase = "call" /\ in = text /\ pos = 0
  /\ buf = <<>> /\ cap = 0 /\ room = 0 /\ cache = NoKey
  /\ status = "OK" /\ heap = {} /\ result = Unset

-----------------------------------------------------------------------------
(* The call up to the first scan.                                          *)

RefuseArguments ==
  /\ phase = "call" /\ ~legal
  /\ phase' = "returned" /\ status' = "INVALID_ARGUMENT"
  /\ UNCHANGED <<text, legal, in, pos, buf, cap, room, cache, heap, result>>

AllocateOutput ==
  /\ phase = "call" /\ legal
  /\ \/ /\ phase' = "scan" /\ heap' = {"out"}
        /\ cap' = Larger(Len(text), 1) /\ room' = cap'
        /\ UNCHANGED status
     \/ /\ phase' = "returned" /\ status' = "ALLOC"
        /\ UNCHANGED <<heap, cap, room>>
  /\ UNCHANGED <<text, legal, in, pos, buf, cache, result>>

-----------------------------------------------------------------------------
(* The scan.                                                               *)

Scanning == phase \in {"scan", "rescan"}
Remaining == Len(in) - pos
w == Len(buf)

\* A scan's return.
Return(answer) ==
  /\ phase' = IF phase = "scan" THEN "scanned" ELSE "rescanned"
  /\ status' = answer
  /\ UNCHANGED <<text, legal, in, pos, buf, cap, room, cache, heap, result>>

Step(length) ==
  /\ pos' = pos + length
  /\ UNCHANGED <<text, legal, phase, in, status, heap, result>>

\* Bytes the room invariant covers.
Write(bytes, length) ==
  /\ buf' = buf \o bytes
  /\ Step(length)
  /\ UNCHANGED <<cap, room>>

\* Bytes of a Fill signal, for which there is room, or grow_output makes some,
\* or the call is out of memory.
Need_FillOnly(bytes) == Len(bytes)
Need(bytes) == Len(bytes) + (Remaining - 5)
Grown(need) == LET want == w + need IN want + want \div 4
WriteFill(bytes) ==
  \/ /\ Need(bytes) <= cap - w
     /\ Write(bytes, 5)
     /\ UNCHANGED cache
  \/ /\ Need(bytes) > cap - w
     /\ cap' = Grown(Need(bytes)) /\ room' = cap'
     /\ buf' = buf \o bytes
     /\ Step(5)
     /\ UNCHANGED cache
  \/ /\ Need(bytes) > cap - w
     /\ Return("ALLOC")

Group == SubSeq(in, pos + 1, pos + 5)
GroupHere == Scanning /\ Remaining >= 5
AllDigits(chars) == \A i \in 1..Len(chars) : ValueOf(chars[i]) # NoValue
GroupValue == WeighDigits(Values(Group))
Signals(first, end) == GroupHere /\ AllDigits(Group) /\ GroupValue \in first..(end - 1)

RejectGroup ==
  /\ GroupHere /\ ~AllDigits(Group)
  /\ Return("INVALID_CHAR")

ReadBlock ==
  /\ Signals(0, DpSignalBase)
  /\ Write(ValueToBytes(GroupValue), 5)
  /\ UNCHANGED cache

RejectSignal ==
  /\ Signals(FutureSignalBase, Base_5)
  /\ Return("UNDEFINED_SIGNAL")

ReadTail ==
  /\ Signals(TailSignalBase, FutureSignalBase)
  /\ LET tail  == SplitTail(GroupValue - TailSignalBase)
         zeros == [i \in 1..tail.zeros |-> 0]
     IN  WriteFill(IF tail.order = 1 THEN tail.lit \o zeros ELSE zeros \o tail.lit)

ReadFill ==
  /\ Signals(FillSignalBase, TailSignalBase)
  /\ LET fill == SplitFill(GroupValue - FillSignalBase)
     IN  WriteFill([i \in 1..fill.len |-> fill.byte])

\* The segment a signal here announces, and its characters.
SegmentHere == Signals(DpSignalBase, FillSignalBase)
Segment == SplitDp(GroupValue - DpSignalBase)
SegmentChars == SubSeq(in, pos + 6, pos + 5 + Segment.len)
SegmentCut == Remaining - 5 < Segment.len

RejectCutSegment ==
  /\ SegmentHere /\ SegmentCut
  /\ Return("UNEXPECTED_EOF")

RejectSegment ==
  /\ SegmentHere /\ ~SegmentCut /\ ~AllDigits(SegmentChars)
  /\ Return("INVALID_CHAR")

ReadSegment ==
  /\ SegmentHere /\ ~SegmentCut /\ AllDigits(SegmentChars)
  /\ cache' = IF cache.key = <<Segment.profile, Segment.mask>> THEN cache
              ELSE [key |-> <<Segment.profile, Segment.mask>>,
                    map |-> DpTable(Segment.profile, Segment.mask)]
  /\ Write([j \in 1..Segment.len |-> cache'.map[SegmentChars[j]]], 5 + Segment.len)

\* The group that ends the stream.
FinalHere == Scanning /\ Remaining \in 1..4
Final == SubSeq(in, pos + 1, Len(in))

RejectFinal_LengthFirst ==
  /\ FinalHere
  /\ \/ Remaining = 1 /\ Return("INVALID_FINAL_BLOCK")
     \/ Remaining # 1 /\ ~AllDigits(Final) /\ Return("INVALID_CHAR")
     \/ /\ Remaining # 1 /\ AllDigits(Final) /\ ~TailAccepted(Values(Final))
        /\ Return("INVALID_FINAL_BLOCK")
RejectFinal ==
  /\ FinalHere
  /\ \/ ~AllDigits(Final) /\ Return("INVALID_CHAR")
     \/ /\ AllDigits(Final) /\ (Remaining = 1 \/ ~TailAccepted(Values(Final)))
        /\ Return("INVALID_FINAL_BLOCK")

ReadFinal_GroupOfFive ==
  /\ FinalHere /\ Remaining # 1 /\ AllDigits(Final) /\ TailAccepted(Values(Final))
  /\ Write(TailBytes(Values(Final)), 5)
  /\ UNCHANGED cache
ReadFinal ==
  /\ FinalHere /\ Remaining # 1 /\ AllDigits(Final) /\ TailAccepted(Values(Final))
  /\ Write(TailBytes(Values(Final)), Remaining)
  /\ UNCHANGED cache

Finish ==
  /\ Scanning /\ Remaining = 0
  /\ Return("OK")

Scan ==
  \/ RejectGroup \/ ReadBlock \/ RejectSignal \/ ReadTail \/ ReadFill
  \/ RejectCutSegment \/ RejectSegment \/ ReadSegment
  \/ RejectFinal \/ ReadFinal \/ Finish

-----------------------------------------------------------------------------
(* The call after a scan.                                                  *)

HasWhitespace == \E i \in 1..Len(text) : text[i] \in Whitespace

Rescans_EveryTime == phase \in {"scanned", "rescanned"} /\ status # "OK" /\ HasWhitespace
Rescans == phase = "scanned" /\ status # "OK" /\ HasWhitespace

\* The text without its white space, scanned into the same buffer, whose size
\* is still taken to be what it was for the first scan.
Rescan ==
  /\ Rescans
  /\ \/ /\ phase' = "rescan" /\ heap' = {"out", "filtered"}
        /\ in' = WithoutSpace(text)
        /\ pos' = 0 /\ buf' = <<>> /\ cache' = NoKey
        /\ cap' = Larger(Len(text), 1)
        /\ UNCHANGED status
     \/ /\ phase' = "returned" /\ heap' = {} /\ status' = "ALLOC"
        /\ UNCHANGED <<in, pos, buf, cache, cap>>
  /\ UNCHANGED <<text, legal, room, result>>

Released_OutOnly == heap' = heap \ {"out"}
Released == heap' = {}

\* The verdict, once no scan is left to do; the filtered copy is freed.
Fail ==
  /\ \/ phase = "scanned" /\ status # "OK" /\ ~HasWhitespace
     \/ phase = "rescanned" /\ status # "OK"
  /\ phase' = "returned"
  /\ Released
  /\ UNCHANGED <<text, legal, in, pos, buf, cap, room, cache, status, result>>

\* The buffer trimmed to what was written, if realloc does.
Succeed ==
  /\ phase \in {"scanned", "rescanned"} /\ status = "OK"
  /\ phase' = "returned" /\ heap' = {"out"}
  /\ room' \in {room, Larger(w, 1)}
  /\ result' = [set |-> TRUE, data |-> buf]
  /\ UNCHANGED <<text, legal, in, pos, buf, cap, cache, status>>

Next ==
  RefuseArguments \/ AllocateOutput \/ Scan \/ Rescan \/ Fail \/ Succeed

Spec == Init /\ [][Next]_vars

\* A call waits for nothing.
FairSpec == Spec /\ WF_vars(Next)

-----------------------------------------------------------------------------
Returned == phase = "returned"

\* Type invariant.
TypeOK ==
  /\ text \in Seq(Char) /\ legal \in BOOLEAN
  /\ phase \in {"call", "scan", "rescan", "scanned", "rescanned", "returned"}
  /\ in \in Seq(Char) /\ pos \in 0..Len(in)
  /\ buf \in Seq(Byte) /\ cap \in Nat /\ room \in Nat
  /\ heap \subseteq {"out", "filtered"}

\* The loop's invariant: there is room for as many bytes as there are characters
\* left, in the buffer as the scan knows it, which is no larger than it is; so
\* nothing is written past its end, though only the Fill signals look.
RoomLeft ==
  /\ Scanning => cap <= room /\ Remaining <= cap - w
  /\ w <= room

\* A call leaves no block behind but the one it hands to its caller, which it
\* does when and only when it succeeds, whichever allocation fails and however
\* often the text was scanned.
NothingLeaks ==
  Returned => /\ heap = IF status = "OK" THEN {"out"} ELSE {}
              /\ result.set <=> status = "OK"

\* Every call returns: a rejected text is scanned a second time at most, and no
\* iteration of the loop leaves it where it was.
EventuallyReturned == <>Returned
=============================================================================
