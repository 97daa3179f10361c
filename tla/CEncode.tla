------------------------------ MODULE CEncode -------------------------------
(***************************************************************************)
(* The C encoder (encode_with, c/src/base85n.c): one call of the encoding  *)
(* loop over all of the input, into a buffer that is allocated once, tested *)
(* before each write and grown where it is too small.  Any allocation may  *)
(* fail, and sizes are those of a machine whose largest is SizeMax.        *)
(*                                                                         *)
(* The loop is that of EncodeRange, as a call that nobody meets and that   *)
(* has no bound short of the end; its characters are counted, not written. *)
(***************************************************************************)
EXTENDS EncodeRange, SequencesExt

CONSTANTS
  Inputs,    \* the inputs encoded
  SizeMax    \* SIZE_MAX

ASSUME InputsAssumption == Inputs \subseteq Seq(Byte)
ASSUME SizeAssumption == SizeMax \in Nat /\ SizeMax >= 64

VARIABLES
  legal,   \* whether the caller's pointers are
  phase,   \* "call", "encode" or "returned"
  cap,     \* the size of the output buffer
  w,       \* the characters written to it
  status,  \* what the call returns
  heap,    \* the blocks allocated and not freed
  result   \* the caller's out-parameters: Unset, or the string they name

vars == <<data, enc, legal, phase, cap, w, status, heap, result>>

call == enc[1]
Unset == [set |-> FALSE]
NoRoom == -1

Init ==
  /\ data \in Inputs /\ legal \in BOOLEAN
  /\ enc = [r \in {1} |-> Call(0, Len(data), {}, FALSE)]
  /\ phase = "call" /\ cap = 0 /\ w = 0
  /\ status = "OK" /\ heap = {} /\ result = Unset

Pending == IF call.block_start = NoBlock THEN 0 ELSE call.pos - call.block_start

\* What block mode spends on n pending bytes.
BlockModeChars_WholeGroups(n) == ((n + 3) \div 4) * 5
BlockModeChars(n) == (n \div 4) * 5 + (IF n % 4 = 0 THEN 0 ELSE (n % 4) + 1)

\* The size of the buffer at first.
EncodeCapacity_NoSlack(n) == (n + n \div 4) % (SizeMax + 1)
EncodeCapacity(n) == (n + n \div 4 + 16) % (SizeMax + 1)

\* The size of the buffer once it has room for need more characters and the
\* NUL, or NoRoom.
Grown(need) ==
  LET want == w + need + 1
  IN  IF want <= SizeMax - want \div 4 THEN want + want \div 4 ELSE SizeMax
Ensured(need) ==
  IF need + 1 <= cap - w THEN {cap}
  ELSE IF w + need + 1 > SizeMax THEN {NoRoom}
  ELSE {Grown(need), NoRoom}

\* Go on with room for need characters and write them, or give up, the buffer
\* freed.
WithRoom(need, step) ==
  /\ \E room \in Ensured(need) :
       IF room = NoRoom
       THEN /\ phase' = "returned" /\ status' = "ALLOC" /\ heap' = {}
            /\ UNCHANGED <<data, enc, cap, w>>
       ELSE /\ step
            /\ cap' = room /\ w' = w + need
            /\ UNCHANGED <<phase, status, heap>>
  /\ UNCHANGED <<legal, result>>

-----------------------------------------------------------------------------
RefuseArguments ==
  /\ phase = "call" /\ ~legal
  /\ phase' = "returned" /\ status' = "INVALID_ARGUMENT"
  /\ UNCHANGED <<data, enc, legal, cap, w, heap, result>>

TooLong(n) == n > (SizeMax - 16) \div 2

RefuseLength ==
  /\ phase = "call" /\ legal /\ TooLong(Len(data))
  /\ phase' = "returned" /\ status' = "ALLOC"
  /\ UNCHANGED <<data, enc, legal, cap, w, heap, result>>

AllocateOutput ==
  /\ phase = "call" /\ legal /\ ~TooLong(Len(data))
  /\ \/ phase' = "encode" /\ cap' = EncodeCapacity(Len(data)) /\ heap' = {"out"}
        /\ UNCHANGED status
     \/ phase' = "returned" /\ status' = "ALLOC" /\ UNCHANGED <<cap, heap>>
  /\ UNCHANGED <<data, enc, legal, w, result>>

\* The branches of the loop.
InLoop == phase = "encode" /\ call.running /\ ~Stops(data, call)
FillHere == FillCovers(data, call.pos) > 0
DpHere == ~FillHere /\ DpApplies(data, call.pos)

\* Steps 1 to 3: the pending run and the construct that ends it.
WriteFill ==
  /\ InLoop /\ FillHere
  /\ WithRoom(BlockModeChars(Pending) + 5, EmitFill(1))

WriteDp ==
  /\ InLoop /\ DpHere
  /\ WithRoom(BlockModeChars(Pending) + 5 + DpLen(data, call.pos), EmitDp(1))

\* Step 4: a group joins the pending run; nothing is written.
JoinBlock ==
  /\ InLoop /\ ~FillHere /\ ~DpHere
  /\ Advance(1, Taken(data, call))
  /\ UNCHANGED <<legal, phase, cap, w, status, heap, result>>

\* The end of the input: the run still pending, if one is.
LeaveLoop ==
  /\ phase = "encode" /\ call.running /\ Stops(data, call)
  /\ \/ call.block_start = NoBlock /\ Return(1)
        /\ UNCHANGED <<legal, phase, cap, w, status, heap, result>>
     \/ call.block_start # NoBlock /\ WithRoom(BlockModeChars(Pending), Return(1))

\* The string, ended by a NUL and trimmed to its length, if realloc does.
Finish ==
  /\ phase = "encode" /\ ~call.running
  /\ phase' = "returned"
  /\ cap' \in {cap, w + 1}
  /\ result' = [set |-> TRUE, units |-> call.out, len |-> w]
  /\ UNCHANGED <<data, enc, legal, w, status, heap>>

Next ==
  RefuseArguments \/ RefuseLength \/ AllocateOutput \/ WriteFill \/ WriteDp
  \/ JoinBlock \/ LeaveLoop \/ Finish

Spec == Init /\ [][Next]_vars

-----------------------------------------------------------------------------
\* Type invariant.
TypeOK ==
  /\ data \in Inputs /\ legal \in BOOLEAN
  /\ phase \in {"call", "encode", "returned"}
  /\ cap \in 0..SizeMax /\ w \in 0..cap
  /\ call.pos \in 0..Len(data) /\ call.block_start \in {NoBlock} \cup 0..call.pos
  /\ status \in {"OK", "INVALID_ARGUMENT", "ALLOC"}
  /\ heap \subseteq {"out"}

\* The buffer allocated at first has room for whatever the loop writes and for
\* the NUL after it, and its size does not wrap: no realloc is ever reached in
\* mid-encode, so none can fail there, though each write is ready for it.
NeverGrows ==
  phase = "encode" => /\ cap = Len(data) + Len(data) \div 4 + 16
                      /\ w + 1 <= cap

\* A call that returns OK hands over the canonical encoding of all of its
\* input, and one that does not leaves neither a block behind nor the caller's
\* out-parameters changed.
ReturnsWhole ==
  phase = "returned" =>
    IF status = "OK"
    THEN /\ heap = {"out"} /\ result.set /\ w + 1 <= cap
         /\ Canon(data, 0, result.units, Len(data))
    ELSE heap = {} /\ result = Unset

\* What it counted into the room it asked for, and reports as the length, is
\* the sum of what each construct is long by itself.
LengthWritten ==
  phase = "returned" /\ status = "OK" =>
    result.len = CharsOf(result.units)
=============================================================================
