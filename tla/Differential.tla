---------------------------- MODULE Differential ----------------------------
(***************************************************************************)
(* The decoders on the same bytes.  First the C one and the Rust one       *)
(* behind the same C interface: the decoding half of                       *)
(* c/fuzz/fuzz_differential.c, with the entry point of rust/src/ffi.rs.    *)
(* That one makes each byte of its input the character of the same value,  *)
(* so a byte from 0x80 up, one character for both decoders' verdicts,      *)
(* takes two bytes in what the fast tier of the Rust decoder scans.  The   *)
(* caller is handed a copy of what is decoded.  What the Go and TypeScript *)
(* decoders (PortDecode) answer is compared with theirs.                   *)
(***************************************************************************)
EXTENDS Decode, PortDecode

VARIABLES
  cLegal, cPhase, cIn, cPos, cBuf, cCap, cRoom, cCache, cStatus, cHeap, cResult,
  rStatus,  \* what the Rust entry point returned, or Pending
  rHeap,    \* the blocks it allocated and has not freed
  rResult   \* its caller's out-parameters

rVars == <<rStatus, rHeap, rResult>>

cVars == <<cLegal, cPhase, cIn, cPos, cBuf, cCap, cRoom, cCache, cStatus, cHeap, cResult>>

C == INSTANCE CDecode WITH
       Streams <- Seq(Char), legal <- cLegal, phase <- cPhase, in <- cIn, pos <- cPos,
       buf <- cBuf, cap <- cCap, room <- cRoom, cache <- cCache, status <- cStatus, heap <- cHeap,
       result <- cResult

Pending == "Pending"

DifferentialInit ==
  Init /\ C!Init /\ rStatus = Pending /\ rHeap = {} /\ rResult = C!Unset

\* The status of an error of the Rust decoder.
StatusOf(kind) ==
  CASE kind = "InvalidCharacter"      -> "INVALID_CHAR"
    [] kind = "UnexpectedEndOfStream" -> "UNEXPECTED_EOF"
    [] kind = "UndefinedSignal"       -> "UNDEFINED_SIGNAL"
    [] kind = "InvalidFinalBlock"     -> "INVALID_FINAL_BLOCK"
    [] kind = "Disagreement"          -> "UNEXPECTED_EOF"
    [] kind = "OK"                    -> "OK"

CDecodes ==
  /\ C!Next
  /\ UNCHANGED <<sent, tier, src, pos, out, w, table, read, verdict, rVars>>

RustRefuses ==
  /\ C!Returned /\ rStatus = Pending /\ ~cLegal
  /\ rStatus' = "INVALID_ARGUMENT"
  /\ UNCHANGED <<vars, cVars, rHeap, rResult>>

RustDecodes == C!Returned /\ cLegal /\ Next /\ UNCHANGED <<cVars, rVars>>

\* The decoded bytes are copied to a block the caller can free, if there is one
\* to be had.
RustReturns_SetFirst ==
  /\ C!Returned /\ Answered /\ rStatus = Pending
  /\ \/ /\ tier = "ok" /\ rStatus' = "OK"
        /\ rHeap' = {"out"} /\ rResult' = [set |-> TRUE, data |-> Data]
     \/ /\ tier = "ok" /\ rStatus' = "ALLOC"
        /\ rResult' = [set |-> TRUE, data |-> Data] /\ UNCHANGED rHeap
     \/ tier # "ok" /\ rStatus' = StatusOf(verdict.kind) /\ UNCHANGED <<rHeap, rResult>>
  /\ UNCHANGED <<vars, cVars>>
RustReturns ==
  /\ C!Returned /\ Answered /\ rStatus = Pending
  /\ \/ /\ tier = "ok" /\ rStatus' = "OK"
        /\ rHeap' = {"out"} /\ rResult' = [set |-> TRUE, data |-> Data]
     \/ tier = "ok" /\ rStatus' = "ALLOC" /\ UNCHANGED <<rHeap, rResult>>
     \/ tier # "ok" /\ rStatus' = StatusOf(verdict.kind) /\ UNCHANGED <<rHeap, rResult>>
  /\ UNCHANGED <<vars, cVars>>

\* What decode of the Python module makes of the same bytes, which it turns into
\* characters in the same way: the data, or an exception with a position where
\* the error has one.
PyAnswer ==
  CASE tier = "ok" -> [code |-> "OK", data |-> Data]
    [] verdict.kind = "InvalidCharacter" ->
         [code |-> verdict.kind, position |-> verdict.position]
    [] OTHER -> [code |-> verdict.kind]

DifferentialNext == CDecodes \/ RustRefuses \/ RustDecodes \/ RustReturns

DifferentialSpec == DifferentialInit /\ [][DifferentialNext]_<<vars, cVars, rVars>>

-----------------------------------------------------------------------------
\* The byte of the caller's text, counted from 0, that comes after this many
\* bytes other than white space.
ByteAfter(kept) ==
  CHOOSE i \in 0..(Len(text) - 1) :
    /\ text[i + 1] \notin Whitespace
    /\ Cardinality({j \in 1..i : text[j] \notin Whitespace}) = kept

\* No implementation is ahead of another in what it accepts: on the same bytes C
\* and Rust return the same status, the same data with OK and nothing without,
\* unless one of them ran out of memory; Go and TypeScript give the same data or
\* the error of that status, at the same offset; and Python gives that of Rust,
\* an invalid character at the byte of its argument that the offset of Go means.
VerdictsAgree ==
  rStatus # Pending /\ "ALLOC" \notin {cStatus, rStatus} =>
    /\ cStatus = rStatus /\ cResult = rResult /\ cHeap = rHeap
    /\ cLegal => LET go == GoDecode(text)
                 IN  /\ StatusOf(go.kind) = cStatus /\ PyAnswer.code = go.kind
                     /\ go.kind = "OK" => {go.data, PyAnswer.data} = {cResult.data}
                     /\ go.kind = "InvalidCharacter" =>
                          PyAnswer.position = ByteAfter(go.offset)
                     /\ TsDecode(text) = go

\* What a C caller has in hand: with OK all that the text stands for, in one block
\* to free; with any other status no block, and out-parameters as they were.
Handed(status, heap, result) ==
  \/ /\ status = "OK" /\ cLegal /\ GoDecode(text).kind = "OK"
     /\ heap = {"out"} /\ result = [set |-> TRUE, data |-> GoDecode(text).data]
  \/ status # "OK" /\ heap = {} /\ result = C!Unset

\* Whichever allocations fail, at the start of the C decoder, between its scans or
\* behind the decoded bytes in Rust, either entry point hands out the whole of what the
\* text stands for or nothing.  Rust, which asks for memory last, fails for
\* want of it only where it has something to hand out.
WholeOrUntouched ==
  /\ C!Returned => Handed(cStatus, cHeap, cResult)
  /\ rStatus # Pending => Handed(rStatus, rHeap, rResult)
  /\ rStatus = "ALLOC" => cLegal /\ GoDecode(text).kind = "OK"
=============================================================================
