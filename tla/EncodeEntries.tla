--------------------------- MODULE EncodeEntries ----------------------------
(***************************************************************************)
(* The ways into an encoder from each language: base85n_encode of the C    *)
(* implementation (CEncode), the function of the same interface that the   *)
(* Rust crate exports (rust/src/ffi.rs), encode of the Python module       *)
(* (python/src/lib.rs), which lets other Python threads run, and change    *)
(* the caller's bytearray, while the crate encodes on its own threads, and *)
(* the encoders written in Go and TypeScript (PortEncode).                 *)
(*                                                                         *)
(* What the crate's encode and encode_parallel return is the canonical     *)
(* encoding of their input: EncodeCall and ParallelEncode.                 *)
(***************************************************************************)
EXTENDS CEncode, PortEncode

CONSTANTS
  Objects,           \* what Python code passes: a type and its bytes
  Threads,           \* the values of threads it passes
  Cores,             \* available_parallelism
  MinParallelChunk   \* MIN_PARALLEL_CHUNK (2^20)

ASSUME EntriesAssumption ==
  /\ \A o \in Objects : o.type \in {"bytes", "bytearray", "list"} /\ o.bytes \in Seq(Byte)
  /\ Threads \subseteq Nat /\ Cores \in Nat \ {0} /\ MinParallelChunk \in Nat \ {0}

VARIABLES
  entry,     \* the function called: "c", "rust", "python" or "port"
  string,    \* the String the crate returned: its units, or NoString
  object,    \* Python's argument
  given,     \* the bytes encode was called with, by Python, Go or TypeScript
  threads,   \* how many threads the call may use
  copy,      \* the call's own bytes, <<>> until it has them
  workers,   \* how many threads it encodes on, 0 until it does
  stage,     \* "call", "detached", "encoded", "raised" or "returned"
  answer     \* the units of the string returned, or NoString

rustVars == <<entry, string>>
pyVars == <<object, given, threads, copy, workers, stage, answer>>
entryVars == <<vars, rustVars, pyVars>>

NoString == <<[kind |-> "none"]>>

EntriesInit ==
  /\ Init
  /\ entry \in {"c", "rust", "python", "port"} /\ string = NoString
  /\ entry = "python" => data = <<>>
  /\ entry \in {"python", "port"} => legal
  /\ object \in Objects /\ threads \in Threads
  /\ given = IF entry = "port" THEN data ELSE object.bytes
  /\ entry # "python" => object = CHOOSE o \in Objects : TRUE
  /\ entry # "python" => threads = CHOOSE t \in Threads : TRUE
  /\ copy = <<>> /\ workers = 0 /\ stage = "call" /\ answer = NoString

CEncodes == entry = "c" /\ Next /\ UNCHANGED <<rustVars, pyVars>>

-----------------------------------------------------------------------------
(* The function the Rust crate exports.                                    *)

RustRefuses == entry = "rust" /\ RefuseArguments /\ UNCHANGED <<rustVars, pyVars>>

RustEncodes ==
  /\ entry = "rust" /\ phase = "call" /\ legal /\ string = NoString
  /\ string' = Encoding(data)
  /\ UNCHANGED <<vars, entry, pyVars>>

\* A copy of the string, with a NUL, in a block the caller can free.
Copied(units) == heap' = {"out"} /\ w' = CharsOf(units) /\ cap' = w' + 1

\* The string is copied, if there is room for it, and dropped.
RustReturns_SetFirst ==
  /\ entry = "rust" /\ phase = "call" /\ string # NoString
  /\ phase' = "returned" /\ string' = NoString
  /\ result' = [set |-> TRUE, units |-> string, len |-> CharsOf(string)]
  /\ \/ Copied(string) /\ UNCHANGED status
     \/ status' = "ALLOC" /\ UNCHANGED <<heap, w, cap>>
  /\ UNCHANGED <<data, enc, legal, entry, pyVars>>
RustReturns ==
  /\ entry = "rust" /\ phase = "call" /\ string # NoString
  /\ phase' = "returned" /\ string' = NoString
  /\ \/ /\ Copied(string)
        /\ result' = [set |-> TRUE, units |-> string, len |-> w']
        /\ UNCHANGED status
     \/ status' = "ALLOC" /\ UNCHANGED <<heap, w, cap, result>>
  /\ UNCHANGED <<data, enc, legal, entry, pyVars>>

-----------------------------------------------------------------------------
(* The Python function.                                                    *)

PyRefuses ==
  /\ entry = "python" /\ stage = "call"
  /\ object.type \notin {"bytes", "bytearray"}
  /\ stage' = "raised"
  /\ UNCHANGED <<vars, rustVars, object, given, threads, copy, workers, answer>>

\* encode_parallel's choice: how long a chunk is, and how many there are of it.
ChunkFor(n, t) == Larger(n \div t, MinParallelChunk)
WorkersFor(n, t) ==
  IF t = 1 \/ n < 2 * MinParallelChunk THEN 1
  ELSE (n + ChunkFor(n, t) - 1) \div ChunkFor(n, t)

\* The argument's bytes are copied while the interpreter's lock is held; then
\* it is released and the crate starts its threads.
PyCopies ==
  /\ entry = "python" /\ stage = "call"
  /\ object.type \in {"bytes", "bytearray"}
  /\ copy' = object.bytes
  /\ threads' = IF threads = 0 THEN Cores ELSE threads
  /\ workers' = WorkersFor(Len(copy'), threads')
  /\ stage' = "detached"
  /\ UNCHANGED <<vars, rustVars, object, given, answer>>

PyEncodes_InPlace ==
  /\ stage = "detached"
  /\ string' = Encoding(object.bytes) /\ stage' = "encoded"
  /\ UNCHANGED <<vars, entry, object, given, threads, copy, workers, answer>>
PyEncodes ==
  /\ stage = "detached"
  /\ string' = Encoding(copy) /\ stage' = "encoded"
  /\ UNCHANGED <<vars, entry, object, given, threads, copy, workers, answer>>

\* The lock is taken again and the str made.
PyReturns ==
  /\ stage = "encoded"
  /\ answer' = string /\ string' = NoString /\ stage' = "returned"
  /\ UNCHANGED <<vars, entry, object, given, threads, copy, workers>>

\* Any other thread, whenever the lock is free, sets a byte of the bytearray or
\* takes its last byte away.
OtherThread ==
  /\ stage \in {"detached", "encoded"} /\ object.type = "bytearray"
  /\ object.bytes # <<>>
  /\ \/ \E b \in {Zero, object.bytes[1]} : 
          object' = [object EXCEPT !.bytes = [object.bytes EXCEPT ![Len(object.bytes)] = b]]
     \/ object' = [object EXCEPT !.bytes = Front(object.bytes)]
  /\ UNCHANGED <<vars, rustVars, given, threads, copy, workers, stage, answer>>

-----------------------------------------------------------------------------
(* The functions in Go and TypeScript: their loop, and the string it built. *)

PortEncodes ==
  /\ entry = "port" /\ PortStep(1)
  /\ IF call'.running THEN UNCHANGED <<stage, answer>>
     ELSE stage' = "returned" /\ answer' = call'.out
  /\ UNCHANGED <<legal, phase, cap, w, status, heap, result, rustVars>>
  /\ UNCHANGED <<object, given, threads, copy, workers>>

EntriesNext ==
  \/ CEncodes
  \/ RustRefuses \/ RustEncodes \/ RustReturns
  \/ PyRefuses \/ PyCopies \/ PyEncodes \/ PyReturns \/ OtherThread
  \/ PortEncodes

EntriesSpec == EntriesInit /\ [][EntriesNext]_entryVars

-----------------------------------------------------------------------------
\* What a caller in Python, Go or TypeScript gets is the canonical encoding of
\* the bytes it passed, as they were when it called: whatever other threads do to
\* a bytearray meanwhile, and wherever the ports' lookahead stops.
ArgumentEncoded ==
  stage = "returned" => Canon(given, 0, answer, Len(given))

\* The crate says of encode_parallel that it encodes "on up to threads threads"
\* (rust/src/encode.rs and rust/src/lib.rs).
UpToThreads == workers <= threads
=============================================================================
