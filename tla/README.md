# Base85N in TLA+

Base85N is a binary-to-text encoding. At every position of its input an encoder chooses one of three
constructs: a *Fill* signal (a run of one byte, or zeros with two literal bytes before or after them), a
*Dynamic Passthrough* segment (text written as itself, with a few characters swapped for others), or a
*block-mode* group (four bytes as five digits of base 85). The choice is canonical: every implementation must
write the same characters for the same input, and a decoder accepts them only in that form.

The rule itself is a page. What makes the program hard is that no implementation follows it position by
position: the encoders skip ahead in block mode, gate and prefilter the scans, keep tables between segments,
and the Rust one also encodes chunks in parallel and joins them where they meet; the decoder scans fast and
blind, retries without white space, and reconstructs afterwards what it should complain about. This directory
states the rule, models the code that departs from it, and checks and proves that it nevertheless obeys it.

All paths below are relative to `src/`.

## 1. The system

| Component | State | Operations | Module |
|---|---|---|---|
| Format rule (`rust/src/encode.rs`, `alphabet.rs`, `constants.rs`) | none | the construct at a position | `Base85N` |
| Block-mode skip (`next_decision_point`, `window_may_hold`, `decision_at`) | none | next position to look at | `Skip` |
| Encoding loop (`encode_range`) | position, pending block run, output, splice points, substitution cache | one iteration | `EncodeRange`, `EncodeCall` |
| Its output buffer (`encode_capacity`, `reserve`, `flush_block`) | cursor, length of the vector | write, grow | `RangeWriter` |
| Passthrough scan (`scan_dp`, `DpScan`) | mask, profile, lowest donor ranks, state one change ago | account for a byte or a run | `DpScan`, `DpLanes` |
| Rust SIMD paths (`rust/src/simd.rs`) | none | test eight groups, pass skippable bytes, translate a segment | `Skip`, `DpScan`, `DpLanes` |
| Parallel encoder (`parallel_with_chunk`) | the workers' calls, the spliced output, the cursor | worker step, join, splice, repair | `ParallelEncode` |
| Digits (`rust/src/digits.rs`) | none | values to digits and back, last group | `Digits` |
| Signals and characters (`constants.rs`, the `*_signal`, `split_*` functions) | none | write and read a construct | `Wire` |
| Rust decoder (`rust/src/decode.rs`) | tier, position, output buffer, table, verdict | scan, retry, report | `Decode` |
| Rust C ABI (`rust/src/ffi.rs`) | the caller's out-parameters, `malloc`ed copies | encode, decode | `EncodeEntries`, `Differential` |
| Python binding (`python/src/lib.rs`) | the argument, its copy, the interpreter's lock | encode, decode | `EncodeEntries`, `Differential` |
| C encoder (`c/src/base85n.c`) | output buffer, capacity, write position, blocks allocated | encode, grow | `CEncode` |
| C decoder (`c/src/base85n.c`) | output buffer, capacity, positions, blocks allocated | scan, grow, rescan, return | `CDecode` |
| Go (`go/base85n.go`), TypeScript (`typescript/src`) | local buffers | scan, encode, decode | `PortScan`, `PortEncode`, `PortDecode` |
| Differential fuzzer (`c/fuzz/fuzz_differential.c`) | both results | compare | `Differential`, `EncodeEntries` |
| Tools, benchmarks, site, packaging | - | - | not modelled |

How they interact. `encode` calls `encode_range` once over the whole input. `encode_parallel` runs one
`encode_range` per chunk, each on a thread of its own over the same read-only input, and joins their outputs on
the main thread; the only things that pass between threads are the finished output and the list of splice points
of a worker. `encode_range` calls the skip while a block run is pending, the gate and then `scan_dp` where a
segment may begin. The decoder's `scan` is called at most twice, both times into one buffer, and `report_error`
walks the original text once if both fail. The C ABI maps bytes to characters on the way into the decoder and
copies results to `malloc`ed memory; the Python binding copies its argument and calls `encode_parallel` and
`decode` with the interpreter released, so that other Python threads run meanwhile. C, Go and TypeScript are
independent implementations of the same format.

What is hard, and what correctness means, component by component:

* **Skip.** It tests two groups at a time with conditions that are necessary for Fill and for passthrough
  separately, changes its tests near the end of the input and near its bound, and rounds the result. It is right
  if it passes no position on its four-byte grid at which a construct other than a block begins.
* **Encoding loop.** A run of groups is pending while others are tested; the splice points, the bound and the
  meeting points are only meaningful with nothing pending; the substitution of the previous segment is reused
  under a key. It is right if its output, the pending run included, is the canonical encoding of what it has
  consumed, if a recorded splice point really separates the two, and if it stays in its bound.
* **Passthrough scan.** It keeps a few ranks instead of the set of bytes it has seen, and discovers a run that
  ends the prefix only after having accounted for its first byte. It is right if it returns the longest prefix
  that one profile can carry, with the mask and the smallest profile of exactly that prefix.
* **Parallel encoder.** A worker starts at a position that the sequential encoder may never visit, runs past its
  end into the next chunks, and is joined at a position where the two happen to agree, or after encoding the
  seam again until they do. It is right if the result is what the sequential encoder gives, for every chunk
  length and every schedule, and if it ends.
* **Decoder.** The first tier may not look past its buffer, whose size is a bound for most constructs and not
  for others; a rejected text is scanned again into what the first attempt left; the second tier has to agree
  with the first on what is malformed while counting characters instead of bytes; several faults in one text
  have an order. It is right if it inverts the encoder, reports the first fault where it is, and never accepts
  two texts for the same data in block mode.
* **Digits.** Two ways of dividing have to agree, the value ranges of the signals have to be disjoint, and among
  the digit strings of a short last group exactly one is accepted.
* **C decoder.** It tests its buffer only at Fill signals, relying on `cap - w >= n - pos` everywhere else; each
  growth has to restore that, the second scan starts with a buffer the first may have grown and the size from
  before, and allocation can fail at three places. It is right if it never writes past its buffer, frees what it
  allocated, and returns what the Rust decoder returns.
* **Vector paths.** They answer for many positions at once with the state, or the tests, of a single one. They
  are right if a build with them writes what one without them writes.
* **C encoder.** Its buffer is allocated once, from a length whose arithmetic may wrap, and tested before each
  write against a count of characters made apart from the writing; each test is a place where an allocation can
  fail in mid-encode. It is right if it returns the whole encoding or nothing, and leaks nothing.
* **Entry points.** The Rust one under the C interface copies a result that is already there, and the copy can
  fail; the Python one lets other threads change the very object it was given. They are right if the caller gets
  the encoding of what it passed, as it was when it called.
* **Go and TypeScript.** The same rule written again, with a lookahead by single groups, a scan that counts its
  way through runs instead of stepping over them, and decoders that order their tests in their own way. They are
  right if nobody can tell which implementation answered, down to the offset of an error.

`PROJECT.json` lists the hazards one by one, at their lines, with the properties that cover them.

## 2. The modules

`Base85N` defines the constructs as records ("units": kind, position, length, content) and `UnitAt(d, p)`, the
unit at position `p` of input `d`, decided in the order of the code (`choose_fill`, then the passthrough scan,
then block mode) but with no gate, skip or cache. `Canon(d, a, u, b)` says that the units `u` are what the
rule gives from position `a` to position `b`. An encoding in these modules is a sequence of units; the
characters of a unit are a function of it (`Wire`), so a character offset is a number of units. The constants
are the alphabet, the R-Set, the profiles and the thresholds; `BytesAssumption`, `ProfilesAssumption` and
`ThresholdsAssumption` state what the code's tests rely on (that a window test reads twelve bytes of a
candidate of at least twelve, that R-Set and alphabet are disjoint and lie in the range of the word test, that
where `MIN_PASSTHROUGH_BYTES` bytes are left the test for a run in the second group of a window stays inside).

`Skip` is `next_decision_point`: `StopsAt` says which of its loops (eight groups at a time where `SkipBytes` is
not 0, two at a time, one at a time, one at a time under the bound) settles a position and by which test.

`EncodeRange` is the loop of `encode_range`. A *frame* `enc[r]` holds what a call has on its stack: `start`,
`stop` (the bound), `meet` (the positions of the other encoder), `record`, `pos`, `block_start`, `out`,
`points`, `xlat`, `running`. One action is one iteration: `Return`, `EmitFill`, `EmitDp`, `TakeBlock` (with the
skip). `EncodeCall` is one call of it, over any bounds; `RangeWriter` is such a call with the vector it writes:
`w` is the cursor, `room` the vector's length, and each action says what it reserves and what it writes.
`ParallelEncode` is a frame per worker, frame 0 for the repair of a seam, and the main thread (`JoinWorkers`,
`SkipPart`, `SplicePart`, `StartRepair`, `EndRepair`, `Finish`) of `parallel_with_chunk`. The two share the loop
because the code does.

`CanonicalStream` is the abstract specification of an encoder: an output that only grows, by canonical units.
Both `EncodeCall` and `ParallelEncode` implement it (`StreamSpec`), with `emitted` mapped to the output
including the pending run in the first, and to the spliced output in the second.

`DpScan` is `scan_dp` byte by byte, with the actions `ReachLimit`, `BreakAtRun`, `StepOverRun`, `StepOver`,
`Stop`, `Account`, and `SkipLanes`, which passes up to `Lanes` bytes that change nothing, as the vector build
does wherever a whole vector is left. `DpLanes` adds the numbers the scan computes with, one profile per byte of
a word, and the translation of the segment found, a vector at a time. `PortScan` is the scan of Go and of
TypeScript, as an operator that takes a state to the next. Its result is compared with `DpLen`, `DpMask` and
`DpProfile`, the declarative versions the encoder modules use, so that the encoder modules can take the scan as
one step.

`Digits` has the base (85) and the number of byte values (256) as constants, so that TLC can use a smaller
pair with the same relation. `Wire` joins it with the units: the ranges of the signals, the characters of a
unit, and the fields of a signal value. `Decode` is the decoder; its state is the text, the tier, the bytes
scanned, the position, the buffer (`out`, `w`), the last table with its key, how far the report has read and
the verdict. Actions named `Read...` are the accepting branches of `scan`, `Reject...` its `return None`s
(the retry included), `Report...` and `Pass...` the branches of `report_error`. A character is its code;
`WideChar` is one that takes two bytes, what the C ABI makes of a byte from 0x80 up.

`CDecode` is `base85n_decode` and `decode_scan` of the C implementation, over the same `Wire`. `text`, `in`, `pos`,
`buf` (whose length is the code's `w`) and `cap` are its locals; `room` is the size the buffer really has,
which `cap` may be behind, and `heap` the blocks that are allocated. An iteration of the loop is one of the
actions under `Scan`; `AllocateOutput`, `WriteFill`, `Rescan` have a disjunct for the allocation that fails.
The two decoders do not share actions because the code does not: one keeps tiers and positions for
its report, the other answers with a status at once. `Differential` runs both on the same bytes, the Rust
one behind the C ABI (`RustReturns`), as the fuzzer does. The C call comes first: neither can see the other.
`PortDecode` has the decoders of Go and TypeScript as functions of the text, each with its own order of tests,
and `Differential` compares their answers with the other two; `PyAnswer` is what Python makes of the Rust one's.

`CEncode` is `encode_with` of the C implementation: a call of `EncodeRange` over the whole input (the loop is the
same code in C) with `cap`, `w`, `heap`, `status` and `result`, sizes modulo `SizeMax + 1`, and a failing
alternative for every allocation. `PortEncode` is the loop of Go and TypeScript, whose lookahead,
`PortDecisionPoint`, is their own. `EncodeEntries` puts the entry points beside each other, one of which is
called: C; the Rust one of the same interface (`RustRefuses`, `RustEncodes`, `RustReturns`); Python's
(`PyRefuses`, `PyCopies`, `PyEncodes`, `PyReturns`), with `OtherThread` changing the argument whenever
the interpreter's lock is free; Go's and TypeScript's (`PortEncodes`). What the Rust crate returns there is the
canonical encoding in one step: `EncodeCall` and `ParallelEncode` show that it is.

The modules `MC...` give the constants values; `MCFormat` has the ones the encoder instances share. Names
`X_Something` before a definition `X` are faulty variants of it: a plausible mistake in the same code, which
the checks use to see that a property can fail. `MCTexts` has the texts of the three
decoder instances, each with what it was written for: the data and its constructs (`sent`, `units`), or that it ends
inside a segment, or nothing.

Left out throughout: what one vector instruction does to its lanes, which is taken from its definition, and
the wording of messages. The encode of a remaining tail after the last part is left out of `ParallelEncode`
because `NothingLeft` shows that there is none; that module takes every chunk length, and the choice of one
from the number of threads is `ChunkFor` in `EncodeEntries`.

## 3. What TLC checks

| Run | Instance | Shows |
|---|---|---|
| `encode_call` | inputs of three pieces up to 70 bytes, whole; of two pieces up to 60 bytes, with `start` 0 or 3, `stop` 4, 9, 30, and meeting points or none; vectors of 16 bytes in the skip | output canonical at every step, splice points self-contained, bounds kept, every write inside a buffer that a whole call never grows, implements `CanonicalStream` |
| `parallel` | inputs of two and three pieces up to 36 bytes, chunk lengths 9, 11, 17 | spliced output canonical, nothing left over, partial groups only at the end, implements `CanonicalStream` |
| `parallel_live` | smaller inputs, chunks of 4, 5, 9 | the encoder ends with the whole input encoded |
| `dp_scan` | every window up to four bytes over all byte classes, of five over five of them, and longer ones at the limit; vectors of three bytes | the scan's state is exact for the bytes accepted, its answer is the canonical prefix, decodable and maximal; the word arithmetic and the vector translation agree with the tables; Go's and TypeScript's scans answer the same |
| `encode_entries` | all entry points over inputs of up to three pieces; pointers legal or not; each allocation failing or not; Python with every argument type, 0 to 4 threads and other threads | the C encoder's first buffer suffices, every call returns the whole encoding with its length or nothing, and it is that of the argument as it was passed |
| `decode` | encodings of inputs of two pieces, with white space put in; adjacent segments with every pair of substitutions; cut segments; values at the edges of the signal ranges; all short texts; damaged texts | round trip, the order of verdicts and their positions, agreement of the tiers, canonical block texts, buffer bounds, every text is answered |
| `c_decode` | those of these texts that have at most 24 characters, each allocation failing or not | the untested writes have room, nothing leaks, nothing is handed out on failure, every call returns |
| `differential` | all texts of `decode`, each decoded by C, then by Rust, and by Go, TypeScript and Python | same status, same data, same place of the error; whichever allocations fail, a C caller has all that the text stands for, or nothing |
| `fill_ties`, `passthrough_threshold`, `decode_growth`, `python_threads` | | four places where a document or a comment says something else than the code does (section 6) |

Bounds. In the encoder runs the thresholds that decide between constructs have their real values (20, 5, 16, 3);
only the maxima (2048, 2048, 32) are scaled, to 28, 24 and 8, so that inputs exceed them. The alphabet keeps a
byte of every class a test can tell apart. The pieces are chosen so that each ends just before, at or past a
threshold, and the alignment of a construct to the grid of groups varies with the pieces before it. `parallel`
has up to four workers whose seams lie closer together than a construct is long, so workers run past whole
chunks, which shipped chunk sizes never do at a seam. In `dp_scan` the run that ends a prefix is three bytes
long and the limit thirteen, so that short windows contain both; three profiles over three R-Set characters give
every order of literals and R-Set characters that the ranks can distinguish. In `decode` a digit is one of 7 and
a byte one of 11: `11^4 = 14641 < 7^5 = 16807` leaves room for the signals after the blocks, as `2^32 < 85^5`
does, with values left above them; a segment has at most 16 characters and a Fill at most 16 bytes, the tail
variant at most 4 zeros. The `Slack` of a capacity is 1 in `encode_call`, not 16, so that a construct that
carries a bounded call past its end does make the buffer grow, as it does at real sizes (a segment has up to
2048 bytes). In `encode_entries` `SizeMax` is 110, so that inputs of 48 bytes and more are refused as too long
and those just below bring the capacity near it; a chunk is at least 4 bytes and the machine has 2 cores, so
that Python's calls use up to four workers. A vector of three bytes in `dp_scan` ends before, at and behind
every byte that matters in a window of five, and one of 16 bytes in `encode_call` is four groups where the
code's is eight.

`CHECK_DEADLOCK FALSE` in every configuration: each module models calls that return.

Fairness. `parallel_live`: weak fairness of each worker, of the repair and of the main thread, separately,
since `std::thread::scope` joins every thread it started and they share nothing that one could hold.
`decode`, `c_decode`: weak fairness of `Next`, for one sequential call. No strong fairness anywhere.

The liveness properties are about progress of the position: a skip that returned the position it was given
would loop (in a worker of `parallel_live` as in a call of its own), and each of the two tiers must reach its end.

## 4. What is proved

TLAPS checks the theorems for every input, alphabet, threshold and chunk length that satisfies the
assumptions; no bound of section 3 plays a part.

* `WireProofs`: what the constructs are as characters. For every base and number of byte values, the two ways
  of dividing give the same digits (`PairsAgree`), weighing the digits is Horner's rule (`WeighAgrees`), value
  and digits are inverse (`ValueRoundTrip`), and a full group and a short last group are read back as the bytes
  they were written for (`BlockRoundTrip`, `TailRoundTrip`); they rest on the uniqueness of quotient and
  remainder. A mask is the number the signal carries it as, and the fields of a signal are taken apart as they
  were put together. Loops and sums over a text are recursive functions here; their equations are lemmas, once.
  `CanonConcat`: canonical encodings that meet can be concatenated. `CanonicalSpells`: every canonical encoding
  is one of the spellings a text for its data may have.
* `EncodeRangeProofs`: `SkipSound`, the skip stays in its range and every position of its grid that it passes has
  a block as its unit; `GateSound`, a position at which a segment begins passes the gate; the invariant
  `FrameInv` of one frame and `EncodeStepGood`, an iteration of the loop keeps it and extends the output by a
  canonical piece.
* `EncodeCallProofs`: type correctness, `EmittedCanonical`, `PointsSelfContained`, `NeverStartsPastStop`,
  and that a call implements `CanonicalStream`; for a call with its vector, `RoomReserved`, and that
  it is a call (`WriterIsCall`).
* `ParallelEncodeProofs`: type correctness, `SplicedCanonical`, `NothingLeft`, `OnlyLastGroupPartial`, and that
  the parallel encoder implements `CanonicalStream`.
* `DpScanProofs`: type correctness of the segment scan, `StateExact`, `PrefixIsCanonical`, `PrefixDecodable` and
  `PrefixMaximal`, for every window, every set of profiles and vectors of any length; that the ports' scans find
  the same prefix (`PortsScanAlike`), that the words of the scan compute what its lanes mean (`LanesExact`), and
  that vectors write a segment as the table does (`TranslationExact`).
* `EncodeEntriesProofs`: type correctness, `NeverGrows`, `ReturnsWhole` and `LengthWritten` of the C encoder, for
  every input, every width of `size_t` and whichever allocations fail; `ArgumentEncoded`, `ReturnsWhole` and
  `LengthWritten` of all the entry points together, whatever other Python threads do.
* `DecodeProofs`: of the Rust decoder, type correctness (no write leaves the buffer), `TiersAgree`,
  `FirstInvalidReported`, `AcceptedIsClean`, `RoundTrip`, `CutSegmentsReported` and
  `BlockTextsCanonical`, for every text. Of the decoders side by side, that C, Rust, Go, TypeScript and
  Python give one answer for every text, unless an allocation failed (`VerdictsAgree`), and that behind the C interface
  C and Rust hand over all of it or nothing, whichever do (`WholeOrUntouched`).
* `CDecodeProofs`: type correctness, `RoomLeft` and `NothingLeaks` of the C decoder, for every text and
  whichever allocations fail.

Assumptions: `BytesAssumption`, `ProfilesAssumption`, `ThresholdsAssumption` (section 2; among them that no R-Set
character and no donor of a profile is listed twice), `DigitsAssumption`
(there are at least two digits, no more digits than byte values, and four bytes fit in five digits),
`WireAssumption` (the alphabet lists every digit's character once, white space is none of them) and
`RangesAssumption` (the signals fit in what blocks leave) and, per
specification, `CasesAssumption` (an input is a sequence of bytes; a chunk is at least one byte, as
`parallel_with_chunk` makes it; a text for some data consists of the characters of a spelling of it and white
space), `InputsAssumption` and `StreamsAssumption` (what is encoded is a sequence of
bytes, a text one of characters), `WindowsAssumption`, `LanesAssumption`, `EntriesAssumption` (types only).
`RanksAssumption` says that a profile has fewer than 128 donors, so that ranks fit below a lane's high bit; it has 13.
`SkipAssumption` says that a vector holds whole pairs of groups. `CostAssumption` states, with their real values, the
three thresholds that keep a construct from costing more than block mode, and `SlackAssumption` that a capacity
has at least one byte to spare. For the C encoder `SizeAssumption` says that a size has at least seven bits.

### The encoders

Canonicity of the output alone is not inductive: the pending run is not yet in it. `FrameInv`
adds that the output is canonical up to `block_start`, that every group from there to `pos` begins at a
position whose unit is a block, that the run is a whole number of groups unless it reached the end of the
input, that the cached substitution is the one of its key, and that every recorded point lies between two
units of the output. `SkipSound` is what lets `TakeBlock` add many groups at once. For the parallel encoder,
`ParInv` adds to `FrameInv` for each frame that worker `i` starts at its chunk and, once returned, stands at or
past the start of the next one; that the spliced output is canonical up to the cursor; and that in the
repair phase the frame 0 began at the cursor with the part's points as its meeting points. A splice point of
a worker is a construct boundary of that worker, so what follows it in the worker's output is canonical from there
(`PointsOK`), and `CanonConcat` joins it. `NothingLeft` follows since the cursor has passed the stop of
every part looked at, and the last part stops at the end of the input.

The buffers of both encoders rest on prices: four characters' worth of output never exceeds five bytes'
worth of input (`FillCost`, `BlockCost`, `WriteCost`), so that `4 * w <= 5 * OutEnd` while the loop runs, where
`OutEnd` is the end of what is written rather than the position; once the last, possibly short, group is
written, the bound is `5 * Len + 3`. The C encoder counts the characters of a run apart from writing them;
that the two numbers agree (`LengthWritten`) needs the sum over a run's groups in closed form
(`GroupsChars`, `RunChars`), and gives the room that `NeverGrows` is about, together with `cap` being the
capacity of the whole input, unwrapped because longer inputs were refused. The Rust writer reserves before
every write and may be given a bound, past which its last construct runs; there `w <= room` is kept by each write
by itself, and the prices are needed only for a call over the whole input, which must never grow its vector. A
short group of one byte is what the `Slack` of at least one is for: `5 * n + 3` characters are paid for by `n + n \div 4`
bytes and one more. `LoopInv` is `FrameInv` without a bound and without meeting points, which the C loop does not
have; the lemmas about an iteration of the Rust loop serve for this one.

Of the entry points `EntriesInv` says what each has in hand at each stage. Python's is the one with something to
go wrong: the copy is taken while the interpreter's lock is held, and from then on the invariant speaks of `copy`
and of what the call was `given`, no more of the object, which `OtherThread` may change. Go's and TypeScript's
loop keeps `LoopInv` although their lookahead is another one: a position it passes has a block for its unit
(`PortGood`). There is no theorem of type correctness here, since the Rust entry accepts inputs for which C's
capacity, a field of the same state, would not be a size.

### The scan for a segment

The scan has thrown away the set of bytes for a mask and one lowest rank per profile, and it discovers a run that
ends the prefix only behind the run's first byte, whose effect it then undoes. `StateInv` relates the state to the bytes
accepted: the mask and the profile are exact for *every* length from the last change on, not for the
present one alone, and the state kept from before is exact for the length before that change; this is what makes
`BreakAtRun` answer rightly in both of its cases. `min_donor` holds the lowest rank of any byte accepted, `seen` the bytes that
matter, the set the vectors pass over only bytes that change nothing, and no run that would end the prefix begins
before the last byte. A set of bytes can be carried by a profile if and only if the lowest rank in it is at least the
number of its R-Set characters (`RankFacts`, `MaskSize`), so that comparing ranks is deciding `Carries`; viability is only ever
lost as the set grows, hence the first byte no profile can carry bounds every longer prefix too, and
the answer is the longest (`PrefixInv`, from which `PrefixIsCanonical`, `PrefixDecodable` and `PrefixMaximal` follow).

The scans of the ports (`PortScan`) are functions, a chain of states each made from the one before; `PortInv` is
what holds of the state after `n` bytes, and `LoopExists` that such a chain exists for every window. A port has no set
of bytes seen to tell it that a byte changes nothing: it counts the run it is in and looks again at each of its
bytes. What it restores when the run grows too long is the state before its *last* change, and that this is the
one in effect at the run's first byte is because no byte that repeats its predecessor can have made a change; `KeptSound` says
it, by placing the last change before the run. `ByteAdds`, what one byte does to what is viable, serves both
scans. With the same length, mask and profile by definition as `ScanInvariant` gives, `PortsScanAlike` follows.

For `TranslationExact`, a build with vectors replaces characters pair by pair over the whole segment, so a replacement
could be replaced again. It is not, because a donor is a character of the alphabet and no R-Set character is
(`Substitutes`, `BlendedIs`); and as the donors a prefix needs are not in it (`PrefixDecodable`), no two of its bytes are
written as the same character.

For `LanesExact`, a word is described lane by lane from the top (`Word`): each lane's value, and what the lanes above it
come to. Words are then linear in their lanes (`PackedMinus`, `PackedTimes`), and a lane is read back as what was put
there if that is a byte (`LaneIs`). A comparison sets the high bit of each lane and subtracts (`LaneGeIs`): with ranks below
128 every difference is a byte, so none of the subtractions borrows. Both operands are that small because
`StateInv` bounds `min_donor` and the mask by the number of donors.

### The decoders

The Rust decoder's two tiers read the same constructs in different ways: the scan by position in a byte string,
the report by characters counted from the end of the last one it could read. `DecInv` relates both to one walk over a text:
`TokenLen(s, p)` is the length of the construct at `p`, or 0 where there is none or a malformed one, `ReachFrom(s, p)` are
the positions reached from `p` construct by construct, and `Stuck(s, r)` says that the walk ends at `r` before
the text does. `ScanSound`: a scan stands on the walk and all it has passed is clean. It rejects only where it is stuck
(or, in the first scan, may have met white space). `ReportSound` is the strengthening that makes `TiersAgree`
inductive: while a report reads, the place where the scan was stuck is on the report's walk and still ahead of it, so that the
report cannot come to the end of the text without having found the fault. `FirstInvalidReported` adds that
everything before a report's position is of the alphabet; the byte offset it reports is that of the character with the same
number among those that are not white space (`KeptInOrder`). `RoomKept` says that the buffer is
never shorter than what is scanned, which is why the second scan, over a shorter text, may start with what the first one
left; `TableSound` that the cached table is that of its key.

For `RoundTrip` the invariant needs where a scan must be. A text for some data is a spelling of it (`Spells`):
a sequence of constructs each of which stands for its bytes, whether or not an encoder would have chosen it. `Marks(t, d, S)` says
that `S` pairs the ends of constructs in `t` with the ends of what they stand for in `d`, that between two such
places the decoder's token stands (`UnitToken`), and what it writes there; `WrittenMarks` gives such an `S` for every spelling, from the
characters of each construct being read back as its fields. `Follows` then says that a scan of the significant
characters is at a pair of `S` with what is written so far being the beginning of the data. A marked text
is never stuck, so only a first scan, over white space, can reject; and if it does not, there was no white space.
That the encoder's output is such a spelling is `CanonicalSpells`: together they say that the decoder inverts
every encoder proved to write the canonical encoding. `CutSegmentsReported` is from `CutSound`: a text shorter than
its first signal announces has no token at its start, so no scan accepts it, and the report's first step is the one for the end of the stream.

`BlockTextsCanonical` goes the other way, from an accepted text of block groups to the one its bytes are written as.
`SourceSound` strengthens `Follows` to all texts: *whatever* `d` and `S` mark the text scanned, the scan is on its way to `d`.
The bytes of a text of block groups are given group by group (`BlocksOf`); they mark it (`BlocksMark`) as soon as
its last, short group is a valid one, which it must be, since a walk is stuck at any other and a scan stands on the walk. So
what is returned is these bytes, and since digits and bytes determine each other where the value is below
`Radix^4` (`BlockInverse`), block mode writes the text again (`BlocksText`).

In the digits of a short group, the digits dropped are replaced by the largest digit, and what that adds stays
below what the missing bytes are worth because a digit is no larger than a byte.

For the C decoder, `RoomLeft` (no fewer bytes left than characters) is kept by each construct for a reason
of its own: a block writes four bytes for five characters, a segment one per character after its signal,
and a Fill asks for what the rest of the input could need as well. What makes it hold again after the rescan
is not in the loop: `RoomKept`, the buffer never becomes smaller than the text, while `cap` restarts at
the text's length; and the filtered copy is no longer than the text. `CacheSound` (the cached table is that of
its key, and maps characters to bytes) is needed for what a segment writes to be bytes, and `HeapSound` says
which blocks exist in which phase. The model's `cap` is unbounded where the code's is a `size_t`: as
there are never more characters left than room, a Fill asks for at most its own length more than `cap`, so
`w + need` stays within a signal's length of the size of a block that exists.

`VerdictsAgree` compares every decoder with what the text means: `Answers(s, f)` gives for each position of a text
the bytes of the constructs from there on, or the first place where none begins and why (`Fault`); such an `f` exists
(`AnswersExist`) and is the only one (`AnswersUnique`). Go and TypeScript are functions of the text, and are shown to return `f`'s answer,
each by way of its own order of tests (`PortsAnswer`). For the two machines the answer is an invariant: the Rust report
carries the answer from where it reads (`AnswerSound`), and the C decoder adds to what it has written the answer from
where it is (`CInv`). The three that scan the text a second time without its white space may do so because a
text in which every construct is well formed has none (`AcceptedWhole`), so a first scan that accepts
has given the answer of the second. `BothInv` joins the two machines with what has crossed the C interface of the Rust one; `WholeOrUntouched` is from the same invariant: an answer is
handed over (`Hands`), or the status is that of a failed allocation and nothing is. The byte
Python names is the one that comes after as many characters other than white space as Go's offset counts (`PositionIs`).

### Only model-checked

The liveness properties, which are outside what TLAPS can prove here. Every invariant a run checks is stated by a
theorem.

## 5. Plan

Every component of section 1 that is part of the format has its modules, and every invariant its theorem.

An abstract specification worth stating besides `CanonicalStream` is one of a decoder (a text either has a
unique meaning or a first fault), which `Decode` and `CDecode` would both implement; `Answers` in `DecodeProofs` is the function
it would return.

## 6. Where documents and code differ

* Spec section 6.5 says that two variants of Fill can only tie when both length fields are saturated
  (`spec/base85n-v0.5.0.md:264`). Six zeros at the end of an input tie between the solid variant and the one
  with literals first (`fill_ties`). Every implementation breaks the tie by the same order, so the output is
  unaffected.
* The comment on `MIN_PASSTHROUGH_BYTES` (20) calls it the smallest length at which passthrough never costs
  more than block mode (`rust/src/constants.rs:17`). That length is 17 (`passthrough_threshold`).
* The comments on the decoder call solid Fill the only construct whose output the input does not bound and
  that can make the buffer grow (`rust/src/decode.rs:27` and `:100`). The tail variant writes up to 34 bytes for five
  characters and reserves room as well (`decode_growth`); the code handles it.
* `encode_parallel` is said to encode "on up to `threads` threads" (`rust/src/encode.rs:991`, `rust/src/lib.rs:58`).
  The length of a chunk is the input's divided by the threads, rounded down, and there is a worker for each chunk, the
  short last one included: two threads and an odd number of bytes from 2 MiB up give three (`python_threads`, at
  a smaller size). The output is unaffected.

## 7. Not modelled, and why

* The C encoder's other dialects, which exist only under `BASE85N_BENCH_ENCODERS`.
* Surrogate pairs in TypeScript: a character of a text is one code unit, `WideChar` standing for one outside
  ASCII. The scratch buffers it keeps between calls are overwritten before they are read.
* Addresses. `heap` in `CDecode` and `CEncode` is a set of names: `NothingLeaks` and `ReturnsWhole` say which blocks are
  left when a call returns, not that a pointer into a block that has moved is never used or freed again.
* The `realloc` of the C encoder's growth path is never reached (`NeverGrows`), so neither is its failure.
* A text cut inside a segment that is not its first construct carries no promise of its own: which fault is reported is
  still pinned by `FirstInvalidReported`, but `CutSegmentsReported` speaks of the first construct only.
* A Rust panic that the C interface turns into an abort, and the constants the Python module exports.
* Command-line drivers, packaging, CI, benchmarks, the site and the vector generators: no part of the format.
* The contents of error messages, and `base85n_strerror`: wording only.
* Timing and memory peaks of the error path: `report_error` holds five characters at a time by construction, which the
  model abstracts to a position.
