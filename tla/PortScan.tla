------------------------------ MODULE PortScan ------------------------------
(***************************************************************************)
(* The prefix scans of the Go and the TypeScript implementation (scanDP,   *)
(* go/base85n.go; scanDp, typescript/src/encode.ts).  Both look at every   *)
(* byte, also inside a run, whose length they count as they go, and end a  *)
(* prefix only at the byte that makes it too long.  A state is a record,   *)
(* an iteration an operator on it.                                         *)
(***************************************************************************)
EXTENDS DpScan

PortStart ==
  [i |-> 0, mask |-> {}, profile |-> 1, minDonor |-> [q \in ProfileIds |-> Len(RSet)],
   prev |-> <<{}, 1>>, prevPos |-> NoPos, run |-> 0, ended |-> FALSE]

\* The state with this byte's place in its run noted.
Counted(s) ==
  [s EXCEPT !.run = IF s.i > 0 /\ window[s.i + 1] = window[s.i] THEN s.run + 1 ELSE 0]

TooLong_OneLess(s) == s.run >= MinFillInSegment
TooLong(s) == s.run > 0 /\ s.run + 1 >= MinFillInSegment

\* The prefix ends where the run began, with what was in effect before that.
CutAtRun(s) ==
  LET start == s.i - s.run
      back  == IF s.prevPos = start THEN s.prev ELSE <<s.mask, s.profile>>
  IN  [s EXCEPT !.i = start, !.mask = back[1], !.profile = back[2], !.ended = TRUE]

Ended(s) == [s EXCEPT !.ended = TRUE]
Passed(s) == [s EXCEPT !.i = s.i + 1]

\* A change is made at this byte, for the profiles left after it.
Changed(s, viable, mask_, minDonor_) ==
  [s EXCEPT !.prev = <<s.mask, s.profile>>, !.prevPos = s.i, !.i = s.i + 1,
            !.profile = Min(viable), !.mask = mask_, !.minDonor = minDonor_]

PortByte(s, b) ==
  LET lowered == [q \in ProfileIds |-> Smaller(s.minDonor[q], Rank(q, b))]
      k       == Cardinality(s.mask)
      viable  == IF b \in RSetBytes THEN {q \in ProfileIds : s.minDonor[q] >= k + 1}
                 ELSE {q \in ProfileIds : lowered[q] >= k}
  IN  CASE b \in s.mask -> Passed(s)
        [] b \notin Representable -> Ended(s)
        [] b \in AlphabetN /\ lowered = s.minDonor -> Passed(s)
        [] b \in RSetBytes \ s.mask ->
             IF viable = {} THEN Ended(s)
             ELSE Changed(s, viable, s.mask \cup {b}, s.minDonor)
        [] b \in AlphabetN /\ lowered # s.minDonor ->
             IF viable = {} THEN Ended(s) ELSE Changed(s, viable, s.mask, lowered)

\* The TypeScript one passes a character no profile spends before looking at
\* ranks, and lowers them in place, a byte that ends the prefix included.
TsByte(s, b) ==
  LET lowered == [q \in ProfileIds |-> Smaller(s.minDonor[q], Rank(q, b))]
      viable  == {q \in ProfileIds : lowered[q] >= Cardinality(s.mask)}
  IN  CASE b \in RSetBytes \cup (Byte \ Representable) -> PortByte(s, b)
        [] b \in Plain -> Passed(s)
        [] b \in DonorBytes /\ lowered = s.minDonor -> Passed(s)
        [] b \in DonorBytes /\ lowered # s.minDonor ->
             IF viable = {} THEN Ended([s EXCEPT !.minDonor = lowered])
             ELSE Changed([s EXCEPT !.minDonor = lowered], viable, s.mask, lowered)

\* An iteration that the run does not end.
PortStep(port, s, b) == IF port = "go" THEN PortByte(s, b) ELSE TsByte(s, b)

\* The loop, whose iterations are at most Limit.
Iterated(port) ==
  LET after[n \in 0..Limit] ==
        IF n = 0 THEN PortStart
        ELSE LET s == Counted(after[n - 1])
             IN  CASE after[n - 1].ended  -> after[n - 1]
                   [] ~s.ended /\ TooLong(s)  -> CutAtRun(s)
                   [] ~s.ended /\ ~TooLong(s) -> PortStep(port, s, window[s.i + 1])
  IN  after[Limit]

Prefix(s) == [len |-> s.i, mask |-> s.mask, profile |-> s.profile]

-----------------------------------------------------------------------------
\* The ports count a run byte by byte and undo its first byte long after it, and
\* keep no set of bytes seen: they find the prefix that the step over runs and
\* the vectors of the Rust scan find, with its mask and its profile.
PortsScanAlike ==
  ~Running => \A port \in {"go", "ts"} : Prefix(Iterated(port)) = prefix
=============================================================================
