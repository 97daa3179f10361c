-------------------------------- MODULE Wire --------------------------------
(***************************************************************************)
(* Constructs as characters: what the encoder writes for a unit and how a  *)
(* signal is taken apart again (rust/src/constants.rs, encode.rs,          *)
(* decode.rs).  A character is its code, so a byte and the ASCII character *)
(* of the same value are the same number; characters from 0x80 up are not  *)
(* bytes of the stream but stand for two of them.                          *)
(***************************************************************************)
EXTENDS Base85N, Digits, SequencesExt

CONSTANTS
  Alphabet,   \* ALPHABET_N: the character of each digit value, in order
  Whitespace, \* the characters the decoder ignores between tokens
  WideChar    \* a character that is not ASCII

ASSUME WireAssumption ==
  /\ Byte = Octet /\ Zero = 0
  /\ Alphabet \in Seq(AlphabetN) /\ Len(Alphabet) = Base
  /\ \A i, j \in 1..Base : Alphabet[i] = Alphabet[j] => i = j
  /\ \A c \in AlphabetN : \E i \in 1..Base : Alphabet[i] = c
  /\ Whitespace \subseteq Byte /\ Whitespace \cap AlphabetN = {}
  /\ WideChar \notin Byte

Char == Byte \cup {WideChar}

CharOf(v) == Alphabet[v + 1]
NoValue == -1
ValueOf(c) == IF c \in AlphabetN THEN (CHOOSE i \in 1..Base : Alphabet[i] = c) - 1
              ELSE NoValue

Characters(digits) == [i \in 1..Len(digits) |-> CharOf(digits[i])]
Values(chars) == [i \in 1..Len(chars) |-> ValueOf(chars[i])]

-----------------------------------------------------------------------------
(* The ranges of values.                                                   *)

\* Bit[j - 1] is the bit of the j-th R-Set character in a mask.
Bit[j \in 0..Len(RSet)] == IF j = 0 THEN 1 ELSE 2 * Bit[j - 1]
Masks == Bit[Len(RSet)]
DpSignalBase == Radix_4
DpSignalSpan == Len(Profiles) * Masks * MaxDpSegment
FillSignalBase == DpSignalBase + DpSignalSpan
FillSignalSpan == Radix * MaxFill
TailSignalBase == FillSignalBase + FillSignalSpan
TailSignalSpan == 2 * MaxTailZeros * Radix_2
FutureSignalBase == TailSignalBase + TailSignalSpan

ASSUME RangesAssumption == FutureSignalBase <= Base_5

-----------------------------------------------------------------------------
(* Writing.                                                                *)

MaskBits(mask) ==
  LET bits[j \in 0..Len(RSet)] ==
        IF j = 0 THEN 0 ELSE bits[j - 1] + (IF RSet[j] \in mask THEN Bit[j - 1] ELSE 0)
  IN  bits[Len(RSet)]

DpSignal(profile, mask, len) ==
  DpSignalBase + ((profile - 1) * Masks + MaskBits(mask)) * MaxDpSegment + (len - 1)
FillSignal(byte, len) == FillSignalBase + byte * MaxFill + (len - 1)
TailSignal(zeros, order, lit) ==
  TailSignalBase
    + ((order * MaxTailZeros + (zeros - 1)) * Radix + lit[1]) * Radix + lit[2]

Signal(v) == Characters(ValueToDigits(v))

\* The characters of unit u of input d.
UnitChars(d, u) ==
  CASE u.kind = "solid"         -> Signal(FillSignal(u.sig[1], u.len))
    [] u.kind = "zerosFirst"    -> Signal(TailSignal(u.len - 2, 0, u.sig))
    [] u.kind = "literalsFirst" -> Signal(TailSignal(u.len - 2, 1, u.sig))
    [] u.kind = "dp" ->
         Signal(DpSignal(u.sig[1], u.sig[2], u.len))
           \o [j \in 1..u.len |->
                 LET b == d[u.at + j]
                 IN  IF b \in u.sig[2] THEN u.sig[3][b] ELSE b]
    [] u.kind = "block" /\ u.len = 4 -> Characters(ValueToDigitPairs(BytesToValue(u.sig)))
    [] u.kind = "block" /\ u.len < 4 -> Characters(TailDigits(u.sig))

\* u is a construct of the format for the bytes of d that it covers: the one that
\* an encoder picks there, or another that it might have.
StandsFor(d, u) ==
  LET part  == SubSeq(d, u.at + 1, u.at + u.len)
      zeros == [i \in 1..(u.len - 2) |-> Zero]
  IN  \/ /\ u.kind = "solid" /\ u.len <= MaxFill
         /\ part = [i \in 1..u.len |-> u.sig[1]]
      \/ /\ u.kind = "zerosFirst" /\ u.len - 2 \in 1..MaxTailZeros
         /\ u.sig \in [1..2 -> Byte] /\ part = zeros \o u.sig
      \/ /\ u.kind = "literalsFirst" /\ u.len - 2 \in 1..MaxTailZeros
         /\ u.sig \in [1..2 -> Byte] /\ part = u.sig \o zeros
      \/ /\ u.kind = "dp" /\ u.len <= MaxDpSegment
         /\ u.sig[1] \in ProfileIds /\ u.sig[2] \subseteq RSetBytes
         /\ u.sig[3] = Donors(u.sig[1], u.sig[2])
         /\ \A i \in 1..u.len :
              part[i] \in u.sig[2] \cup (AlphabetN \ {u.sig[3][r] : r \in u.sig[2]})
      \/ /\ u.kind = "block" /\ u.len = Smaller(Len(d) - u.at, 4)
         /\ u.sig = part

\* The constructs us cover all of d, one after the other.
Spells(d, us) ==
  /\ Len(us) \in Nat
  /\ \A k \in 1..Len(us) :
       /\ us[k].at \in 0..(Len(d) - 1) /\ us[k].len \in 1..(Len(d) - us[k].at)
       /\ us[k].at + us[k].len = (IF k = Len(us) THEN Len(d) ELSE us[k + 1].at)
       /\ StandsFor(d, us[k])
  /\ (IF Len(us) = 0 THEN Len(d) ELSE us[1].at) = 0

\* The characters of the units us of input d.
Written(d, us) == FlattenSeq([k \in 1..Len(us) |-> UnitChars(d, us[k])])

-----------------------------------------------------------------------------
(* Reading.                                                                *)

SplitDp(payload) ==
  LET bits == (payload \div MaxDpSegment) % Masks
  IN  [len     |-> (payload % MaxDpSegment) + 1,
       mask    |-> {c \in RSetBytes : (bits \div Bit[RSetIndex(c) - 1]) % 2 = 1},
       profile |-> (payload \div (MaxDpSegment * Masks)) + 1]

SplitFill(payload) ==
  [len |-> (payload % MaxFill) + 1, byte |-> payload \div MaxFill]

SplitTail(payload) ==
  LET field == payload \div Radix_2
  IN  [zeros |-> (field % MaxTailZeros) + 1, order |-> field \div MaxTailZeros,
       lit |-> <<(payload \div Radix) % Radix, payload % Radix>>]

\* What each character of a segment stands for: itself, unless it is a donor
\* of the segment's profile that the mask makes stand for an R-Set character.
DpTable(profile, mask) ==
  LET donors == Donors(profile, mask)
  IN  [c \in AlphabetN |->
         IF \E r \in mask : donors[r] = c THEN CHOOSE r \in mask : donors[r] = c ELSE c]

\* s with what the decoder ignores left out: kept[i] is what the loop that copies
\* it has of the first i characters.
WithoutSpace(s) ==
  LET kept[i \in 0..Len(s)] ==
        IF i = 0 THEN <<>>
        ELSE IF s[i] \in Whitespace THEN kept[i - 1] ELSE Append(kept[i - 1], s[i])
  IN  kept[Len(s)]

\* The bytes of a text: a character that is not ASCII takes two.
Utf8(text) ==
  FlattenSeq([i \in 1..Len(text) |->
                IF text[i] = WideChar THEN <<WideChar, WideChar>> ELSE <<text[i]>>])
=============================================================================
