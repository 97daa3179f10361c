------------------------------- MODULE Digits -------------------------------
(***************************************************************************)
(* Five digits of base Base (85) as a value and back, four bytes as a      *)
(* value and back, and the short group that ends a stream                  *)
(* (rust/src/digits.rs, and the parts of encode.rs and decode.rs that read *)
(* and write groups).                                                      *)
(***************************************************************************)
EXTENDS Integers, Sequences

CONSTANTS
  Base,    \* the number of digits, 85
  Radix    \* the number of byte values, 256

Digit == 0..(Base - 1)
Octet == 0..(Radix - 1)

Base_2 == Base * Base
Base_3 == Base * Base_2
Base_4 == Base * Base_3
Base_5 == Base * Base_4      \* the values five digits can have
Radix_2 == Radix * Radix
Radix_3 == Radix * Radix_2
Radix_4 == Radix * Radix_3   \* the values four bytes can have

\* Padding with the largest digit reaches the bytes it stands in for only
\* while a digit is no larger than a byte, and a group of bytes has to fit in
\* a group of digits.
ASSUME DigitsAssumption ==
  /\ Base \in Nat \ {0, 1} /\ Radix \in Nat
  /\ Base <= Radix
  /\ Radix_4 <= Base_5

-----------------------------------------------------------------------------
DigitsToValue(g) == (((g[1] * Base + g[2]) * Base + g[3]) * Base + g[4]) * Base + g[5]

\* The decoder's fast tier weighs the digits instead.
WeighDigits(g) == g[1] * Base_4 + (g[2] * Base_3 + g[3] * Base_2 + g[4] * Base + g[5])

\* The last digit first, each from what the one before it left.
ValueToDigits(v) ==
  LET v4 == v \div Base
      v3 == v4 \div Base
      v2 == v3 \div Base
      v1 == v2 \div Base
  IN  <<v1 % Base, v2 % Base, v3 % Base, v4 % Base, v % Base>>

\* Two divisions that do not wait for each other, for block mode.
ValueToDigitPairs(v) ==
  LET q    == v \div Base_2
      head == v \div Base_3
      tail == v - q * Base_2
      mid  == q - head * Base
  IN  <<head \div Base, head % Base, mid, tail \div Base, tail % Base>>

\* Big-endian bytes.
BytesToValue(b) == ((b[1] * Radix + b[2]) * Radix + b[3]) * Radix + b[4]
ValueToBytes(v) ==
  <<v \div Radix_3, (v \div Radix_2) % Radix, (v \div Radix) % Radix, v % Radix>>

-----------------------------------------------------------------------------
(* The last group: one to three bytes b as two to four digits t.           *)

ZeroPadded(b) == [i \in 1..4 |-> IF i <= Len(b) THEN b[i] ELSE 0]
TailDigits(b) == SubSeq(ValueToDigitPairs(BytesToValue(ZeroPadded(b))), 1, Len(b) + 1)

TailValue(t) ==
  DigitsToValue([i \in 1..5 |-> IF i <= Len(t) THEN t[i] ELSE Base - 1])
TailBytes(t) == SubSeq(ValueToBytes(TailValue(t)), 1, Len(t) - 1)

\* Only the digits that encoding the bytes would have given are accepted.
TailAccepted_AnyAlias(t) == TailValue(t) < Radix_4
TailAccepted(t) == TailValue(t) < Radix_4 /\ TailDigits(TailBytes(t)) = t
=============================================================================
