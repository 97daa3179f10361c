--------------------------- MODULE MCEncodeEntries --------------------------
EXTENDS EncodeEntries, MCFormat

Pieces ==
  {Repeat("00", n) : n \in {3, 6}} \cup {Repeat("ff", n) : n \in {5, 25}}
    \cup {Binary(n) : n \in {1, 4, 10, 27}}
    \cup {Text(n) : n \in {2, 20, 29}} \cup {Cycle(<<"a", " ", "b">>, 21), <<"~", "tab">>}

\* The longest ones are refused: 47 bytes are the most SizeMax allows.
MCInputs == {<<>>} \cup Pieces \cup Two(Pieces) \cup {t \in Three(Pieces) : Len(t) <= 30}

MCSizeMax == 110

\* Python's arguments: each type, and bytes enough for four chunks.
MCObjects ==
  {[type |-> t, bytes |-> s] :
     t \in {"bytes", "bytearray", "list"},
     s \in {<<>>, Repeat("00", 6), Binary(3) \o Text(20), Binary(13), Text(21) \o Repeat("ff", 5)}}
MCThreads == 0..4
=============================================================================
