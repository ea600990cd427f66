--------------------------- MODULE MCCommandLine ---------------------------
EXTENDS CommandLine

\* 8-bit words for the 64-bit ones: a page of 4 bytes, units of 2, 8 and 32.
MCScale == [K |-> 1, M |-> 3, G |-> 5]

\* Nothing, no page multiple, units, a unit alone, the largest number and beyond, a
\* shift that wraps, a rounding that wraps, a bad number, a bad unit.
MCMemStrings ==
    {<<>>, <<9>>, <<9, Unit.K>>, <<3, Unit.M>>, <<2, Unit.G>>, <<Unit.K>>, <<9, Unit.G>>,
     <<2, 5, 5>>, <<9, 9, 9>>, <<Other, Unit.K>>, <<9, Other>>}

\* None, some, more than an int holds, more than a word holds, no number.
MCVcpuStrings == {<<>>, <<3>>, <<1, 7>>, <<9, 9, 9>>, <<3, Other>>}

\* Every string of up to four of these characters, and lists for whole dumps.
MCShortStrings == BoundedSeq({1, 3, Comma, Other}, 4)
MCDumpStrings ==
    {<<0, Comma, 9>>, <<0, Comma, 9, Comma, 2, Comma, 4>>, <<4, Comma, 1, 8, Comma, 3, Comma, 5>>,
     <<2, Comma, 1, 0, Comma, 0, Comma, 4>>, <<0, Comma, 9, Comma, 2, Comma, 0>>,
     <<1, 7, Comma, 9, 9, Comma, 2, Comma, 8>>, <<9, 9, Comma, 5>>, <<2, 0, 0, Comma, 2, 5, 4>>,
     <<2, 5, 5, Comma, 2, 5, 5, Comma, 4>>, <<0, Comma, 1, 5, Comma, 1, Comma, 1>>,
     <<0, Comma, 1, 6, Comma, 1, Comma, 1>>, <<0, Comma, 9, Comma, 8, Comma, 8>>,
     <<0, Comma, 9, Comma, 9, Comma, 4>>}

MCListStrings ==
    <<MCShortStrings \cup MCDumpStrings, {<<>>, <<1>>, <<0, Comma, 2>>, <<Comma>>}, {<<1>>}>>
=============================================================================
