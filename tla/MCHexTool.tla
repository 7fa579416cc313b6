----------------------------- MODULE MCHexTool -----------------------------
(***************************************************************************)
(* The modes of hextool on every byte, and the loop on short files.        *)
(***************************************************************************)
EXTENDS HexTool

\* Every byte alone; with blocks of two bytes, the empty file, files of one
\* and a half, of two and of two and a half blocks.
ShortFiles ==
  {<<b>> : b \in Byte}
    \cup {<<>>, <<2, 223, 178>>, <<240, 171, 0, 85>>, <<252, 128, 127, 1, 255>>}

Modes(ms) == [i \in DOMAIN ms |-> [name |-> "mode", value |-> ms[i]]]
Line(options) == [options |-> options, filename |-> TRUE]

\* Each mode; no mode, two of them, one that is not valid, help, no file.
SomeLines ==
  {Line(Modes(<<m>>)) : m \in Mode}
    \cup {Line(<<>>), Line(Modes(<<2, 7>>)), Line(Modes(<<9, 1>>)),
          Line(<<[name |-> "help", value |-> 0]>>),
          [options |-> Modes(<<3>>), filename |-> FALSE]}

=============================================================================
