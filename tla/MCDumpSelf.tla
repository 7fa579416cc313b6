----------------------------- MODULE MCDumpSelf -----------------------------
(***************************************************************************)
(* Small address spaces for DumpSelf.                                      *)
(***************************************************************************)
EXTENDS DumpSelf

Mapping(s, e, r, o) == [start |-> s, end |-> e, readable |-> r, own |-> o]

\* A heap with room to grow between the program and its libraries; a mapping
\* that is too big, and a guard page.
SmallImages ==
  {{Mapping(1, 2, TRUE, FALSE), Mapping(2, 3, TRUE, TRUE),
    Mapping(5, 8, TRUE, FALSE)},
   {Mapping(1, 5, TRUE, FALSE), Mapping(5, 6, FALSE, FALSE),
    Mapping(7, 8, TRUE, FALSE)}}

=============================================================================
