----------------------------- MODULE MCPicture -----------------------------
(***************************************************************************)
(* Pictures of one to three pixels in a row, whose rows need padding or    *)
(* none, and files of other programs: 24 and 32 bits, with a gap after the *)
(* header, from top to bottom, and such as load_bmp refuses.               *)
(***************************************************************************)
EXTENDS Picture

CONSTANTS red, blue

Sizes == {[width |-> 1, height |-> 2], [width |-> 3, height |-> 1]}

Screens ==
  {[width |-> 2, height |-> 2, pitch |-> 12], [width |-> 1, height |-> 1, pitch |-> 4]}

\* A picture in which each byte is another one.
Numbered(w, h, bits) ==
  [width |-> w, height |-> h,
   at |-> [p \in (0..w - 1) \X (0..h - 1) |->
             [k \in 1..4 |-> IF k = 4 /\ bits = 24 THEN Opaque
                             ELSE <<1 + p[1] + w * p[2], k - 1>>]]]

\* Its file: rows from the bottom up, each filled up to a multiple of four.
BmpOf(pic, bits, gap) ==
  LET depth == bits \div 8
      header == [type |-> "BM", width |-> pic.width, height |-> pic.height,
                 bits |-> bits, compression |-> 0, offset |-> gap]
      stride == Stride(header)
      At(j) == IF j < 0 \/ j % stride >= pic.width * depth THEN Padding
                 ELSE pic.at[(j % stride) \div depth,
                             pic.height - 1 - j \div stride][1 + ((j % stride) % depth)]
  IN [header |-> header,
      bytes |-> [i \in 1..gap + stride * pic.height |-> At(i - 1 - gap)]]

Good(w, h, bits, gap) ==
  [file |-> BmpOf(Numbered(w, h, bits), bits, gap),
   picture |-> Numbered(w, h, bits), complete |-> TRUE]

\* The same file with another header.
Bad(header) ==
  LET g == Good(2, 2, 24, 0)
  IN [g EXCEPT !.file.header = header, !.complete = FALSE]

BadHeaders ==
  LET h == Good(2, 2, 24, 0).file.header
  IN {[h EXCEPT !.type = "other"], [h EXCEPT !.bits = 8],
      [h EXCEPT !.compression = 1], [h EXCEPT !.height = -2]}

Absent == [file |-> Empty, picture |-> Numbered(1, 1, 24), complete |-> FALSE]

Files ==
  {Good(2, 2, 24, 0), Good(3, 1, 24, 4), Good(1, 3, 32, 0), Absent}
    \cup {Bad(h) : h \in BadHeaders}

=============================================================================
