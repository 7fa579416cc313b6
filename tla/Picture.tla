------------------------------ MODULE Picture ------------------------------
(***************************************************************************)
(* What drm_displaybmp does with the pixels (drm_useADDFB.cpp): load_bmp   *)
(* and the copy to the dumb buffer, while create_bmp may be writing the    *)
(* same file.  A row is read at once; nothing keeps create_bmp from        *)
(* starting anew between two rows.                                         *)
(*                                                                         *)
(* Left out: read errors other than the end of the file, pictures without  *)
(* rows or columns, and sizes whose products leave the range of int.       *)
(***************************************************************************)
EXTENDS CreateBmp

CONSTANT Screen  \* modes and what the kernel makes of them: width, height, pitch

ASSUME ScreenAssumption ==
  /\ Screen \subseteq [width : Nat, height : Nat, pitch : Nat]
  /\ \A s \in Screen : s.pitch >= s.width * 4

Supported(h) ==
  /\ h.type = "BM"
  /\ h.bits \in {24, 32}
  /\ h.compression = 0

\* The offsets below n; none if n is negative.
Offset(n) == 0..n - 1

(* What the format says of a file with such a header: rows from the bottom *)
(* up, each filled up to a multiple of four bytes.                         *)
Depth(h) == h.bits \div 8
Stride(h) ==
  CHOOSE s \in h.width * Depth(h)..h.width * Depth(h) + 3 : s % 4 = 0

Whole(f) ==
  /\ Supported(f.header) /\ f.header.height > 0
  /\ f.header.offset + f.header.height * Stride(f.header) <= Len(f.bytes)

Holds(f, p) ==
  LET h == f.header
      First(x, y) == h.offset + (h.height - 1 - y) * Stride(h) + x * Depth(h)
  IN /\ p.width = h.width /\ p.height = h.height
     /\ \A x \in Offset(h.width), y \in Offset(h.height), k \in Offset(4) :
          p.at[<<x, y>>][k + 1] = IF k < Depth(h) THEN f.bytes[First(x, y) + k + 1]
                              ELSE Opaque

ASSUME ForeignAssumption ==
  \A f \in Foreign : /\ Whole(f.file) => Holds(f.file, f.picture)
                     /\ f.complete => Whole(f.file)

VARIABLES
  pc,       \* where the program is
  hdr,      \* the header that was read
  src_y,    \* the row that is read next, height - 1 - y
  src,      \* src_data
  data,     \* bmp.data
  screen,   \* the mode and the pitch
  fb,       \* the dumb buffer
  opened,   \* history: drawn, when the file was opened
  clean     \* history: the file was not truncated while it was loaded

viewVars == <<pc, hdr, src_y, src, data, screen, fb, opened, clean>>
vars == <<createVars, viewVars>>

Zeroed(n) == [i \in Offset(n) |-> Padding]

Init ==
  /\ CreateInit
  /\ pc = "start"
  /\ hdr = NoHeader
  /\ src_y = 0
  /\ src = <<>>
  /\ data = <<>>
  /\ screen \in Screen
  /\ fb = <<>>
  /\ opened = drawn
  /\ clean = TRUE

-----------------------------------------------------------------------------
\* Mutant of src_row_size: rows are not aligned.
src_row_size_Packed(h) == (h.width * h.bits) \div 8
src_row_size(h) == ((h.width * h.bits + 31) \div 32) * 4

OpenBmp ==
  /\ pc = "start"
  /\ pc' = "header"
  /\ opened' = drawn
  /\ UNCHANGED <<createVars, hdr, src_y, src, data, screen, fb, clean>>

\* No header yet, or not one of a picture that can be shown.  A negative
\* height makes the vector too long, an exception nobody catches.
ReadHeader ==
  /\ pc = "header"
  /\ hdr' = file.header
  /\ \/ /\ ~Supported(hdr')
        /\ pc' = "failed"
        /\ UNCHANGED <<src_y, src>>
     \/ /\ Supported(hdr')
        /\ hdr'.height < 0
        /\ pc' = "aborted"
        /\ UNCHANGED <<src_y, src>>
     \/ /\ Supported(hdr')
        /\ hdr'.height > 0
        /\ pc' = "rows"
        /\ src_y' = hdr'.height - 1
        /\ src' = Zeroed(src_row_size(hdr') * hdr'.height)
  /\ UNCHANGED <<createVars, data, screen, fb, opened, clean>>

\* Where the next row begins in the file.
RowStart == hdr.offset + (hdr.height - 1 - src_y) * src_row_size(hdr)

\* BGR becomes BGRX; 32 bits are copied.
Converted(s) ==
  LET bytes == hdr.bits \div 8
  IN [i \in Offset(hdr.width * 4 * hdr.height) |->
        LET y == i \div (hdr.width * 4)
            x == (i % (hdr.width * 4)) \div 4
            k == i % 4
        IN IF k < bytes THEN s[y * src_row_size(hdr) + x * bytes + k]
           ELSE Opaque]

\* Read a row; after the last one, convert.
ReadRow ==
  /\ pc = "rows"
  /\ RowStart + src_row_size(hdr) <= Len(file.bytes)
  /\ src' = [i \in DOMAIN src |->
               IF i \div src_row_size(hdr) = src_y
               THEN file.bytes[RowStart + 1 + (i % src_row_size(hdr))]
               ELSE src[i]]
  /\ src_y' = src_y - 1
  /\ \/ src_y' >= 0 /\ pc' = "rows" /\ UNCHANGED data
     \/ src_y' < 0 /\ pc' = "loaded" /\ data' = Converted(src')
  /\ UNCHANGED <<createVars, hdr, screen, fb, opened, clean>>

\* The file ends within the row.
ReadFails ==
  /\ pc = "rows"
  /\ RowStart + src_row_size(hdr) > Len(file.bytes)
  /\ pc' = "failed"
  /\ UNCHANGED <<createVars, hdr, src_y, src, data, screen, fb, opened, clean>>

Least(a, b) == IF a < b THEN a ELSE b

CopyRows == Least(hdr.height, screen.height)

\* Mutant of CopyStart: the rows of the buffer are not padded.
CopyStart_Packed(y) == y * screen.width * 4
CopyStart(y) == y * screen.pitch

\* The rows are copied, cut to the screen; the kernel has zeroed the buffer.
Copy ==
  /\ pc = "loaded"
  /\ LET copied == Least(hdr.width, screen.width) * 4
         Target == {CopyStart(y) + i : y \in Offset(CopyRows), i \in Offset(copied)}
         Source(j) == CHOOSE s \in Offset(CopyRows) \X Offset(copied) :
                        CopyStart(s[1]) + s[2] = j
     IN fb' = [j \in Offset(screen.pitch * screen.height) \cup Target |->
                 IF j \in Target
                 THEN data[Source(j)[1] * hdr.width * 4 + Source(j)[2]]
                 ELSE Padding]
  /\ pc' = "shown"
  /\ UNCHANGED <<createVars, hdr, src_y, src, data, screen, opened, clean>>

\* create_bmp goes on.  A truncation in the middle of the load is recorded.
Create ==
  /\ CreateStep
  /\ clean' = (clean /\ ~(pc \in {"header", "rows"} /\ runs' > runs))
  /\ UNCHANGED <<pc, hdr, src_y, src, data, screen, fb, opened>>

Terminated ==
  /\ pc \in {"shown", "failed", "aborted"}
  /\ wpc = "idle"
  /\ UNCHANGED vars

Next ==
  \/ OpenBmp \/ ReadHeader \/ ReadRow \/ ReadFails \/ Copy
  \/ Create \/ Terminated

Spec == Init /\ [][Next]_vars

-----------------------------------------------------------------------------
(* Properties.                                                             *)

\* What load_bmp accepts is the whole picture, even if create_bmp is still
\* writing it or has lost a part of it, unless it began another one.
LoadedIsPicture ==
  pc \in {"loaded", "shown"} /\ clean =>
    LET p == opened.picture
    IN /\ p.width = hdr.width /\ p.height = hdr.height
       /\ \A x \in Offset(p.width), y \in Offset(p.height), k \in Offset(4) :
            data[(y * p.width + x) * 4 + k] = p.at[<<x, y>>][k + 1]

\* Nothing is written outside the buffer, and the screen shows the picture from
\* its top left corner, and black around it.
ShownIsPicture ==
  /\ pc = "shown" => DOMAIN fb = Offset(screen.pitch * screen.height)
  /\ pc = "shown" /\ clean =>
       LET p == opened.picture
       IN \A x \in Offset(screen.width), y \in Offset(screen.height) :
            \A k \in Offset(4) :
              fb[y * screen.pitch + x * 4 + k] =
                IF x < p.width /\ y < p.height THEN p.at[<<x, y>>][k + 1] ELSE Padding

\* A picture that was complete when it was opened is not refused.
CompleteIsLoaded ==
  pc \in {"failed", "aborted"} /\ clean => ~opened.complete

=============================================================================
