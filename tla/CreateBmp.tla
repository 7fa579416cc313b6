----------------------------- MODULE CreateBmp -----------------------------
(***************************************************************************)
(* hextool_basetools/jni/create_bmp.c: write a picture of one colour.  No  *)
(* result of fwrite or fclose is looked at.  What stdio holds reaches the  *)
(* file at any time until fclose, or is lost: the disk is full, or the     *)
(* process is killed.                                                      *)
(*                                                                         *)
(* A file is a header and the bytes after it.  A byte is a pair, of the    *)
(* colour it belongs to and its place in the pixel: blue, green, red,      *)
(* alpha.  The sizes are far from the limits of int.                       *)
(***************************************************************************)
EXTENDS Integers, Sequences

CONSTANTS
  Colour,   \* the colours asked for
  Size,     \* the sizes asked for: records of width and height, positive
  Foreign,  \* what may be there before: file, picture, complete
  Chunk,    \* the most bytes stdio writes at once
  MaxRuns   \* bound on the number of runs

NoHeader == [type |-> "none"]
Headers ==
  {NoHeader} \cup [type : {"BM", "other"}, width : Nat \ {0}, height : Int \ {0},
                 bits : Nat, compression : Nat, offset : Nat]

Byte == (Colour \cup Nat) \X Nat

IsFile(f) == /\ f = [header |-> f.header, bytes |-> f.bytes]
             /\ f.header \in Headers
             /\ f.bytes \in Seq(Byte)

ASSUME CreateAssumption ==
  /\ \A f \in Foreign : IsFile(f.file)
  /\ Size \subseteq [width : Nat \ {0}, height : Nat \ {0}]
  /\ Chunk \in Nat \ {0}
  /\ MaxRuns \in Nat

VARIABLES
  file,          \* the header and the bytes on the disk
  wpc,           \* where create_bmp is
  args,          \* its arguments
  line,          \* y of the loop over the rows
  pending,       \* the header and the bytes that stdio holds
  drawn,         \* history: the picture, and whether the file has all of it
  runs           \* number of runs, for the bound

createVars == <<file, wpc, args, line, pending, drawn, runs>>

Empty == [header |-> NoHeader, bytes |-> <<>>]

Padding == <<0, 0>>
Opaque == <<255, 255>>

\* The header that create_bmp makes; offset is counted from its end.
Header(w, h) ==
  [type |-> "BM", width |-> w, height |-> h, bits |-> 24, compression |-> 0,
   offset |-> 0]

\* Mutant of row_size: rows are not aligned.
row_size_Packed(w) == w * 3

\* (width * 3 + 3) & ~3
row_size(w) == ((w * 3 + 3) \div 4) * 4

Row(w, c) ==
  [i \in 1..row_size(w) |-> IF i <= w * 3 THEN <<c, (i - 1) % 3>> ELSE Padding]

\* A picture: its size and the four bytes of each pixel, (0, 0) top left.
Plain(w, h, c) ==
  [width |-> w, height |-> h,
   at |-> [p \in (0..w - 1) \X (0..h - 1) |->
             <<<<c, 0>>, <<c, 1>>, <<c, 2>>, Opaque>>]]

CreateInit ==
  /\ \E f \in Foreign :
       /\ file = f.file
       /\ drawn = [picture |-> f.picture, complete |-> f.complete]
  /\ wpc = "idle"
  /\ args \in {[width |-> s.width, height |-> s.height, colour |-> c] :
                 s \in Size, c \in Colour}
  /\ line = 0
  /\ pending = Empty
  /\ runs = 0

\* The file is truncated; the headers go to stdio.
Fopen ==
  /\ wpc = "idle"
  /\ runs < MaxRuns
  /\ runs' = runs + 1
  /\ \E s \in Size, c \in Colour :
       /\ args' = [width |-> s.width, height |-> s.height, colour |-> c]
       /\ line' = s.height - 1
       /\ pending' = [header |-> Header(s.width, s.height), bytes |-> <<>>]
       /\ drawn' = [picture |-> Plain(s.width, s.height, c), complete |-> FALSE]
  /\ file' = Empty
  /\ wpc' = "malloc"

\* The row is made, if there is memory.
Malloc ==
  /\ wpc = "malloc"
  /\ wpc' \in {"rows", "fclose"}
  /\ UNCHANGED <<file, args, line, pending, drawn, runs>>

WriteRow ==
  /\ wpc = "rows"
  /\ pending' = [pending EXCEPT !.bytes = @ \o Row(args.width, args.colour)]
  /\ line' = line - 1
  /\ wpc' = IF line' >= 0 THEN "rows" ELSE "fclose"
  /\ UNCHANGED <<file, args, drawn, runs>>

\* A lost header leaves a file that begins with pixels: no header either.
FlushHeader ==
  /\ pending.header # NoHeader
  /\ file' \in {[file EXCEPT !.header = pending.header], file}
  /\ pending' = [pending EXCEPT !.header = NoHeader]
  /\ UNCHANGED <<wpc, args, line, drawn, runs>>

\* A chunk, of which n bytes can be written; the others are lost.
Flush ==
  /\ pending.header = NoHeader
  /\ pending.bytes # <<>>
  /\ LET size == IF Len(pending.bytes) < Chunk THEN Len(pending.bytes) ELSE Chunk
     IN /\ \E n \in 0..size :
             file' = [file EXCEPT !.bytes = @ \o SubSeq(pending.bytes, 1, n)]
        /\ pending' = [pending EXCEPT
                         !.bytes = SubSeq(@, size + 1, Len(@))]
  /\ UNCHANGED <<wpc, args, line, drawn, runs>>

\* The file has the header and the rows, whatever happened on the way.
Written ==
  /\ file.header = Header(args.width, args.height)
  /\ Len(file.bytes) = args.height * row_size(args.width)

\* Nothing is held any more: the end, with the message that it is generated.
Fclose ==
  /\ wpc = "fclose"
  /\ pending = Empty
  /\ drawn' = [drawn EXCEPT !.complete = Written]
  /\ wpc' = "idle"
  /\ UNCHANGED <<file, args, line, pending, runs>>

Killed ==
  /\ wpc # "idle"
  /\ pending' = Empty
  /\ wpc' = "idle"
  /\ UNCHANGED <<file, args, line, drawn, runs>>

CreateStep ==
  Fopen \/ Malloc \/ WriteRow \/ FlushHeader \/ Flush \/ Fclose \/ Killed

=============================================================================
