--------------------------- MODULE PictureProofs ---------------------------
(***************************************************************************)
(* The row arithmetic of create_bmp and of load_bmp for every width, that  *)
(* no pixel is read or written outside its array, and that the screen      *)
(* shows the picture in the file, for every size, screen and loss.         *)
(***************************************************************************)
EXTENDS Picture, SequenceTheorems, TLAPS

\* create_bmp's (width * 3 + 3) & ~3 is the least multiple of four that holds
\* the pixels of a row.
LEMMA RowSizeLeast ==
  ASSUME NEW w \in Nat
  PROVE  /\ row_size(w) \in Nat
         /\ row_size(w) % 4 = 0
         /\ row_size(w) \in w * 3..w * 3 + 3
  BY DEF row_size

\* create_bmp and load_bmp compute the same size of a row of 24-bit pixels.
THEOREM RowSizesAgree ==
  ASSUME NEW w \in Nat, NEW h \in Nat
  PROVE  src_row_size(Header(w, h)) = row_size(w)
<1>1. Header(w, h).width = w /\ Header(w, h).bits = 24
  BY DEF Header
<1>2. (w * 24 + 31) \div 32 = (w * 3 + 3) \div 4
  OBVIOUS
<1> QED
  BY <1>1, <1>2 DEF src_row_size, row_size

-----------------------------------------------------------------------------
(* Places in an array of rows.                                             *)

LEMMA RowMonotone ==
  ASSUME NEW x \in Int, NEW y \in Int, NEW s \in Nat, x <= y
  PROVE  x * s <= y * s
<1>1. (y - x) * s = y * s - x * s /\ x * s \in Int /\ y * s \in Int
  OBVIOUS
<1>2. (y - x) * s >= 0
  OBVIOUS
<1>3. QED
  BY <1>1, <1>2

\* What lies inside a row lies inside the array.
LEMMA RowInside ==
  ASSUME NEW h \in Nat, NEW s \in Nat, NEW y \in Offset(h), NEW i \in Offset(s)
  PROVE  y * s + i \in Offset(h * s)
<1>1. y \in Int /\ y >= 0 /\ y + 1 <= h /\ i \in Int /\ i >= 0 /\ i < s
  BY DEF Offset
<1>2. (y + 1) * s = y * s + s /\ y * s \in Nat /\ h * s \in Nat
  BY <1>1
<1>3. (y + 1) * s <= h * s
  BY <1>1, RowMonotone
<1>4. QED
  BY <1>1, <1>2, <1>3 DEF Offset

\* And the other way round: row and place in the row.
LEMMA RowOf ==
  ASSUME NEW h \in Nat, NEW s \in Nat \ {0}, NEW i \in Offset(h * s)
  PROVE  /\ i \div s \in Offset(h) /\ i % s \in Offset(s)
         /\ i = s * (i \div s) + (i % s)
<1>1. h * s \in Nat
  OBVIOUS
<1>2. i \in Nat /\ i < h * s
  BY <1>1 DEF Offset
<1>3. PICK y \in Int, r \in Int : y = i \div s /\ r = i % s
  BY <1>2
<1>4. y >= 0 /\ r >= 0 /\ r < s /\ i = s * y + r
  BY <1>2, <1>3
<1>5. y * s \in Int /\ s * y = y * s
  BY <1>3
<1>6. ~(h <= y)
  <2>1. h <= y => h * s <= y * s
    BY <1>3, RowMonotone
  <2>2. QED
    BY <1>1, <1>2, <1>4, <1>5, <2>1
<1>7. QED
  BY <1>3, <1>4, <1>6 DEF Offset

\* A row of the file has room for the pixels of the picture.
LEMMA RowHoldsPixels ==
  ASSUME NEW h, h.width \in Nat, h.bits \in {24, 32}
  PROVE  /\ src_row_size(h) \in Nat
         /\ h.width * (h.bits \div 8) <= src_row_size(h)
<1>1. PICK w \in Nat : w = h.width
  OBVIOUS
<1>2. CASE h.bits = 24
  BY <1>1, <1>2 DEF src_row_size
<1>3. CASE h.bits = 32
  BY <1>1, <1>3 DEF src_row_size
<1>4. QED
  BY <1>2, <1>3

-----------------------------------------------------------------------------
(* Nothing is read or written outside.                                     *)

\* The conversion reads inside src_data.
SourceInside ==
  pc = "rows" =>
    \A i \in Offset(hdr.width * 4 * hdr.height) :
      LET y == i \div (hdr.width * 4)
          x == (i % (hdr.width * 4)) \div 4
          k == i % 4
          bytes == hdr.bits \div 8
      IN k < bytes => y * src_row_size(hdr) + x * bytes + k \in DOMAIN src

\* The copy reads inside bmp.data and writes inside the dumb buffer.
CopyInside ==
  pc = "loaded" =>
    \A y \in Offset(CopyRows), i \in Offset(Least(hdr.width, screen.width) * 4) :
      /\ y * hdr.width * 4 + i \in DOMAIN data
      /\ CopyStart(y) + i \in Offset(screen.pitch * screen.height)

\* The buffer stays as large as the kernel made it.
FrameKept == pc = "shown" => DOMAIN fb = Offset(screen.pitch * screen.height)

Loading ==
  /\ Supported(hdr) /\ hdr.height > 0
  /\ pc = "rows" => DOMAIN src = Offset(src_row_size(hdr) * hdr.height)
  /\ pc = "loaded" => DOMAIN data = Offset(hdr.width * 4 * hdr.height)

\* The arguments are of a picture.
ArgsTyped ==
  /\ args.width \in Nat \ {0} /\ args.height \in Nat \ {0}
  /\ args.colour \in Colour

Typed == IsFile(file) /\ IsFile(pending) /\ ArgsTyped

Shape ==
  /\ Typed
  /\ hdr \in Headers /\ screen \in Screen
  /\ pc \in {"rows", "loaded"} => Loading
  /\ FrameKept

LEMMA SupportedTypes ==
  ASSUME hdr \in Headers, Supported(hdr), hdr.height > 0
  PROVE  /\ hdr.width \in Nat \ {0} /\ hdr.height \in Nat \ {0}
         /\ hdr.bits \in {24, 32}
<1>1. hdr # NoHeader
  BY DEF Supported, NoHeader
<1>2. QED
  BY <1>1 DEF Headers, Supported

LEMMA ScreenTypes ==
  ASSUME screen \in Screen
  PROVE  /\ screen.width \in Nat /\ screen.height \in Nat /\ screen.pitch \in Nat
         /\ screen.width * 4 <= screen.pitch
BY ScreenAssumption DEF ScreenAssumption

LEMMA ShapeSource == Shape => SourceInside
<1>1. SUFFICES ASSUME Shape, pc = "rows",
                      NEW i \in Offset(hdr.width * 4 * hdr.height),
                      i % 4 < hdr.bits \div 8
               PROVE  (i \div (hdr.width * 4)) * src_row_size(hdr)
                        + ((i % (hdr.width * 4)) \div 4) * (hdr.bits \div 8)
                        + (i % 4) \in DOMAIN src
  BY DEF SourceInside
<1>2. Supported(hdr) /\ hdr.height > 0
      /\ DOMAIN src = Offset(src_row_size(hdr) * hdr.height)
  BY <1>1 DEF Shape, Loading
<1>3. PICK w \in Nat \ {0}, h \in Nat \ {0}, row \in Nat :
        /\ w = hdr.width /\ h = hdr.height /\ row = src_row_size(hdr)
        /\ w * (hdr.bits \div 8) <= row
  BY <1>1, <1>2, SupportedTypes, RowHoldsPixels DEF Shape
<1>4. PICK b \in {3, 4} : b = hdr.bits \div 8
  BY <1>1, <1>2, SupportedTypes DEF Shape
<1>5. PICK s \in Nat \ {0} : s = w * 4
  OBVIOUS
<1>6. i \in Offset(h * s)
  <2>1. w * 4 * h = h * s
    BY <1>5
  <2>2. QED
    BY <1>1, <1>3, <2>1
<1>7. PICK y \in Offset(h), r \in Offset(s) :
        y = i \div s /\ r = i % s /\ i = s * y + r
  BY <1>6, RowOf
<1>8. PICK x \in Nat, k \in 0..3 : x = r \div 4 /\ r = 4 * x + k
  <2>1. \A n \in Nat : \E x \in Nat, k \in 0..3 : x = n \div 4 /\ n = 4 * x + k
    <3>1. SUFFICES ASSUME NEW n \in Nat
                   PROVE  /\ n \div 4 \in Nat /\ n - 4 * (n \div 4) \in 0..3
      OBVIOUS
    <3>2. QED
      BY Z3
  <2>2. r \in Nat
    BY <1>7 DEF Offset
  <2>3. QED
    BY <2>1, <2>2
<1>9. i % 4 = k
  <2>1. PICK n \in Nat : n = w * y
    BY <1>7 DEF Offset
  <2>2. s * y = 4 * n
    <3>1. \A m \in Nat : (w * 4) * m = 4 * (w * m)
      OBVIOUS
    <3>2. y \in Nat
      BY <1>7 DEF Offset
    <3>3. QED
      BY <1>5, <2>1, <3>1, <3>2
  <2>3. i = 4 * (n + x) + k
    BY <1>7, <1>8, <2>2
  <2>4. QED
    BY <2>1, <2>3, <1>8
<1>10. x * b + k \in Offset(row)
  <2>1. x < w
    BY <1>5, <1>7, <1>8 DEF Offset
  <2>2. k < b /\ w * b <= row
    BY <1>1, <1>3, <1>4, <1>9
  <2>3. CASE b = 3
    BY <1>8, <2>1, <2>2, <2>3 DEF Offset
  <2>4. CASE b = 4
    BY <1>8, <2>1, <2>2, <2>4 DEF Offset
  <2>5. QED
    BY <1>4, <2>3, <2>4
<1>11. y * row + (x * b + k) \in Offset(h * row)
  BY <1>3, <1>7, <1>10, RowInside
<1>12. y * row + (x * b + k) = y * row + x * b + k /\ h * row = row * h
  BY <1>4, <1>7, <1>8 DEF Offset
<1>13. QED
  BY <1>2, <1>3, <1>4, <1>5, <1>7, <1>8, <1>9, <1>11, <1>12

\* A place in the copied rows is one of the buffer, and the least of two
\* sizes is one of them.
LEMMA CopyPlace ==
  ASSUME Shape, pc = "loaded", NEW y \in Offset(CopyRows),
         NEW i \in Offset(Least(hdr.width, screen.width) * 4)
  PROVE  /\ y * hdr.width * 4 + i \in DOMAIN data
         /\ CopyStart(y) + i \in Offset(screen.pitch * screen.height)
<1>1. Supported(hdr) /\ hdr.height > 0
      /\ DOMAIN data = Offset(hdr.width * 4 * hdr.height)
  BY DEF Shape, Loading
<1>2. PICK w \in Nat \ {0}, h \in Nat \ {0} : w = hdr.width /\ h = hdr.height
  BY <1>1, SupportedTypes DEF Shape
<1>3. PICK sw \in Nat, sh \in Nat, p \in Nat :
        /\ sw = screen.width /\ sh = screen.height /\ p = screen.pitch
        /\ sw * 4 <= p
  BY ScreenTypes DEF Shape
<1>4. y \in Offset(h) /\ y \in Offset(sh)
  BY <1>2, <1>3 DEF CopyRows, Least, Offset
<1>5. i \in Offset(w * 4) /\ i \in Offset(p)
  BY <1>2, <1>3 DEF Least, Offset
<1>6. y * (w * 4) + i \in Offset(h * (w * 4))
  BY <1>4, <1>5, RowInside
<1>7. y * p + i \in Offset(sh * p)
  BY <1>3, <1>4, <1>5, RowInside
<1>8. h * (w * 4) = w * 4 * h /\ y * (w * 4) = y * w * 4 /\ sh * p = p * sh
  BY <1>4 DEF Offset
<1>9. QED
  BY <1>1, <1>2, <1>3, <1>6, <1>7, <1>8 DEF CopyStart

LEMMA NoBytes == <<>> \in Seq(Byte) /\ Len(<<>>) = 0
BY EmptySeq

\* A row of create_bmp.
LEMMA RowType ==
  ASSUME NEW w \in Nat \ {0}, NEW c \in Colour
  PROVE  /\ Row(w, c) \in Seq(Byte) /\ Len(Row(w, c)) = row_size(w)
         /\ \A i \in 1..row_size(w) :
              Row(w, c)[i] = IF i <= w * 3 THEN <<c, (i - 1) % 3>> ELSE Padding
<1>1. row_size(w) \in Nat
  BY RowSizeLeast
<1>2. \A i \in 1..row_size(w) : (i - 1) % 3 \in Nat
  OBVIOUS
<1>3. Row(w, c) \in [1..row_size(w) -> Byte]
  BY <1>1, <1>2 DEF Row, Byte, Padding
<1>4. Row(w, c) \in Seq(Byte)
  BY <1>1, <1>3, SeqDef
<1>5. Len(Row(w, c)) = row_size(w)
  BY <1>1, <1>3, <1>4, LenProperties
<1> QED
  BY <1>4, <1>5 DEF Row

LEMMA ShapeInit == Init => Shape
<1>1. SUFFICES ASSUME Init PROVE Shape
  OBVIOUS
<1>2. IsFile(file)
  BY <1>1, CreateAssumption DEF Init, CreateInit, CreateAssumption
<1>3. IsFile(pending)
  BY <1>1, NoBytes DEF Init, CreateInit, Empty, IsFile, Headers
<1>4. ArgsTyped
  <2>1. PICK s \in Size, c \in Colour :
          args = [width |-> s.width, height |-> s.height, colour |-> c]
    BY <1>1 DEF Init, CreateInit
  <2>2. s.width \in Nat \ {0} /\ s.height \in Nat \ {0}
    BY CreateAssumption
  <2>3. QED
    BY <2>1, <2>2 DEF ArgsTyped
<1>5. QED
  BY <1>1, <1>2, <1>3, <1>4 DEF Init, Shape, Typed, FrameKept, Headers

\* A flush carries size bytes out of what is held, and n of them arrive.
LEMMA FlushSplits ==
  ASSUME IsFile(file), IsFile(pending), Flush
  PROVE  /\ IsFile(file)' /\ IsFile(pending)'
         /\ file'.header = file.header /\ pending'.header = pending.header
         /\ \E size, n \in Nat :
              /\ n <= size /\ size <= Len(pending.bytes)
              /\ Len(file'.bytes) = Len(file.bytes) + n
              /\ Len(pending'.bytes) = Len(pending.bytes) - size
              /\ \A i \in 1..Len(file.bytes) : file'.bytes[i] = file.bytes[i]
              /\ \A i \in 1..n :
                   file'.bytes[Len(file.bytes) + i] = pending.bytes[i]
              /\ \A i \in 1..Len(pending.bytes) - size :
                   pending'.bytes[i] = pending.bytes[size + i]
<1>1. PICK size : /\ size = IF Len(pending.bytes) < Chunk THEN Len(pending.bytes) ELSE Chunk
                  /\ \E n \in 0..size :
                       file' = [file EXCEPT !.bytes = @ \o SubSeq(pending.bytes, 1, n)]
                  /\ pending' = [pending EXCEPT !.bytes = SubSeq(@, size + 1, Len(@))]
  BY DEF Flush
<1>2. PICK n \in 0..size :
        file' = [file EXCEPT !.bytes = @ \o SubSeq(pending.bytes, 1, n)]
  BY <1>1
<1>3. PICK F \in Seq(Byte), P \in Seq(Byte), l \in Nat, p \in Nat :
        F = file.bytes /\ P = pending.bytes /\ l = Len(F) /\ p = Len(P)
  BY DEF IsFile
<1>4. size \in Nat /\ size <= p /\ n \in Nat /\ n <= size
  BY <1>1, <1>2, <1>3, CreateAssumption
<1>5. \A i \in 1..p : P[i] \in Byte
  BY <1>3, ElementOfSeq
<1>6. PICK A : A = SubSeq(P, 1, n)
  OBVIOUS
<1>7. A \in Seq(Byte) /\ Len(A) = n /\ \A i \in 1..n : A[i] = P[i]
  <2>1. 1 \in Int /\ n \in Int /\ \A i \in 1..n : P[i] \in Byte
    BY <1>4, <1>5
  <2>2. /\ A \in Seq(Byte)
        /\ Len(A) = IF 1 <= n THEN n - 1 + 1 ELSE 0
        /\ \A i \in 1..n - 1 + 1 : A[i] = P[1 + i - 1]
    BY <1>6, <2>1, SubSeqProperties
  <2> QED
    BY <1>4, <2>2
<1>8. PICK B : B = SubSeq(P, size + 1, p)
  OBVIOUS
<1>9. B \in Seq(Byte) /\ Len(B) = p - size /\ \A i \in 1..p - size : B[i] = P[size + i]
  <2>1. size + 1 \in Int /\ p \in Int /\ \A i \in size + 1..p : P[i] \in Byte
    BY <1>3, <1>4, <1>5
  <2>2. /\ B \in Seq(Byte)
        /\ Len(B) = IF size + 1 <= p THEN p - (size + 1) + 1 ELSE 0
        /\ \A i \in 1..p - (size + 1) + 1 : B[i] = P[(size + 1) + i - 1]
    BY <1>8, <2>1, SubSeqProperties
  <2>3. p - (size + 1) + 1 = p - size /\ \A i \in 1..p - size : (size + 1) + i - 1 = size + i
    BY <1>3, <1>4
  <2> QED
    BY <1>3, <1>4, <2>2, <2>3
<1>10. /\ F \o A \in Seq(Byte) /\ Len(F \o A) = l + n
       /\ \A i \in 1..l : (F \o A)[i] = F[i]
       /\ \A i \in 1..n : (F \o A)[l + i] = A[i]
  <2>1. /\ F \o A \in Seq(Byte) /\ Len(F \o A) = l + n
        /\ \A i \in 1..l + n : (F \o A)[i] = IF i <= l THEN F[i] ELSE A[i - l]
    <3>1. F \in Seq(Byte) /\ A \in Seq(Byte) /\ Len(F) = l /\ Len(A) = n
      BY <1>3, <1>7
    <3> QED
      BY <3>1, ConcatProperties
  <2>2. \A i \in 1..n : l + i \in 1..l + n /\ ~(l + i <= l) /\ l + i - l = i
    BY <1>3, <1>4
  <2>3. \A i \in 1..l : i \in 1..l + n /\ i <= l
    BY <1>3, <1>4
  <2> QED
    BY <2>1, <2>2, <2>3
<1>11. /\ file' = [header |-> file.header, bytes |-> F \o A]
       /\ pending' = [header |-> pending.header, bytes |-> B]
  BY <1>1, <1>2, <1>3, <1>6, <1>8 DEF IsFile
<1>12. IsFile(file)' /\ IsFile(pending)'
  BY <1>9, <1>10, <1>11 DEF IsFile
<1>13. /\ n <= size /\ size <= Len(pending.bytes)
       /\ Len(file'.bytes) = Len(file.bytes) + n
       /\ Len(pending'.bytes) = Len(pending.bytes) - size
       /\ \A i \in 1..Len(file.bytes) : file'.bytes[i] = file.bytes[i]
       /\ \A i \in 1..n : file'.bytes[Len(file.bytes) + i] = pending.bytes[i]
       /\ \A i \in 1..Len(pending.bytes) - size :
            pending'.bytes[i] = pending.bytes[size + i]
  BY <1>3, <1>4, <1>7, <1>9, <1>10, <1>11
<1> QED
  BY <1>4, <1>11, <1>12, <1>13

LEMMA TypedKept ==
  ASSUME Typed, UNCHANGED <<file, pending, args>>
  PROVE  Typed'
BY DEF Typed, IsFile, ArgsTyped

\* Header and bytes make a file.
LEMMA FileOf ==
  ASSUME NEW h \in Headers, NEW b \in Seq(Byte)
  PROVE  IsFile([header |-> h, bytes |-> b])
BY DEF IsFile

LEMMA FileParts ==
  ASSUME NEW f, IsFile(f)
  PROVE  /\ f = [header |-> f.header, bytes |-> f.bytes]
         /\ f.header \in Headers /\ f.bytes \in Seq(Byte)
BY DEF IsFile

LEMMA CreateKeeps ==
  ASSUME Typed, CreateStep
  PROVE  Typed'
<1>1. IsFile(file) /\ IsFile(pending) /\ ArgsTyped
  BY DEF Typed
<1>2. NoHeader \in Headers
  BY DEF Headers
<1>3. IsFile(Empty)
  BY <1>2, NoBytes, FileOf DEF Empty
<1>4. CASE Fopen
  <2>1. PICK s \in Size, c \in Colour :
          /\ args' = [width |-> s.width, height |-> s.height, colour |-> c]
          /\ pending' = [header |-> Header(s.width, s.height), bytes |-> <<>>]
          /\ file' = Empty
    BY <1>4 DEF Fopen
  <2>2. s.width \in Nat \ {0} /\ s.height \in Nat \ {0}
    BY CreateAssumption
  <2>3. Header(s.width, s.height) \in Headers
    BY <2>2 DEF Header, Headers
  <2>4. IsFile(pending')
    BY <2>1, <2>3, NoBytes, FileOf
  <2>5. ArgsTyped'
    BY <2>1, <2>2 DEF ArgsTyped
  <2>6. IsFile(file')
    BY <1>3, <2>1
  <2>7. QED
    BY <2>4, <2>5, <2>6 DEF Typed, IsFile
<1>5. CASE WriteRow
  <2>1. PICK b : b = pending.bytes \o Row(args.width, args.colour)
    OBVIOUS
  <2>2. Row(args.width, args.colour) \in Seq(Byte) /\ pending.bytes \in Seq(Byte)
    BY <1>1, RowType DEF ArgsTyped, IsFile
  <2>3. b \in Seq(Byte)
    BY <2>1, <2>2, ConcatProperties
  <2>4. pending' = [header |-> pending.header, bytes |-> b] /\ UNCHANGED <<file, args>>
    <3>1. pending = [header |-> pending.header, bytes |-> pending.bytes]
      BY <1>1 DEF IsFile
    <3>2. pending' = [pending EXCEPT !.bytes = b] /\ UNCHANGED <<file, args>>
      BY <1>5, <2>1 DEF WriteRow
    <3> QED
      BY <3>1, <3>2
  <2>5. IsFile(pending')
    BY <1>1, <2>3, <2>4, FileOf, FileParts
  <2>6. QED
    BY <1>1, <2>4, <2>5 DEF Typed, IsFile, ArgsTyped
<1>6. CASE FlushHeader
  <2>1. /\ \/ file' = [header |-> pending.header, bytes |-> file.bytes]
           \/ file' = file
        /\ pending' = [header |-> NoHeader, bytes |-> pending.bytes]
        /\ args' = args
    BY <1>1, <1>6, FileParts DEF FlushHeader
  <2>2. IsFile(file') /\ IsFile(pending')
    BY <1>1, <1>2, <2>1, FileOf, FileParts
  <2>3. QED
    BY <1>1, <2>1, <2>2 DEF Typed, IsFile, ArgsTyped
<1>7. CASE Flush
  BY <1>1, <1>7, FlushSplits DEF Typed, Flush, ArgsTyped
<1>8. CASE Malloc \/ Fclose
  BY <1>8, TypedKept DEF Malloc, Fclose
<1>9. CASE Killed
  <2>1. pending' = Empty /\ UNCHANGED <<file, args>>
    BY <1>9 DEF Killed
  <2>2. IsFile(pending')
    BY <1>3, <2>1
  <2>3. QED
    BY <1>1, <2>1, <2>2 DEF Typed, IsFile, ArgsTyped
<1>10. QED
  BY <1>4, <1>5, <1>6, <1>7, <1>8, <1>9 DEF CreateStep

LEMMA ShapeNext == Shape /\ [Next]_vars => Shape'
<1>1. SUFFICES ASSUME Shape, [Next]_vars PROVE Shape'
  OBVIOUS
<1>2. CASE OpenBmp
  BY <1>1, <1>2, TypedKept DEF Shape, OpenBmp, FrameKept, createVars
<1>3. CASE ReadHeader
  <2>1. hdr' \in Headers
    BY <1>1, <1>3 DEF Shape, Typed, IsFile, ReadHeader
  <2>2. \/ Loading' /\ pc' = "rows"
        \/ pc' \in {"failed", "aborted"}
    BY <1>3 DEF ReadHeader, Loading, Zeroed, Supported, src_row_size
  <2>3. QED
    BY <1>1, <1>3, <2>1, <2>2, TypedKept DEF Shape, ReadHeader, FrameKept, createVars
<1>4. CASE ReadRow
  <2>1. Supported(hdr) /\ hdr.height > 0
        /\ DOMAIN src = Offset(src_row_size(hdr) * hdr.height)
    BY <1>1, <1>4 DEF Shape, Loading, ReadRow
  <2>2. DOMAIN src' = DOMAIN src
    BY <1>4 DEF ReadRow
  <2>3. \/ pc' = "rows"
        \/ pc' = "loaded" /\ DOMAIN data' = Offset(hdr.width * 4 * hdr.height)
    BY <1>4 DEF ReadRow, Converted
  <2>4. Loading'
    BY <1>4, <2>1, <2>2, <2>3 DEF ReadRow, Loading, Supported, src_row_size
  <2>5. QED
    BY <1>1, <1>4, <2>3, <2>4, TypedKept DEF Shape, ReadRow, FrameKept, createVars
<1>5. CASE ReadFails
  BY <1>1, <1>5, TypedKept DEF Shape, ReadFails, FrameKept, createVars
<1>6. CASE Copy
  <2>1. {CopyStart(y) + i : y \in Offset(CopyRows),
                            i \in Offset(Least(hdr.width, screen.width) * 4)}
          \subseteq Offset(screen.pitch * screen.height)
    BY <1>1, <1>6, CopyPlace DEF Copy
  <2>2. DOMAIN fb' = Offset(screen.pitch * screen.height)
    BY <1>6, <2>1 DEF Copy
  <2>3. QED
    BY <1>1, <1>6, <2>2, TypedKept DEF Shape, Copy, FrameKept, createVars
<1>7. CASE Create
  <2>1. Typed'
    BY <1>1, <1>7, CreateKeeps DEF Shape, Create
  <2>2. QED
    BY <1>1, <1>7, <2>1
       DEF Shape, Create, Loading, FrameKept, Supported, src_row_size
<1>8. CASE UNCHANGED vars
  BY <1>1, <1>8, TypedKept DEF Shape, Loading, FrameKept, Supported, src_row_size,
     vars, createVars, viewVars
<1>9. QED
  BY <1>1, <1>2, <1>3, <1>4, <1>5, <1>6, <1>7, <1>8 DEF Next, Terminated

\* For every picture, padding and screen, also while create_bmp changes the
\* file: the conversion reads inside the vector that was read, and the copy
\* reads inside the picture and writes inside the dumb buffer.
THEOREM CopiesInside == Spec => [](SourceInside /\ CopyInside /\ FrameKept)
<1>1. Shape => SourceInside /\ CopyInside /\ FrameKept
  BY ShapeSource, CopyPlace DEF CopyInside, Shape
<1>2. QED
  BY ShapeInit, ShapeNext, <1>1, PTL DEF Spec

-----------------------------------------------------------------------------
(* More of rows and places.                                                *)

\* The place of i in row x; it determines the row and the place in the row.
Place(s, x, i) == x * s + i

LEMMA RowUnique ==
  ASSUME NEW s \in Nat, NEW x \in Int, NEW y \in Int,
         NEW i \in Offset(s), NEW j \in Offset(s),
         Place(s, x, i) = Place(s, y, j)
  PROVE  x = y /\ i = j
<1>1. i \in Nat /\ i < s /\ j \in Nat /\ j < s
  BY DEF Offset
<1>2. PICK a \in Int, b \in Int : a = x * s /\ b = y * s
  OBVIOUS
<1>3. (x + 1) * s = a + s /\ (y + 1) * s = b + s
  BY <1>2
<1>4. ~(x < y)
  <2>1. x < y => (x + 1) * s <= y * s
    BY RowMonotone
  <2> QED
    BY <1>1, <1>2, <1>3, <2>1 DEF Place
<1>5. ~(y < x)
  <2>1. y < x => (y + 1) * s <= x * s
    BY RowMonotone
  <2> QED
    BY <1>1, <1>2, <1>3, <2>1 DEF Place
<1>6. x = y
  BY <1>4, <1>5
<1> QED
  BY <1>1, <1>2, <1>6 DEF Place

LEMMA RowAndPlace ==
  ASSUME NEW s \in Nat \ {0}, NEW y \in Nat, NEW i \in Offset(s)
  PROVE  Place(s, y, i) \div s = y /\ Place(s, y, i) % s = i
<1>1. i \in Nat /\ i < s
  BY DEF Offset
<1>2. PICK n \in Nat : n = y * s + i
  BY <1>1
<1>3. PICK d \in Int, r \in Int : d = n \div s /\ r = n % s
  BY <1>2
<1>4. r >= 0 /\ r < s /\ n = s * d + r
  BY <1>2, <1>3
<1>5. s * d = d * s /\ r \in Offset(s)
  BY <1>3, <1>4 DEF Offset
<1>6. Place(s, d, r) = Place(s, y, i)
  BY <1>2, <1>4, <1>5 DEF Place
<1>7. d = y /\ r = i
  BY <1>3, <1>5, <1>6, RowUnique
<1>8. n = Place(s, y, i)
  BY <1>2 DEF Place
<1> QED
  BY <1>3, <1>7, <1>8

\* load_bmp's rows are those of the format, and so are create_bmp's.
LEMMA StrideIs ==
  ASSUME NEW h, h.width \in Nat \ {0}, h.bits \in {24, 32}
  PROVE  /\ Stride(h) = src_row_size(h)
         /\ Depth(h) \in {3, 4} /\ Depth(h) = h.bits \div 8
         /\ h.width * Depth(h) <= src_row_size(h)
         /\ src_row_size(h) \in Nat \ {0}
<1>1. PICK w \in Nat \ {0}, d \in {3, 4}, n \in Nat :
        /\ w = h.width /\ d = Depth(h) /\ n = w * d /\ d = h.bits \div 8
        /\ h.bits = 8 * d
  BY DEF Depth
<1>2. src_row_size(h) \in n..n + 3 /\ src_row_size(h) % 4 = 0
  <2>1. CASE d = 3
    BY <1>1, <2>1 DEF src_row_size
  <2>2. CASE d = 4
    BY <1>1, <2>2 DEF src_row_size
  <2> QED
    BY <2>1, <2>2
<1>3. ASSUME NEW s \in n..n + 3, NEW t \in n..n + 3, s % 4 = 0, t % 4 = 0
      PROVE  s = t
  BY <1>3
<1>4. Stride(h) = CHOOSE s \in n..n + 3 : s % 4 = 0
  BY <1>1 DEF Stride
<1>5. Stride(h) \in n..n + 3 /\ Stride(h) % 4 = 0
  BY <1>2, <1>4
<1>6. Stride(h) = src_row_size(h)
  BY <1>2, <1>3, <1>5
<1>7. n > 0
  <2>1. CASE d = 3
    BY <1>1, <2>1
  <2>2. CASE d = 4
    BY <1>1, <2>2
  <2> QED
    BY <2>1, <2>2
<1> QED
  BY <1>1, <1>2, <1>6, <1>7

\* The header of create_bmp, seen by load_bmp.
LEMMA HeaderIs ==
  ASSUME NEW w \in Nat \ {0}, NEW h \in Nat \ {0}
  PROVE  LET header == Header(w, h)
         IN /\ Supported(header) /\ header.height = h /\ header.width = w
            /\ header.offset = 0 /\ Depth(header) = 3
            /\ Stride(header) = row_size(w)
            /\ row_size(w) \in Nat \ {0} /\ w * 3 <= row_size(w)
<1> DEFINE header == Header(w, h)
<1>1. /\ header.type = "BM" /\ header.bits = 24 /\ header.compression = 0
      /\ header.height = h /\ header.width = w /\ header.offset = 0
  BY DEF Header
<1>2. src_row_size(header) = row_size(w)
  BY RowSizesAgree
<1> HIDE DEF header
<1>3. Depth(header) = 3 /\ Supported(header)
  BY <1>1 DEF Depth, Supported
<1>4. Stride(header) = row_size(w)
  BY <1>1, <1>2, StrideIs
<1>5. row_size(w) \in Nat \ {0} /\ w * 3 <= row_size(w)
  BY RowSizeLeast
<1> QED
  BY <1>1, <1>3, <1>4, <1>5 DEF header

-----------------------------------------------------------------------------
(* create_bmp.  A byte that is lost makes the file too short for good: it  *)
(* is whole only when nothing was lost and everything is written.          *)

\* Byte i of what create_bmp writes after the header.
RowByte(i) ==
  Row(args.width, args.colour)[((i - 1) % row_size(args.width)) + 1]

\* The file, and then what stdio holds, are all it has written so far.
AllThere ==
  /\ \A i \in 1..Len(file.bytes) : file.bytes[i] = RowByte(i)
  /\ \A i \in 1..Len(pending.bytes) :
       pending.bytes[i] = RowByte(Len(file.bytes) + i)

Drawing ==
  LET made == (args.height - 1 - line) * row_size(args.width)
      there == Len(file.bytes) + Len(pending.bytes)
  IN /\ line \in -1..args.height - 1
     /\ wpc \in {"malloc", "rows"} => line >= 0
     /\ drawn.picture = Plain(args.width, args.height, args.colour)
     /\ file.header \in {NoHeader, Header(args.width, args.height)}
     /\ pending.header \in {NoHeader, Header(args.width, args.height)}
     /\ there <= made
     /\ there = made => AllThere

Creating ==
  /\ runs \in Nat
  /\ drawn = [picture |-> drawn.picture, complete |-> drawn.complete]
  /\ drawn.complete => wpc = "idle" /\ Whole(file)
  /\ wpc = "idle" => pending = Empty
  /\ file.header # NoHeader => pending.header = NoHeader
  /\ runs = 0 => wpc = "idle" /\ (Whole(file) => Holds(file, drawn.picture))
  /\ runs # 0 => Drawing

\* Nothing can be shown of a file without a header.
LEMMA NoHeaderUnsupported == ~Supported(NoHeader)
BY DEF Supported, NoHeader

LEMMA CreatingInit == Init => Creating
<1> SUFFICES ASSUME Init PROVE Creating
  OBVIOUS
<1>1. PICK f \in Foreign :
        /\ file = f.file
        /\ drawn = [picture |-> f.picture, complete |-> f.complete]
  BY DEF Init, CreateInit
<1>2. Whole(file) => Holds(file, drawn.picture)
  BY <1>1, ForeignAssumption
<1>3. drawn.complete => Whole(file)
  BY <1>1, ForeignAssumption
<1> QED
  BY <1>1, <1>2, <1>3 DEF Init, CreateInit, Creating, Empty

\* A file of create_bmp that load_bmp would accept has every row.
LEMMA WholeHolds ==
  ASSUME Typed, Creating, Whole(file)
  PROVE  Holds(file, drawn.picture)
<1>1. CASE runs = 0
  BY <1>1 DEF Creating
<1>2. CASE runs # 0
  <2>1. PICK w \in Nat \ {0}, h \in Nat \ {0}, c \in Colour, rs \in Nat \ {0} :
          /\ w = args.width /\ h = args.height /\ c = args.colour
          /\ rs = row_size(w) /\ w * 3 <= rs
    BY HeaderIs DEF Typed, ArgsTyped
  <2>2. /\ Drawing /\ file.header = Header(w, h)
        /\ drawn.picture = Plain(w, h, c)
    <3>1. Drawing
      BY <1>2 DEF Creating
    <3>2. file.header # NoHeader
      BY NoHeaderUnsupported DEF Whole
    <3> QED
      BY <2>1, <3>1, <3>2 DEF Drawing
  <2>3. /\ file.header.height = h /\ file.header.width = w
        /\ file.header.offset = 0 /\ Depth(file.header) = 3
        /\ Stride(file.header) = rs
    <3>1. /\ Header(w, h).height = h /\ Header(w, h).width = w
          /\ Header(w, h).offset = 0 /\ Depth(Header(w, h)) = 3
          /\ Stride(Header(w, h)) = row_size(w)
      BY HeaderIs
    <3> QED
      BY <2>1, <2>2, <3>1
  <2>4. PICK F \in Seq(Byte), l \in Nat, p \in Nat, m \in Int :
          /\ F = file.bytes /\ l = Len(F) /\ p = Len(pending.bytes)
          /\ m = h - 1 - line
    <3>1. file.bytes \in Seq(Byte) /\ pending.bytes \in Seq(Byte) /\ line \in Int
      BY <2>1, <2>2 DEF Typed, IsFile, Drawing
    <3> QED
      BY <2>1, <3>1
  <2>5. PICK made \in Int, all \in Int :
          made = m * rs /\ all = h * rs /\ made <= all
    <3>1. m <= h
      BY <2>1, <2>2, <2>4 DEF Drawing
    <3>2. m * rs <= h * rs
      BY <3>1, RowMonotone
    <3> QED
      BY <3>2
  <2>6. l = h * rs /\ \A i \in 1..l : F[i] = RowByte(i)
    <3>1. all <= l
      BY <2>3, <2>4, <2>5 DEF Whole
    <3>2. l + p <= made /\ (l + p = made => AllThere)
      BY <2>1, <2>2, <2>4, <2>5 DEF Drawing
    <3>3. l + p = made /\ l = all
      BY <2>5, <3>1, <3>2
    <3> QED
      BY <2>4, <2>5, <3>2, <3>3 DEF AllThere
  <2>7. ASSUME NEW x \in Offset(w), NEW y \in Offset(h), NEW k \in Offset(4)
        PROVE  drawn.picture.at[<<x, y>>][k + 1] =
                 IF k < 3 THEN F[0 + (h - 1 - y) * rs + x * 3 + k + 1]
                 ELSE Opaque
    <3>1. /\ x \in Nat /\ x < w /\ y \in Nat /\ y < h /\ k \in 0..3
          /\ h - 1 - y \in Offset(h)
      BY DEF Offset
    <3>2. drawn.picture.at[<<x, y>>] = <<<<c, 0>>, <<c, 1>>, <<c, 2>>, Opaque>>
      <4>1. <<x, y>> \in (0..w - 1) \X (0..h - 1)
        BY <3>1
      <4> QED
        BY <2>2, <4>1 DEF Plain
    <3>3. CASE k = 3
      BY <3>2, <3>3
    <3>4. CASE k # 3
      <4>1. PICK r \in Offset(h), q \in Offset(rs) :
              r = h - 1 - y /\ q = x * 3 + k /\ q < w * 3
        <5>1. w * 3 <= rs
          BY <2>1
        <5>2. x * 3 + k \in Nat /\ x * 3 + k < w * 3
          BY <3>1, <3>4
        <5>3. x * 3 + k \in Offset(rs)
          BY <5>1, <5>2 DEF Offset
        <5> QED
          BY <3>1, <5>2, <5>3
      <4>2. r * rs + q \in Offset(h * rs)
        BY <4>1, RowInside
      <4>3. PICK i \in Nat : i = r * rs + q + 1
        BY <4>1 DEF Offset
      <4>4. i \in 1..l /\ i - 1 = r * rs + q
        BY <2>6, <4>1, <4>2, <4>3 DEF Offset
      <4>5. F[i] = Row(w, c)[((i - 1) % rs) + 1]
        BY <2>1, <2>6, <4>4 DEF RowByte
      <4>6. (i - 1) % rs = q
        <5>1. r \in Nat
          BY <4>1 DEF Offset
        <5>2. Place(rs, r, q) % rs = q
          BY <4>1, <5>1, RowAndPlace
        <5>3. Place(rs, r, q) = r * rs + q
          BY DEF Place
        <5> QED
          BY <4>4, <5>2, <5>3
      <4>7. Row(w, c)[q + 1] = <<c, q % 3>>
        <5>1. q \in Int /\ q + 1 \in 1..rs /\ q + 1 <= w * 3
          BY <4>1 DEF Offset
        <5>2. \A j \in 1..rs :
                Row(w, c)[j] = IF j <= w * 3 THEN <<c, (j - 1) % 3>> ELSE Padding
          BY <2>1, RowType
        <5>3. PICK j \in 1..rs : j = q + 1 /\ j - 1 = q
          BY <5>1
        <5> QED
          BY <5>1, <5>2, <5>3
      <4>8. q % 3 = k
        BY <3>1, <3>4, <4>1
      <4>9. drawn.picture.at[<<x, y>>][k + 1] = <<c, k>>
        BY <3>1, <3>2, <3>4
      <4>10. 0 + (h - 1 - y) * rs + x * 3 + k + 1 = i /\ k < 3
        BY <3>1, <3>4, <4>1, <4>3
      <4> QED
        BY <4>5, <4>6, <4>7, <4>8, <4>9, <4>10
    <3> QED
      BY <3>3, <3>4
  <2>8. drawn.picture.width = w /\ drawn.picture.height = h
    BY <2>2 DEF Plain
  <2> QED
    BY <2>3, <2>4, <2>7, <2>8 DEF Holds
<1> QED
  BY <1>1, <1>2

LEMMA BytesTyped ==
  ASSUME Typed
  PROVE  /\ Len(file.bytes) \in Nat /\ Len(pending.bytes) \in Nat
         /\ file.bytes \in Seq(Byte) /\ pending.bytes \in Seq(Byte)
         /\ args.width \in Nat \ {0} /\ args.height \in Nat \ {0}
         /\ args.colour \in Colour
         /\ row_size(args.width) \in Nat \ {0}
<1>1. file.bytes \in Seq(Byte) /\ pending.bytes \in Seq(Byte)
  BY DEF Typed, IsFile
<1>2. /\ args.width \in Nat \ {0} /\ args.height \in Nat \ {0}
      /\ args.colour \in Colour
  BY DEF Typed, ArgsTyped
<1>3. row_size(args.width) \in Nat \ {0}
  BY <1>2, HeaderIs
<1> QED
  BY <1>1, <1>2, <1>3, LenProperties

\* While create_bmp runs, the file is the one that it is drawing.
LEMMA WhileItRuns ==
  ASSUME Creating, wpc # "idle"
  PROVE  runs # 0 /\ Drawing /\ ~drawn.complete
BY DEF Creating

LEMMA FopenStep == ASSUME Typed, Creating, Fopen PROVE Creating'
<1>1. PICK s \in Size, c \in Colour :
        /\ args' = [width |-> s.width, height |-> s.height, colour |-> c]
        /\ line' = s.height - 1
        /\ pending' = [header |-> Header(s.width, s.height), bytes |-> <<>>]
        /\ drawn' = [picture |-> Plain(s.width, s.height, c), complete |-> FALSE]
  BY DEF Fopen
<1>2. PICK w \in Nat \ {0}, h \in Nat \ {0} : w = s.width /\ h = s.height
  BY CreateAssumption
<1>3. /\ args'.width = w /\ args'.height = h /\ args'.colour = c
      /\ line' = h - 1 /\ wpc' = "malloc"
      /\ file'.header = NoHeader /\ file'.bytes = <<>>
      /\ pending'.header = Header(w, h) /\ pending'.bytes = <<>>
      /\ drawn'.picture = Plain(w, h, c) /\ drawn'.complete = FALSE
      /\ drawn' = [picture |-> drawn'.picture, complete |-> drawn'.complete]
      /\ runs' = runs + 1
  BY <1>1, <1>2 DEF Fopen, Empty
<1>4. AllThere'
  BY <1>3, NoBytes DEF AllThere
<1>5. Drawing'
  <2>1. row_size(w) \in Nat
    BY HeaderIs
  <2>2. (h - 1 - (h - 1)) * row_size(w) = 0
    BY <2>1
  <2>3. h - 1 \in -1..h - 1 /\ h - 1 >= 0
    OBVIOUS
  <2> QED
    BY <1>3, <1>4, <2>2, <2>3, NoBytes DEF Drawing
<1>6. runs' \in Nat /\ runs' # 0
  BY <1>3 DEF Creating
<1> QED
  BY <1>3, <1>5, <1>6 DEF Creating

LEMMA MallocStep == ASSUME Typed, Creating, Malloc PROVE Creating'
<1>1. wpc # "idle" /\ wpc' \in {"rows", "fclose"}
      /\ UNCHANGED <<file, args, line, pending, drawn, runs>>
  BY DEF Malloc
<1>2. runs # 0 /\ Drawing /\ ~drawn.complete
  BY <1>1, WhileItRuns
<1>3. AllThere' = AllThere
  BY <1>1 DEF AllThere, RowByte
<1>4. wpc = "malloc"
  BY DEF Malloc
<1>5. Drawing'
  BY <1>1, <1>2, <1>3, <1>4 DEF Drawing
<1> QED
  BY <1>1, <1>2, <1>5 DEF Creating

LEMMA WriteRowStep == ASSUME Typed, Creating, WriteRow PROVE Creating'
<1>1. PICK w \in Nat \ {0}, h \in Nat \ {0}, c \in Colour, rs \in Nat \ {0} :
        /\ w = args.width /\ h = args.height /\ c = args.colour
        /\ rs = row_size(w)
  BY BytesTyped
<1>2. /\ wpc = "rows" /\ line' = line - 1 /\ wpc' \in {"rows", "fclose"}
      /\ line' < 0 => wpc' = "fclose"
      /\ UNCHANGED <<file, args, drawn, runs>>
  <2>1. Typed /\ line \in Int => line - 1 \in Int
    OBVIOUS
  <2> QED
    BY WhileItRuns DEF WriteRow, Drawing
<1>3. runs # 0 /\ Drawing /\ ~drawn.complete
  BY <1>2, WhileItRuns
<1>4. PICK F \in Seq(Byte), P \in Seq(Byte), l \in Nat, p \in Nat :
        F = file.bytes /\ P = pending.bytes /\ l = Len(F) /\ p = Len(P)
  BY BytesTyped
<1>5. PICK R \in Seq(Byte) :
        R = Row(w, c) /\ Len(R) = rs
  BY <1>1, RowType
<1>6. PICK Q \in Seq(Byte) :
        /\ Q = P \o R /\ Len(Q) = p + rs
        /\ \A i \in 1..p + rs : Q[i] = IF i <= p THEN P[i] ELSE R[i - p]
  <2>1. P \in Seq(Byte) /\ R \in Seq(Byte) /\ Len(P) = p /\ Len(R) = rs
    BY <1>4, <1>5
  <2>2. /\ P \o R \in Seq(Byte) /\ Len(P \o R) = p + rs
        /\ \A i \in 1..p + rs : (P \o R)[i] = IF i <= p THEN P[i] ELSE R[i - p]
    BY <2>1, ConcatProperties
  <2> QED
    BY <2>2
<1>7. pending' = [header |-> pending.header, bytes |-> Q]
  <2>1. pending = [header |-> pending.header, bytes |-> P]
    BY <1>4 DEF Typed, IsFile
  <2>2. pending' = [pending EXCEPT !.bytes = Q]
    BY <1>1, <1>4, <1>5, <1>6 DEF WriteRow
  <2> QED
    BY <2>1, <2>2
<1>8. PICK m \in Nat, made \in Nat :
        /\ m = h - 1 - line /\ made = m * rs
        /\ line \in Int /\ line >= 0 /\ line <= h - 1
        /\ l + p <= made /\ (l + p = made => AllThere)
  <2>1. line \in Int /\ line >= 0 /\ line <= h - 1
    BY <1>1, <1>2, <1>3 DEF Drawing
  <2>2. PICK m \in Nat : m = h - 1 - line
    BY <2>1
  <2>3. PICK made \in Nat : made = m * rs
    OBVIOUS
  <2>4. l + p <= made /\ (l + p = made => AllThere)
    BY <1>1, <1>3, <1>4, <2>2, <2>3 DEF Drawing
  <2> QED
    BY <2>1, <2>2, <2>3, <2>4
<1>9. (h - 1 - line') * rs = made + rs
  <2>1. h - 1 - line' = m + 1
    BY <1>2, <1>8
  <2>2. (m + 1) * rs = m * rs + rs
    OBVIOUS
  <2> QED
    BY <1>8, <2>1, <2>2
<1>10. ASSUME l + p = made PROVE AllThere'
  <2>1. AllThere
    BY <1>8, <1>10
  <2>2. \A i : RowByte(i)' = RowByte(i)
    BY <1>2 DEF RowByte
  <2>3. ASSUME NEW i \in 1..p + rs PROVE Q[i] = RowByte(l + i)
    <3>1. CASE i <= p
      <4>1. i \in 1..p
        BY <3>1
      <4>2. P[i] = RowByte(l + i)
        BY <1>4, <2>1, <4>1 DEF AllThere
      <4> QED
        BY <1>6, <3>1, <4>2
    <3>2. CASE ~(i <= p)
      <4>1. PICK q \in Offset(rs) : q = i - p - 1
        BY <3>2 DEF Offset
      <4>2. l + i - 1 = Place(rs, m, q)
        <5>1. l + i - 1 = m * rs + q
          BY <1>8, <1>10, <4>1
        <5> QED
          BY <5>1 DEF Place
      <4>3. (l + i - 1) % rs = q
        BY <4>2, RowAndPlace
      <4>4. RowByte(l + i) = R[q + 1]
        BY <1>1, <1>5, <4>3 DEF RowByte
      <4>5. q + 1 = i - p
        BY <4>1
      <4> QED
        BY <1>6, <3>2, <4>4, <4>5
    <3> QED
      BY <3>1, <3>2
  <2>4. \A i \in 1..l : F[i] = RowByte(i)
    BY <1>4, <2>1 DEF AllThere
  <2>5. /\ file'.bytes = F /\ Len(F) = l
        /\ pending'.bytes = Q /\ Len(Q) = p + rs
    BY <1>2, <1>4, <1>6, <1>7
  <2> QED
    BY <2>2, <2>3, <2>4, <2>5 DEF AllThere
<1>11. Drawing'
  <2>1. /\ file'.bytes = F /\ Len(F) = l /\ file'.header = file.header
        /\ pending'.bytes = Q /\ Len(Q) = p + rs /\ pending'.header = pending.header
        /\ args' = args /\ drawn' = drawn
    BY <1>2, <1>4, <1>6, <1>7
  <2>2. /\ line' \in -1..h - 1
        /\ wpc' \in {"malloc", "rows"} => line' >= 0
    BY <1>2, <1>8
  <2>3. /\ l + (p + rs) <= made + rs
        /\ l + (p + rs) = made + rs => AllThere'
    BY <1>8, <1>10
  <2> QED
    BY <1>1, <1>3, <1>9, <2>1, <2>2, <2>3 DEF Drawing
<1>12. wpc' # "idle"
  BY <1>2
<1>13. file'.header # NoHeader => pending'.header = NoHeader
  BY <1>2, <1>7 DEF Creating
<1> QED
  BY <1>2, <1>3, <1>11, <1>12, <1>13 DEF Creating

LEMMA FlushHeaderStep == ASSUME Typed, Creating, FlushHeader PROVE Creating'
<1>1. /\ wpc # "idle"
      /\ UNCHANGED <<wpc, args, line, drawn, runs>>
  BY DEF FlushHeader, Creating, Empty
<1>2. runs # 0 /\ Drawing /\ ~drawn.complete
  BY <1>1, WhileItRuns
<1>3. /\ file'.header \in {file.header, pending.header} /\ file'.bytes = file.bytes
      /\ pending'.header = NoHeader /\ pending'.bytes = pending.bytes
  BY FileParts DEF FlushHeader, Typed
<1>4. AllThere' = AllThere
  BY <1>1, <1>3 DEF AllThere, RowByte
<1>5. Drawing'
  <2>1. file'.header \in {NoHeader, Header(args.width, args.height)}
    BY <1>2, <1>3 DEF Drawing
  <2> QED
    BY <1>1, <1>2, <1>3, <1>4, <2>1 DEF Drawing
<1> QED
  BY <1>1, <1>2, <1>3, <1>5 DEF Creating

LEMMA FlushStep == ASSUME Typed, Creating, Flush PROVE Creating'
<1>1. /\ wpc # "idle"
      /\ UNCHANGED <<wpc, args, line, drawn, runs>>
  BY DEF Flush, Creating, Empty
<1>2. runs # 0 /\ Drawing /\ ~drawn.complete
  BY <1>1, WhileItRuns
<1>3. PICK F \in Seq(Byte), P \in Seq(Byte), l \in Nat, p \in Nat :
        F = file.bytes /\ P = pending.bytes /\ l = Len(F) /\ p = Len(P)
  BY BytesTyped
<1>4. PICK size \in Nat, n \in Nat :
        /\ n <= size /\ size <= p
        /\ Len(file'.bytes) = l + n
        /\ Len(pending'.bytes) = p - size
        /\ \A i \in 1..l : file'.bytes[i] = F[i]
        /\ \A i \in 1..n : file'.bytes[l + i] = P[i]
        /\ \A i \in 1..p - size : pending'.bytes[i] = P[size + i]
  <2>1. IsFile(file) /\ IsFile(pending)
    BY DEF Typed
  <2> QED
    BY <1>3, <2>1, FlushSplits
<1>5. file'.header = file.header /\ pending'.header = pending.header
  BY FlushSplits DEF Typed
<1>6. ASSUME n = size, AllThere PROVE AllThere'
  <2>1. \A i : RowByte(i)' = RowByte(i)
    BY <1>1 DEF RowByte
  <2>2. \A i \in 1..p : P[i] = RowByte(l + i)
    BY <1>3, <1>6 DEF AllThere
  <2>3. ASSUME NEW i \in 1..l + n PROVE file'.bytes[i] = RowByte(i)
    <3>1. CASE i <= l
      <4>1. i \in 1..l
        BY <3>1
      <4> QED
        BY <1>3, <1>4, <1>6, <4>1 DEF AllThere
    <3>2. CASE ~(i <= l)
      <4>1. PICK k \in 1..n : k = i - l /\ i = l + k
        BY <3>2
      <4>2. k \in 1..p
        BY <1>4
      <4> QED
        BY <1>4, <2>2, <4>1, <4>2
    <3> QED
      BY <3>1, <3>2
  <2>4. ASSUME NEW i \in 1..p - size PROVE pending'.bytes[i] = RowByte(l + n + i)
    <3>1. PICK k \in 1..p : k = size + i /\ l + k = l + n + i
      BY <1>4, <1>6
    <3> QED
      BY <1>4, <2>2, <3>1
  <2> QED
    BY <1>4, <2>1, <2>3, <2>4 DEF AllThere
<1>7. Drawing'
  <2>1. PICK made \in Int : made = (args.height - 1 - line) * row_size(args.width)
    <3>1. args.height - 1 - line \in Int
      BY <1>2, BytesTyped DEF Drawing
    <3> QED
      BY <3>1, BytesTyped
  <2>2. l + p <= made /\ (l + p = made => AllThere)
    BY <1>2, <1>3, <2>1 DEF Drawing
  <2>3. /\ (l + n) + (p - size) <= made
        /\ (l + n) + (p - size) = made => AllThere'
    BY <1>4, <1>6, <2>2
  <2> QED
    BY <1>1, <1>2, <1>4, <1>5, <2>1, <2>3 DEF Drawing
<1> QED
  BY <1>1, <1>2, <1>5, <1>7 DEF Creating

LEMMA FcloseStep == ASSUME Typed, Creating, Fclose PROVE Creating'
<1>1. /\ wpc # "idle" /\ wpc' = "idle" /\ pending = Empty
      /\ UNCHANGED <<file, args, line, pending, runs>>
  BY DEF Fclose
<1>2. runs # 0 /\ Drawing /\ ~drawn.complete
  BY <1>1, WhileItRuns
<1>3. drawn' = [picture |-> drawn.picture, complete |-> Written]
  BY DEF Fclose, Creating
<1>4. AllThere' = AllThere
  BY <1>1 DEF AllThere, RowByte
<1>5. Drawing'
  BY <1>1, <1>2, <1>3, <1>4 DEF Drawing
<1>6. ASSUME Written PROVE Whole(file)
  <2>1. PICK w \in Nat \ {0}, h \in Nat \ {0} : w = args.width /\ h = args.height
    BY BytesTyped
  <2>2. file.header = Header(w, h) /\ Len(file.bytes) = h * row_size(w)
    BY <1>6, <2>1 DEF Written
  <2>3. /\ Supported(file.header) /\ file.header.height = h
        /\ file.header.offset = 0 /\ Stride(file.header) = row_size(w)
        /\ row_size(w) \in Nat
    <3>1. /\ Supported(Header(w, h)) /\ Header(w, h).height = h
          /\ Header(w, h).offset = 0 /\ Stride(Header(w, h)) = row_size(w)
          /\ row_size(w) \in Nat \ {0}
      BY HeaderIs
    <3> QED
      BY <2>2, <3>1
  <2>4. PICK all \in Nat : all = h * row_size(w)
    BY <2>3
  <2> QED
    BY <2>2, <2>3, <2>4 DEF Whole
<1>7. Whole(file)' = Whole(file)
  BY <1>1 DEF Whole, Supported, Stride, Depth
<1> QED
  BY <1>1, <1>2, <1>3, <1>5, <1>6, <1>7 DEF Creating

LEMMA KilledStep == ASSUME Typed, Creating, Killed PROVE Creating'
<1>1. /\ wpc # "idle" /\ wpc' = "idle" /\ pending' = Empty
      /\ UNCHANGED <<file, args, line, drawn, runs>>
  BY DEF Killed
<1>2. runs # 0 /\ Drawing /\ ~drawn.complete
  BY <1>1, WhileItRuns
<1>3. PICK l \in Nat, p \in Nat : l = Len(file.bytes) /\ p = Len(pending.bytes)
  BY BytesTyped
<1>4. pending'.header = NoHeader /\ pending'.bytes = <<>>
  BY <1>1 DEF Empty
<1>5. AllThere => AllThere'
  BY <1>1, <1>4, NoBytes DEF AllThere, RowByte
<1>6. Drawing'
  <2>1. PICK made \in Int : made = (args.height - 1 - line) * row_size(args.width)
    <3>1. args.height - 1 - line \in Int
      BY <1>2, BytesTyped DEF Drawing
    <3> QED
      BY <3>1, BytesTyped
  <2>2. l + p <= made /\ (l + p = made => AllThere)
    BY <1>2, <1>3, <2>1 DEF Drawing
  <2>3. l + 0 <= made /\ (l + 0 = made => AllThere')
    BY <1>5, <2>2
  <2> QED
    BY <1>1, <1>2, <1>3, <1>4, <2>1, <2>3, NoBytes DEF Drawing
<1> QED
  BY <1>1, <1>2, <1>4, <1>6 DEF Creating

LEMMA CreatingStep == ASSUME Typed, Creating, CreateStep PROVE Creating'
BY FopenStep, MallocStep, WriteRowStep, FlushHeaderStep, FlushStep, FcloseStep,
   KilledStep DEF CreateStep

\* Within a run the file only grows, and the picture that is drawn stays.
LEMMA OnlyGrows ==
  ASSUME Typed, Creating, CreateStep, ~(runs' > runs)
  PROVE  /\ file.header # NoHeader => file'.header = file.header
         /\ Len(file.bytes) \in Nat /\ Len(file'.bytes) \in Nat
         /\ Len(file.bytes) <= Len(file'.bytes)
         /\ \A i \in 1..Len(file.bytes) : file'.bytes[i] = file.bytes[i]
         /\ drawn'.picture = drawn.picture
         /\ drawn.complete => drawn'.complete
<1>1. Len(file.bytes) \in Nat
  BY BytesTyped
<1>2. CASE Fopen
  BY <1>2 DEF Fopen, Creating
<1>3. CASE Malloc \/ WriteRow \/ Killed
  <2>1. file' = file /\ drawn' = drawn
    BY <1>3 DEF Malloc, WriteRow, Killed
  <2> QED
    BY <1>1, <2>1
<1>4. CASE FlushHeader
  BY <1>1, <1>4, FileParts DEF FlushHeader, Creating, Typed
<1>5. CASE Flush
  <2>1. PICK n \in Nat :
          /\ Len(file'.bytes) = Len(file.bytes) + n
          /\ \A i \in 1..Len(file.bytes) : file'.bytes[i] = file.bytes[i]
          /\ file'.header = file.header
    BY <1>5, FlushSplits DEF Typed
  <2>2. drawn' = drawn
    BY <1>5 DEF Flush
  <2> QED
    BY <1>1, <2>1, <2>2
<1>6. CASE Fclose
  <2>1. wpc # "idle" /\ file' = file /\ drawn' = [drawn EXCEPT !.complete = Written]
    BY <1>6 DEF Fclose
  <2>2. drawn'.picture = drawn.picture
    BY <2>1 DEF Creating
  <2> QED
    BY <1>1, <2>1, <2>2, WhileItRuns
<1> QED
  BY <1>2, <1>3, <1>4, <1>5, <1>6 DEF CreateStep

-----------------------------------------------------------------------------
(* load_bmp.  The rows that were read are those of the file, which only    *)
(* grows while it is not truncated.                                        *)

\* Where row r of the picture begins in the file.
Start(r) == hdr.offset + (hdr.height - 1 - r) * src_row_size(hdr)

RowsFrom(n) ==
  \A r \in n..hdr.height - 1 :
    /\ Start(r) + src_row_size(hdr) <= Len(file.bytes)
    /\ \A j \in Offset(src_row_size(hdr)) :
         src[r * src_row_size(hdr) + j] = file.bytes[Start(r) + j + 1]

RowsRead == src_y \in Offset(hdr.height) /\ RowsFrom(src_y + 1)

Viewing ==
  /\ pc \in {"header", "rows"} /\ clean =>
       /\ opened.picture = drawn.picture
       /\ opened.complete => drawn.complete
  /\ pc = "rows" /\ clean => file.header = hdr /\ RowsRead
  /\ LoadedIsPicture /\ ShownIsPicture /\ CompleteIsLoaded

Loaded == Shape /\ Creating /\ Viewing

LEMMA ViewingInit == Init => Viewing
BY DEF Init, Viewing, LoadedIsPicture, ShownIsPicture, CompleteIsLoaded

\* The sizes of a picture that is loaded.
LEMMA Sizes ==
  ASSUME Shape, pc \in {"rows", "loaded"}
  PROVE  \E w, h, row \in Nat \ {0}, d \in {3, 4}, off \in Nat :
           /\ w = hdr.width /\ h = hdr.height /\ off = hdr.offset
           /\ row = src_row_size(hdr) /\ row = Stride(hdr)
           /\ d = Depth(hdr) /\ d = hdr.bits \div 8
           /\ w * d <= row
<1>1. Supported(hdr) /\ hdr.height > 0 /\ hdr \in Headers
  BY DEF Shape, Loading
<1>2. hdr.width \in Nat \ {0} /\ hdr.height \in Nat \ {0} /\ hdr.bits \in {24, 32}
  BY <1>1, SupportedTypes
<1>3. hdr.offset \in Nat
  BY <1>1, NoHeaderUnsupported DEF Headers
<1>4. PICK H : H = hdr
  OBVIOUS
<1>5. /\ Stride(H) = src_row_size(H)
      /\ Depth(H) \in {3, 4} /\ Depth(H) = H.bits \div 8
      /\ H.width * Depth(H) <= src_row_size(H)
      /\ src_row_size(H) \in Nat \ {0}
  BY <1>2, <1>4, StrideIs
<1> QED
  BY <1>2, <1>3, <1>4, <1>5

LEMMA RowAdded ==
  ASSUME Shape, RowsRead, ReadRow
  PROVE  \A r \in src_y..hdr.height - 1 :
           /\ Start(r) + src_row_size(hdr) <= Len(file.bytes)
           /\ \A j \in Offset(src_row_size(hdr)) :
                src'[r * src_row_size(hdr) + j] = file.bytes[Start(r) + j + 1]
<1>1. PICK w, h, row \in Nat \ {0}, off \in Nat :
        /\ w = hdr.width /\ h = hdr.height /\ off = hdr.offset
        /\ row = src_row_size(hdr)
  BY Sizes DEF ReadRow
<1>2. PICK y \in Offset(h) : y = src_y
  BY <1>1 DEF RowsRead
<1>3. y \in Nat /\ y < h
  BY <1>2 DEF Offset
<1>4. DOMAIN src = Offset(row * h)
  BY <1>1 DEF Shape, Loading, ReadRow
<1>5. PICK first \in Int : first = off + (h - 1 - y) * row
  BY <1>1, <1>3
<1>6. RowStart = first /\ Start(y) = first
  BY <1>1, <1>2, <1>5 DEF RowStart, Start
<1>7. /\ first + row <= Len(file.bytes)
      /\ \A i \in Offset(row * h) :
           src'[i] = IF i \div row = y THEN file.bytes[first + 1 + (i % row)]
                     ELSE src[i]
  <2>1. src' = [i \in Offset(row * h) |->
                  IF i \div row = y THEN file.bytes[first + 1 + (i % row)]
                  ELSE src[i]]
    BY <1>1, <1>2, <1>4, <1>6, Zenon DEF ReadRow
  <2>2. first + row <= Len(file.bytes)
    BY <1>1, <1>6 DEF ReadRow
  <2> QED
    BY <2>1, <2>2
<1>8. SUFFICES ASSUME NEW r \in y..h - 1
               PROVE  /\ Start(r) + row <= Len(file.bytes)
                      /\ \A j \in Offset(row) :
                           src'[r * row + j] = file.bytes[Start(r) + j + 1]
  BY <1>1, <1>2
<1>9. ASSUME NEW j \in Offset(row)
      PROVE  src'[r * row + j] = IF r = y THEN file.bytes[first + j + 1]
                                 ELSE src[r * row + j]
  <2>1. r \in Nat /\ r \in Offset(h) /\ j \in Int
    BY <1>3 DEF Offset
  <2>2. PICK i \in Int : i = r * row + j /\ i = Place(row, r, j)
    BY <2>1 DEF Place
  <2>3. i \in Offset(row * h)
    <3>1. row * h = h * row
      OBVIOUS
    <3> QED
      BY <2>1, <2>2, <3>1, RowInside
  <2>4. i \div row = r /\ i % row = j
    BY <2>1, <2>2, RowAndPlace
  <2>5. first + 1 + (i % row) = first + j + 1
    BY <2>1, <2>4
  <2>6. src'[i] = IF i \div row = y THEN file.bytes[first + 1 + (i % row)]
                  ELSE src[i]
    BY <1>7, <2>3
  <2> QED
    BY <2>2, <2>4, <2>5, <2>6
<1>10. CASE r = y
  BY <1>6, <1>7, <1>9, <1>10
<1>11. CASE r # y
  <2>1. RowsFrom(y + 1)
    BY <1>2 DEF RowsRead
  <2>2. r \in y + 1..h - 1
    BY <1>3, <1>11
  <2>3. /\ Start(r) + row <= Len(file.bytes)
        /\ \A j \in Offset(row) : src[r * row + j] = file.bytes[Start(r) + j + 1]
    BY <1>1, <2>1, <2>2 DEF RowsFrom
  <2> QED
    BY <1>9, <1>11, <2>3
<1> QED
  BY <1>10, <1>11

\* What the conversion makes of pixel (x, y), if w, row and d are the width,
\* the size of a row and the bytes of a pixel.
PixelConverted(s, w, row, d, x, y, k) ==
  Converted(s)[(y * w + x) * 4 + k] =
    IF k < d THEN s[y * row + x * d + k] ELSE Opaque

LEMMA ConvertedPixel ==
  ASSUME NEW w \in Nat \ {0}, NEW h \in Nat \ {0}, NEW row \in Nat \ {0},
         NEW d \in {3, 4},
         w = hdr.width, h = hdr.height, row = src_row_size(hdr),
         d = hdr.bits \div 8,
         NEW s, NEW x \in Offset(w), NEW y \in Offset(h), NEW k \in Offset(4)
  PROVE  PixelConverted(s, w, row, d, x, y, k)
<1>1. x \in Nat /\ x < w /\ y \in Nat /\ y < h /\ k \in 0..3
  BY DEF Offset
<1>2. PICK W \in Nat \ {0} : W = w * 4
  OBVIOUS
<1>20. PICK q \in Offset(W) : q = x * 4 + k
  BY <1>1, <1>2 DEF Offset
<1>3. PICK n \in Nat : n = y * w + x
  BY <1>1
<1>4. PICK i \in Nat : i = n * 4 + k
  BY <1>1, <1>3
<1>5. i = Place(W, y, q)
  <2>1. y * (w * 4) = (y * w) * 4
    BY <1>1
  <2>2. PICK a \in Nat : a = y * w
    BY <1>1
  <2>3. y * W + q = a * 4 + x * 4 + k
    BY <1>1, <1>2, <1>20, <2>1, <2>2
  <2> QED
    BY <1>1, <1>3, <1>4, <2>2, <2>3 DEF Place
<1>6. i \in Offset(w * 4 * h)
  <2>1. y * W + q \in Offset(h * W)
    BY RowInside
  <2>2. h * W = w * 4 * h
    BY <1>2
  <2> QED
    BY <1>5, <2>1, <2>2 DEF Place
<1>7. i \div W = y /\ i % W = q
  BY <1>1, <1>5, RowAndPlace
<1>8. q \div 4 = x /\ i % 4 = k
  BY <1>1, <1>20, <1>4
<1>9. Converted(s)[i] = IF k < d THEN s[y * row + x * d + k] ELSE Opaque
  BY <1>2, <1>20, <1>6, <1>7, <1>8 DEF Converted
<1> QED
  BY <1>3, <1>4, <1>9 DEF PixelConverted

\* With the last row, the file has the whole picture, and so has the vector.
LEMMA LastRowLoads ==
  ASSUME Shape, Creating, RowsRead, ReadRow, file.header = hdr, src_y' < 0
  PROVE  /\ drawn.picture.width = hdr.width /\ drawn.picture.height = hdr.height
         /\ \A x \in Offset(hdr.width), y \in Offset(hdr.height), k \in Offset(4) :
              data'[(y * hdr.width + x) * 4 + k] = drawn.picture.at[<<x, y>>][k + 1]
<1>1. PICK w, h, row \in Nat \ {0}, d \in {3, 4}, off \in Nat :
        /\ w = hdr.width /\ h = hdr.height /\ off = hdr.offset
        /\ row = src_row_size(hdr) /\ row = Stride(hdr)
        /\ d = Depth(hdr) /\ d = hdr.bits \div 8
        /\ w * d <= row
  BY Sizes DEF ReadRow
<1>2. PICK F \in Seq(Byte), l \in Nat : F = file.bytes /\ l = Len(F)
  BY BytesTyped DEF Shape
<1>3. src_y = 0
  BY <1>1 DEF ReadRow, RowsRead, Offset
<1>4. \A r \in 0..h - 1 :
        /\ Start(r) + row <= l
        /\ \A j \in Offset(row) : src'[r * row + j] = F[Start(r) + j + 1]
  BY <1>1, <1>2, <1>3, RowAdded
<1>5. Whole(file)
  <2>1. Start(0) + row <= l
    BY <1>4
  <2>2. Start(0) = off + (h - 1 - 0) * row
    BY <1>1 DEF Start
  <2>3. (h - 1 - 0) * row + row = h * row
    OBVIOUS
  <2>4. PICK a, b \in Int : a = (h - 1 - 0) * row /\ b = h * row
    OBVIOUS
  <2>5. off + b <= l
    BY <2>1, <2>2, <2>3, <2>4
  <2>6. Supported(file.header)
    BY DEF Shape, Loading, ReadRow
  <2> QED
    BY <1>1, <1>2, <2>4, <2>5, <2>6 DEF Whole
<1>6. Holds(file, drawn.picture)
  BY <1>5, WholeHolds DEF Shape
<1>7. /\ drawn.picture.width = w /\ drawn.picture.height = h
      /\ \A x \in Offset(w), y \in Offset(h), k \in Offset(4) :
           drawn.picture.at[<<x, y>>][k + 1] =
             IF k < d THEN F[off + (h - 1 - y) * row + x * d + k + 1] ELSE Opaque
  BY <1>1, <1>2, <1>6 DEF Holds
<1>8. PICK S, D : S = src' /\ D = data'
  OBVIOUS
<1>9. D = Converted(S)
  <2>1. src_y' = 0 - 1 /\ ~(src_y' >= 0)
    BY <1>3 DEF ReadRow
  <2>2. data' = Converted(src')
    BY <2>1 DEF ReadRow
  <2> QED
    BY <1>8, <2>2
<1>10. ASSUME NEW x \in Offset(w), NEW y \in Offset(h), NEW k \in Offset(4)
       PROVE  D[(y * w + x) * 4 + k] = drawn.picture.at[<<x, y>>][k + 1]
  <2>1. x \in Nat /\ x < w /\ y \in 0..h - 1 /\ k \in 0..3
    BY DEF Offset
  <2>2. D[(y * w + x) * 4 + k] = IF k < d THEN S[y * row + x * d + k] ELSE Opaque
    <3>1. /\ w = hdr.width /\ h = hdr.height /\ row = src_row_size(hdr)
          /\ d = hdr.bits \div 8
      BY <1>1
    <3>2. PixelConverted(S, w, row, d, x, y, k)
      BY <3>1, ConvertedPixel
    <3> QED
      BY <1>9, <3>2 DEF PixelConverted
  <2>3. CASE k < d
    <3>1. x * d + k \in Offset(row)
      <4>1. CASE d = 3
        BY <1>1, <2>1, <2>3, <4>1 DEF Offset
      <4>2. CASE d = 4
        <5>1. w * 4 <= row
          BY <1>1, <4>2
        <5> QED
          BY <2>1, <4>2, <5>1 DEF Offset
      <4> QED
        BY <4>1, <4>2
    <3>2. PICK j \in Offset(row) : j = x * d + k
      BY <3>1
    <3>3. S[y * row + j] = F[Start(y) + j + 1]
      BY <1>4, <1>8, <2>1
    <3>4. PICK a, b, e \in Int : a = y * row /\ b = (h - 1 - y) * row /\ e = x * d
      BY <2>1
    <3>5. Start(y) = off + b
      BY <1>1, <3>4 DEF Start
    <3>6. /\ y * row + j = y * row + x * d + k
          /\ Start(y) + j + 1 = off + (h - 1 - y) * row + x * d + k + 1
      BY <2>1, <3>2, <3>4, <3>5
    <3>7. drawn.picture.at[<<x, y>>][k + 1] = F[off + (h - 1 - y) * row + x * d + k + 1]
      BY <1>7, <2>3
    <3> QED
      BY <2>2, <2>3, <3>3, <3>6, <3>7
  <2>4. CASE ~(k < d)
    BY <1>7, <2>2, <2>4
  <2> QED
    BY <2>3, <2>4
<1> QED
  BY <1>1, <1>7, <1>8, <1>10

LEMMA OpenBmpStep == ASSUME Loaded, OpenBmp PROVE Viewing'
BY DEF Loaded, OpenBmp, createVars, Viewing, LoadedIsPicture, ShownIsPicture, CompleteIsLoaded

\* A complete file has a header of a picture that can be shown.
LEMMA ReadHeaderStep == ASSUME Loaded, ReadHeader PROVE Viewing'
<1>1. /\ pc = "header" /\ hdr' = file.header
      /\ UNCHANGED <<file, drawn, opened, clean>>
  BY DEF ReadHeader, createVars
<1>2. CASE pc' = "rows"
  <2>1. Supported(hdr') /\ hdr'.height > 0 /\ src_y' = hdr'.height - 1
    BY <1>2 DEF ReadHeader
  <2>2. PICK h \in Nat \ {0} : h = hdr'.height
    <3>1. hdr' \in Headers /\ hdr' # NoHeader
      BY <1>1, <2>1, NoHeaderUnsupported DEF Loaded, Shape, Typed, IsFile
    <3> QED
      BY <2>1, <3>1 DEF Headers
  <2>3. src_y' \in Offset(hdr'.height)
    BY <2>1, <2>2 DEF Offset
  <2>4. src_y' + 1 = h
    BY <2>1, <2>2
  <2>5. RowsFrom(src_y + 1)'
    BY <2>2, <2>4 DEF RowsFrom
  <2> QED
    BY <1>1, <1>2, <2>3, <2>5
       DEF Loaded, Viewing, RowsRead, LoadedIsPicture, ShownIsPicture, CompleteIsLoaded
<1>3. CASE pc' # "rows"
  <2>1. pc' \in {"failed", "aborted"} /\ (~Supported(hdr') \/ hdr'.height < 0)
    BY <1>3 DEF ReadHeader
  <2>2. ~Whole(file)
    <3>1. ASSUME hdr'.height < 0, Supported(hdr') PROVE ~(hdr'.height > 0)
      <4>1. hdr' \in Headers /\ hdr' # NoHeader
        BY <1>1, <3>1, NoHeaderUnsupported DEF Loaded, Shape, Typed, IsFile
      <4>2. hdr'.height \in Int
        BY <4>1 DEF Headers
      <4> QED
        BY <3>1, <4>2
    <3> QED
      BY <1>1, <2>1, <3>1 DEF Whole
  <2>3. ~drawn.complete
    BY <2>2 DEF Loaded, Creating
  <2> QED
    BY <1>1, <2>1, <2>3
       DEF Loaded, Viewing, LoadedIsPicture, ShownIsPicture, CompleteIsLoaded
<1> QED
  BY <1>2, <1>3

LEMMA ReadRowStep == ASSUME Loaded, ReadRow PROVE Viewing'
<1>1. /\ pc = "rows" /\ src_y' = src_y - 1
      /\ \/ src_y' >= 0 /\ pc' = "rows"
         \/ src_y' < 0 /\ pc' = "loaded"
      /\ UNCHANGED <<file, drawn, hdr, opened, clean>>
  BY DEF ReadRow, createVars
<1>2. CASE ~clean
  BY <1>1, <1>2 DEF Viewing, LoadedIsPicture, ShownIsPicture, CompleteIsLoaded
<1>3. CASE clean /\ pc' = "rows"
  <2>1. file.header = hdr /\ RowsRead /\ Shape
    BY <1>1, <1>3 DEF Loaded, Viewing
  <2>2. PICK y, h \in Nat : y = src_y /\ h = hdr.height /\ y < h /\ src_y' = y - 1 /\ y >= 1
    <3>1. hdr.height \in Nat
      BY <1>1, <2>1, Sizes
    <3> QED
      BY <1>1, <1>3, <2>1, <3>1 DEF RowsRead, Offset
  <2>3. src_y' \in Offset(hdr'.height) /\ src_y' + 1 = y
    BY <1>1, <2>2 DEF Offset
  <2>4. RowsFrom(src_y + 1)'
    <3>1. \A r \in src_y..hdr.height - 1 :
            /\ Start(r) + src_row_size(hdr) <= Len(file.bytes)
            /\ \A j \in Offset(src_row_size(hdr)) :
                 src'[r * src_row_size(hdr) + j] = file.bytes[Start(r) + j + 1]
      BY <2>1, RowAdded
    <3>2. src_row_size(hdr)' = src_row_size(hdr) /\ \A r : Start(r)' = Start(r)
      BY <1>1 DEF src_row_size, Start
    <3> QED
      BY <1>1, <2>2, <2>3, <3>1, <3>2 DEF RowsFrom
  <2> QED
    BY <1>1, <1>3, <2>1, <2>3, <2>4
       DEF Loaded, Viewing, RowsRead, LoadedIsPicture, ShownIsPicture, CompleteIsLoaded
<1>4. CASE clean /\ pc' # "rows"
  <2>1. file.header = hdr /\ RowsRead /\ Shape /\ Creating
        /\ opened.picture = drawn.picture
    BY <1>1, <1>4 DEF Loaded, Viewing
  <2>2. src_y' < 0 /\ pc' = "loaded"
    BY <1>1, <1>4
  <2>3. LoadedIsPicture'
    BY <1>1, <2>1, <2>2, LastRowLoads DEF LoadedIsPicture
  <2> QED
    BY <2>2, <2>3 DEF Viewing, ShownIsPicture, CompleteIsLoaded
<1> QED
  BY <1>2, <1>3, <1>4

\* A complete file does not end within a row.
LEMMA ReadFailsStep == ASSUME Loaded, ReadFails PROVE Viewing'
<1>1. /\ pc = "rows" /\ pc' = "failed"
      /\ RowStart + src_row_size(hdr) > Len(file.bytes)
      /\ UNCHANGED <<opened, clean>>
  BY DEF ReadFails
<1>2. ASSUME clean, opened.complete PROVE FALSE
  <2>1. file.header = hdr /\ RowsRead /\ Whole(file) /\ Shape
    BY <1>1, <1>2 DEF Loaded, Viewing, Creating
  <2>2. PICK w, h, row \in Nat \ {0}, off \in Nat :
          /\ h = hdr.height /\ off = hdr.offset
          /\ row = src_row_size(hdr) /\ row = Stride(hdr)
    BY <1>1, <2>1, Sizes
  <2>3. PICK y \in Nat, l \in Nat : y = src_y /\ y < h /\ l = Len(file.bytes)
    BY <2>1, <2>2, BytesTyped DEF RowsRead, Offset, Shape
  <2>4. PICK all, first \in Int : all = h * row /\ first = (h - 1 - y) * row
    BY <2>3
  <2>5. first + row <= all
    <3>1. (h - 1 - y) * row + row = (h - y) * row
      BY <2>3
    <3>2. (h - y) * row <= h * row
      BY <2>3, RowMonotone
    <3> QED
      BY <2>3, <2>4, <3>1, <3>2
  <2>6. off + all <= l
    BY <2>1, <2>2, <2>3, <2>4 DEF Whole
  <2>7. off + first + row > l
    BY <1>1, <2>2, <2>3, <2>4 DEF RowStart
  <2> QED
    BY <2>5, <2>6, <2>7
<1> QED
  BY <1>1, <1>2
     DEF Viewing, LoadedIsPicture, ShownIsPicture, CompleteIsLoaded

\* The place in the dumb buffer determines the row and the place in it.
LEMMA CopyShows ==
  ASSUME Shape, Copy, clean, LoadedIsPicture
  PROVE  \A x \in Offset(screen.width), y \in Offset(screen.height), k \in Offset(4) :
           fb'[y * screen.pitch + x * 4 + k] =
             IF x < opened.picture.width /\ y < opened.picture.height
             THEN opened.picture.at[<<x, y>>][k + 1] ELSE Padding
<1>1. PICK w, h \in Nat \ {0} :
        /\ w = hdr.width /\ h = hdr.height
        /\ w = opened.picture.width /\ h = opened.picture.height
  BY Sizes DEF Copy, LoadedIsPicture
<1>2. PICK sw, sh, p \in Nat :
        /\ sw = screen.width /\ sh = screen.height /\ p = screen.pitch
        /\ sw * 4 <= p
  BY ScreenTypes DEF Shape
<1>3. PICK rows, cols \in Nat :
        /\ rows = CopyRows /\ cols = Least(hdr.width, screen.width)
        /\ rows <= h /\ rows <= sh /\ cols <= w /\ cols <= sw
        /\ \A n \in Nat : /\ n < rows <=> n < h /\ n < sh
                          /\ n < cols <=> n < w /\ n < sw
  BY <1>1, <1>2 DEF CopyRows, Least
<1> DEFINE Target == {CopyStart(y) + i : y \in Offset(rows), i \in Offset(cols * 4)}
           Source(j) == CHOOSE s \in Offset(rows) \X Offset(cols * 4) :
                          CopyStart(s[1]) + s[2] = j
<1>4. fb' = [j \in Offset(p * sh) \cup Target |->
               IF j \in Target THEN data[Source(j)[1] * hdr.width * 4 + Source(j)[2]]
               ELSE Padding]
  BY <1>2, <1>3 DEF Copy
<1>5. \A y, i : CopyStart(y) + i = Place(p, y, i)
  BY <1>2 DEF CopyStart, Place
<1>6. \A j : j \in Target <=>
               \E y \in Offset(rows), i \in Offset(cols * 4) : j = Place(p, y, i)
  BY <1>5
<1>7. ASSUME NEW y \in Offset(rows), NEW i \in Offset(cols * 4)
      PROVE  Source(Place(p, y, i)) = <<y, i>>
  <2>1. PICK j : j = Place(p, y, i)
    OBVIOUS
  <2>2. \E s \in Offset(rows) \X Offset(cols * 4) : CopyStart(s[1]) + s[2] = j
    <3>1. <<y, i>> \in Offset(rows) \X Offset(cols * 4)
      OBVIOUS
    <3>2. CopyStart(<<y, i>>[1]) + <<y, i>>[2] = j
      BY <1>5, <2>1
    <3> QED
      BY <3>1, <3>2
  <2>3. PICK s \in Offset(rows) \X Offset(cols * 4) :
          s = Source(j) /\ CopyStart(s[1]) + s[2] = j
    BY <2>2
  <2>4. PICK a \in Offset(rows), b \in Offset(cols * 4) : s = <<a, b>>
    OBVIOUS
  <2>5. Place(p, a, b) = Place(p, y, i)
    BY <1>5, <2>1, <2>3, <2>4
  <2>6. a \in Int /\ y \in Int /\ b \in Offset(p) /\ i \in Offset(p)
    BY <1>2, <1>3 DEF Offset
  <2>7. a = y /\ b = i
    BY <2>5, <2>6, RowUnique
  <2> QED
    BY <2>1, <2>3, <2>4, <2>7
<1> HIDE DEF Target, Source
<1>8. SUFFICES ASSUME NEW x \in Offset(sw), NEW y \in Offset(sh), NEW k \in Offset(4)
               PROVE  fb'[y * p + x * 4 + k] =
                        IF x < w /\ y < h
                        THEN opened.picture.at[<<x, y>>][k + 1] ELSE Padding
  BY <1>1, <1>2
<1>9. x \in Nat /\ x < sw /\ y \in Nat /\ y < sh /\ k \in 0..3
  BY DEF Offset
<1>10. PICK q \in Offset(p) : q = x * 4 + k
  BY <1>2, <1>9 DEF Offset
<1>11. PICK j : j = Place(p, y, q) /\ j = y * p + x * 4 + k
  <2>1. PICK a \in Int : a = y * p
    BY <1>9
  <2>2. q \in Int
    BY <1>9, <1>10
  <2> QED
    BY <1>9, <1>10, <2>1, <2>2 DEF Place
<1>12. CASE x < w /\ y < h
  <2>1. y \in Offset(rows) /\ q \in Offset(cols * 4)
    BY <1>3, <1>9, <1>10, <1>12 DEF Offset
  <2>2. j \in Target /\ Source(j) = <<y, q>>
    BY <1>6, <1>7, <1>11, <2>1
  <2>3. fb'[j] = data[y * w * 4 + q]
    <3>1. fb'[j] = data[Source(j)[1] * hdr.width * 4 + Source(j)[2]]
      BY <1>4, <2>2
    <3>2. Source(j)[1] = y /\ Source(j)[2] = q
      BY <2>2
    <3> QED
      BY <1>1, <3>1, <3>2
  <2>4. y * w * 4 + q = (y * w + x) * 4 + k
    <3>1. PICK a \in Int : a = y * w
      BY <1>9
    <3> QED
      BY <1>9, <1>10, <3>1
  <2>5. x \in Offset(w) /\ y \in Offset(h)
    BY <1>9, <1>12 DEF Offset
  <2>6. data[(y * w + x) * 4 + k] = opened.picture.at[<<x, y>>][k + 1]
    BY <1>1, <2>5 DEF LoadedIsPicture, Copy
  <2> QED
    BY <1>11, <1>12, <2>3, <2>4, <2>6
<1>13. CASE ~(x < w /\ y < h)
  <2>1. j \notin Target
    <3>1. SUFFICES ASSUME j \in Target PROVE FALSE
      OBVIOUS
    <3>2. PICK a \in Offset(rows), b \in Offset(cols * 4) : j = Place(p, a, b)
      BY <1>6, <3>1
    <3>3. a \in Int /\ y \in Int /\ b \in Offset(p) /\ q \in Offset(p)
      BY <1>2, <1>3, <1>9 DEF Offset
    <3>4. a = y /\ b = q
      <4>1. Place(p, a, b) = Place(p, y, q)
        BY <1>11, <3>2
      <4> QED
        BY <3>3, <4>1, RowUnique
    <3>5. y < rows /\ q < cols * 4
      BY <3>2, <3>4 DEF Offset
    <3>6. x < cols
      BY <1>9, <1>10, <3>5
    <3> QED
      BY <1>3, <1>9, <1>13, <3>5, <3>6
  <2>2. j \in Offset(p * sh)
    <3>1. y * p + q \in Offset(sh * p)
      BY RowInside
    <3>2. sh * p = p * sh
      OBVIOUS
    <3> QED
      BY <1>11, <3>1, <3>2 DEF Place
  <2> QED
    BY <1>4, <1>11, <1>13, <2>1, <2>2
<1> QED
  BY <1>12, <1>13

LEMMA CopyStep == ASSUME Loaded, Shape', Copy PROVE Viewing'
<1>1. /\ pc = "loaded" /\ pc' = "shown"
      /\ UNCHANGED <<hdr, data, screen, opened, clean>>
  BY DEF Copy
<1>2. LoadedIsPicture'
  BY <1>1 DEF Loaded, Viewing, LoadedIsPicture
<1>3. ShownIsPicture'
  <2>1. pc' = "shown" => DOMAIN fb' = Offset(screen'.pitch * screen'.height)
    BY DEF Shape, FrameKept
  <2>2. clean => LoadedIsPicture /\ Shape
    BY DEF Loaded, Viewing
  <2>3. ASSUME clean
        PROVE  \A x \in Offset(screen.width), y \in Offset(screen.height) :
                 \A k \in Offset(4) :
                   fb'[y * screen.pitch + x * 4 + k] =
                     IF x < opened.picture.width /\ y < opened.picture.height
                     THEN opened.picture.at[<<x, y>>][k + 1] ELSE Padding
    BY <2>2, <2>3, CopyShows
  <2> QED
    BY <1>1, <2>1, <2>3 DEF ShownIsPicture
<1> QED
  BY <1>1, <1>2, <1>3 DEF Viewing, CompleteIsLoaded

LEMMA CreateViewStep == ASSUME Loaded, Create PROVE Viewing'
<1>1. UNCHANGED <<pc, hdr, src_y, src, data, screen, fb, opened>>
      /\ clean' = (clean /\ ~(pc \in {"header", "rows"} /\ runs' > runs))
  BY DEF Create
<1>2. clean' => clean
  BY <1>1
<1>3. LoadedIsPicture' /\ ShownIsPicture' /\ CompleteIsLoaded'
  BY <1>1, <1>2
     DEF Loaded, Viewing, LoadedIsPicture, ShownIsPicture, CompleteIsLoaded
<1>4. CASE pc \in {"header", "rows"} /\ clean'
  <2>1. clean /\ ~(runs' > runs) /\ Typed /\ Creating /\ CreateStep
    BY <1>1, <1>4 DEF Create, Loaded, Shape
  <2>2. /\ opened.picture = drawn.picture
        /\ opened.complete => drawn.complete
    BY <1>4, <2>1 DEF Loaded, Viewing
  <2>3. opened'.picture = drawn'.picture /\ (opened'.complete => drawn'.complete)
    BY <1>1, <2>1, <2>2, OnlyGrows
  <2>4. ASSUME pc = "rows" PROVE file'.header = hdr' /\ RowsRead'
    <3>1. file.header = hdr /\ RowsRead /\ Shape /\ Supported(hdr)
      BY <2>1, <2>4 DEF Loaded, Viewing, Shape, Loading
    <3>2. file'.header = hdr'
      BY <1>1, <2>1, <3>1, OnlyGrows, NoHeaderUnsupported
    <3>3. PICK l, m \in Nat :
            /\ l = Len(file.bytes) /\ m = Len(file'.bytes) /\ l <= m
            /\ \A i \in 1..l : file'.bytes[i] = file.bytes[i]
      BY <2>1, OnlyGrows
    <3>4. PICK w, h, row \in Nat \ {0}, off \in Nat, y \in Nat :
            /\ h = hdr.height /\ off = hdr.offset /\ row = src_row_size(hdr)
            /\ y = src_y
      BY <2>4, <3>1, Sizes DEF RowsRead, Offset
    <3>5. ASSUME NEW r \in y + 1..h - 1
          PROVE  /\ Start(r) + row <= m
                 /\ \A j \in Offset(row) : src[r * row + j] = file'.bytes[Start(r) + j + 1]
      <4>1. /\ Start(r) + row <= l
            /\ \A j \in Offset(row) : src[r * row + j] = file.bytes[Start(r) + j + 1]
        BY <3>1, <3>3, <3>4 DEF RowsRead, RowsFrom
      <4>2. PICK start \in Nat : start = Start(r)
        <5>1. h - 1 - r \in Nat
          BY <3>4
        <5> QED
          BY <3>4, <5>1 DEF Start
      <4>3. \A j \in Offset(row) : start + j + 1 \in 1..l
        BY <4>1, <4>2 DEF Offset
      <4> QED
        BY <3>3, <4>1, <4>2, <4>3
    <3>6. \A r : Start(r)' = Start(r)
      BY <1>1 DEF Start, src_row_size
    <3>7. src_row_size(hdr') = row
      BY <1>1, <3>4
    <3>8. RowsFrom(src_y + 1)'
      BY <1>1, <3>3, <3>4, <3>5, <3>6, <3>7 DEF RowsFrom
    <3> QED
      BY <1>1, <3>1, <3>2, <3>8 DEF RowsRead
  <2> QED
    BY <1>1, <1>3, <2>3, <2>4 DEF Viewing
<1>5. CASE ~(pc \in {"header", "rows"} /\ clean')
  BY <1>1, <1>3, <1>5 DEF Viewing
<1> QED
  BY <1>4, <1>5

LEMMA LoadedInit == Init => Loaded
BY ShapeInit, CreatingInit, ViewingInit DEF Loaded

LEMMA LoadedNext == Loaded /\ [Next]_vars => Loaded'
<1> SUFFICES ASSUME Loaded, [Next]_vars PROVE Loaded'
  OBVIOUS
<1>1. Shape'
  BY ShapeNext DEF Loaded
<1>2. ASSUME UNCHANGED createVars PROVE Creating'
  <2>1. Creating
    BY DEF Loaded
  <2>2. Whole(file)' = Whole(file)
        /\ Holds(file, drawn.picture)' = Holds(file, drawn.picture)
    BY <1>2 DEF createVars, Whole, Holds, Supported, Stride, Depth
  <2>3. Drawing' = Drawing
    BY <1>2 DEF createVars, Drawing, AllThere, RowByte
  <2> QED
    BY <1>2, <2>1, <2>2, <2>3 DEF createVars, Creating
<1>3. CASE OpenBmp
  BY <1>1, <1>2, <1>3, OpenBmpStep DEF OpenBmp, Loaded
<1>4. CASE ReadHeader
  BY <1>1, <1>2, <1>4, ReadHeaderStep DEF ReadHeader, Loaded
<1>5. CASE ReadRow
  BY <1>1, <1>2, <1>5, ReadRowStep DEF ReadRow, Loaded
<1>6. CASE ReadFails
  BY <1>1, <1>2, <1>6, ReadFailsStep DEF ReadFails, Loaded
<1>7. CASE Copy
  BY <1>1, <1>2, <1>7, CopyStep DEF Copy, Loaded
<1>8. CASE Create
  <2>1. Creating'
    BY <1>8, CreatingStep DEF Create, Loaded, Shape
  <2> QED
    BY <1>1, <1>8, <2>1, CreateViewStep DEF Loaded
<1>9. CASE UNCHANGED vars
  <2>1. Viewing'
    BY <1>9 DEF Loaded, Viewing, RowsRead, RowsFrom, Start, src_row_size,
       LoadedIsPicture, ShownIsPicture, CompleteIsLoaded, vars, createVars, viewVars
  <2> QED
    BY <1>1, <1>2, <1>9, <2>1 DEF Loaded, vars
<1> QED
  BY <1>3, <1>4, <1>5, <1>6, <1>7, <1>8, <1>9 DEF Next, Terminated

LEMMA LoadedAlways == Spec => []Loaded
BY LoadedInit, LoadedNext, PTL DEF Spec

\* What load_bmp accepts is the picture that create_bmp was drawing when the
\* file was opened, for every size, colour and chunk of stdio: whatever was
\* lost or killed, a file that is long enough has every byte in its place.
THEOREM LoadedIsPictureHolds == Spec => []LoadedIsPicture
<1>1. Loaded => LoadedIsPicture
  BY DEF Loaded, Viewing
<1> QED
  BY <1>1, LoadedAlways, PTL

\* The screen shows that picture from its top left corner, and black around it.
THEOREM ShownIsPictureHolds == Spec => []ShownIsPicture
<1>1. Loaded => ShownIsPicture
  BY DEF Loaded, Viewing
<1> QED
  BY <1>1, LoadedAlways, PTL

\* load_bmp does not refuse a picture that was complete when it was opened.
THEOREM CompleteIsLoadedHolds == Spec => []CompleteIsLoaded
<1>1. Loaded => CompleteIsLoaded
  BY DEF Loaded, Viewing
<1> QED
  BY <1>1, LoadedAlways, PTL

=============================================================================
