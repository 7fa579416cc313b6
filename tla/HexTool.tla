------------------------------ MODULE HexTool ------------------------------
(***************************************************************************)
(* hextool_basetools/jni/hextool.c: replace every byte of a file by its    *)
(* image under a byte function, in place, one block after the other.       *)
(*                                                                         *)
(* Nothing is copied first, so what counts is the file between two calls,  *)
(* when a call fails, and when the process is killed.  stdio's buffer is   *)
(* part of the block: fwrite and fflush put a part of it on the disk, all  *)
(* of it if they succeed.  The user may run the tool again on what a run   *)
(* has left.                                                               *)
(***************************************************************************)
EXTENDS Sequences, HexModes

CONSTANTS
  BUFFER_SIZE,    \* 4096 in the code
  Files,          \* the files to start from
  CommandLines,   \* the arguments, as getopt_long finds them
  MaxRuns         \* bound on the number of runs

MODE_SWAP_NIBBLES == 1
Option == [name : {"mode", "help", "unknown"}, value : Int]
CommandLine == [options : Seq(Option), filename : BOOLEAN]

ASSUME HexAssumption ==
  /\ BUFFER_SIZE \in Nat \ {0}
  /\ Files \subseteq Seq(Byte)
  /\ CommandLines \subseteq CommandLine
  /\ MaxRuns \in Nat

VARIABLES
  file,      \* the bytes on the disk
  mode,
  pc,
  pos,       \* position of the block in the file
  buffer,    \* the block that was read, transformed
  before,    \* history: the file when this run began
  original,  \* history: the file when the first run began
  finished,  \* history: runs that ended with EXIT_SUCCESS
  runs       \* number of runs, for the bound

runVars == <<mode, before, original, runs>>
vars == <<file, pc, pos, buffer, finished, runVars>>

Ended == {"success", "failure", "killed"}

\* The file keeps its length: the block in hand lies inside of it.
TypeOK ==
  /\ file \in Seq(Byte)
  /\ Len(file) = Len(original)
  /\ Len(before) = Len(original)
  /\ mode \in Mode
  /\ pc \in {"refused", "read", "write", "seek"} \cup Ended
  /\ pos \in 0..Len(file)
  /\ pc \in {"write", "seek"} => pos + Len(buffer) <= Len(file)
  /\ buffer \in Seq(Byte)
  /\ before \in Seq(Byte)
  /\ original \in Seq(Byte)
  /\ finished \in Nat
  /\ runs \in Nat

\* The last mode counts, but each has to be valid; help and options that are
\* not known end the program at once, whatever else there is.
Accepted(line) ==
  /\ line.filename
  /\ \A i \in DOMAIN line.options : /\ line.options[i].name = "mode"
                                    /\ line.options[i].value \in Mode
ModeOf(line) ==
  IF line.options = <<>> THEN MODE_SWAP_NIBBLES
  ELSE line.options[Len(line.options)].value

Init ==
  /\ file \in Files
  /\ \E line \in CommandLines :
       \/ Accepted(line) /\ mode = ModeOf(line) /\ pc = "read"
       \/ ~Accepted(line) /\ mode = MODE_SWAP_NIBBLES /\ pc = "refused"
  /\ pos = 0
  /\ buffer = <<>>
  /\ before = file
  /\ original = file
  /\ finished = 0
  /\ runs = 1

-----------------------------------------------------------------------------
Transformed(s) == [i \in DOMAIN s |-> get_transform(mode, s[i])]

\* Mutant of Overwritten: the file was opened with "ab+".
Overwritten_Append(k) == file \o SubSeq(buffer, 1, k)

\* The length of the file after a write of k bytes at the position, which
\* extends it beyond its end.
LengthAfter(k) == IF pos + k > Len(file) THEN pos + k ELSE Len(file)

\* What such a write leaves; a gap in front of it reads as zeros.
Overwritten(k) ==
  [i \in 1..LengthAfter(k) |-> IF i \in pos + 1..pos + k THEN buffer[i - pos]
                               ELSE IF i \in DOMAIN file THEN file[i] ELSE 0]

\* fread of the next block, shorter at the end of the file or if an error
\* comes later, and the loop over it.
ReadBlock ==
  /\ pc = "read"
  /\ pos < Len(file)
  /\ \E n \in 1..BUFFER_SIZE :
       /\ pos + n <= Len(file)
       /\ buffer' = Transformed(SubSeq(file, pos + 1, pos + n))
  /\ pc' = "write"
  /\ UNCHANGED <<file, pos, finished, runVars>>

\* Mutant of EndOfFile: the rest of the file is less than a block.
EndOfFile_Short == pos + BUFFER_SIZE > Len(file)
EndOfFile == pos >= Len(file)

\* fread finds the end of the file.
Finish ==
  /\ pc = "read"
  /\ EndOfFile
  /\ pc' = "success"
  /\ finished' = finished + 1
  /\ UNCHANGED <<file, pos, buffer, runVars>>

\* fseek back, fwrite and fflush.
WriteBlock ==
  /\ pc = "write"
  /\ file' = Overwritten(Len(buffer))
  /\ pc' = "seek"
  /\ UNCHANGED <<pos, buffer, finished, runVars>>

\* fwrite or fflush fails, or the process is killed, after k bytes.
WriteStops ==
  /\ pc = "write"
  /\ \E k \in 0..Len(buffer) - 1 : file' = Overwritten(k)
  /\ pc' \in {"failure", "killed"}
  /\ UNCHANGED <<pos, buffer, finished, runVars>>

\* Mutant of NextPos: the position of the block that has just been written.
NextPos_Same == pos
NextPos == pos + Len(buffer)

\* fseek to the end of what was written.
SeekOn ==
  /\ pc = "seek"
  /\ pos' = NextPos
  /\ pc' = "read"
  /\ UNCHANGED <<file, buffer, finished, runVars>>

\* ftell, fread or fseek fails, or the process is killed between two calls.
Stop ==
  /\ pc \in {"read", "write", "seek"}
  /\ pc' \in {"failure", "killed"}
  /\ UNCHANGED <<file, pos, buffer, finished, runVars>>

\* The user runs the tool once more, in the same mode.
RunAgain ==
  /\ pc \in Ended
  /\ runs < MaxRuns
  /\ runs' = runs + 1
  /\ before' = file
  /\ pc' = "read"
  /\ pos' = 0
  /\ buffer' = <<>>
  /\ UNCHANGED <<file, mode, original, finished>>

Terminated == pc \in Ended \cup {"refused"} /\ UNCHANGED vars

Step == ReadBlock \/ Finish \/ WriteBlock \/ SeekOn
Next == Step \/ WriteStops \/ Stop \/ RunAgain \/ Terminated

Spec == Init /\ [][Next]_vars

-----------------------------------------------------------------------------
(* Properties.                                                             *)

\* The first n bytes of before are transformed, the others are not.
PartOf(n) ==
  [i \in DOMAIN before |-> IF i <= n THEN get_transform(mode, before[i])
                           ELSE before[i]]

\* However a run is stopped, the file is transformed up to some byte of the
\* block in hand and untouched from there on.
PrefixTransformed ==
  \E n \in pos..pos + BUFFER_SIZE : file = PartOf(n)

\* "transforms every byte of the file": a run that reports success has
\* transformed each byte once.
SuccessMeansAll == pc = "success" => file = PartOf(Len(before))

\* "transforms every byte of the file", as the help text names the mode: bit
\* by bit, the first run to succeed has done what print_help says.
AsNamed ==
  pc = "success" /\ runs = 1 =>
    \A i \in DOMAIN original, k \in 0..7 :
      Bit(file[i], k) = Named(mode, original[i], k)

\* In a mode that is its own inverse, two runs that succeed give the file
\* back, however fread cut it into blocks.
UndoneByRerun ==
  mode \in OwnInverse /\ runs = 2 /\ finished = 2 => file = original

=============================================================================
