------------------------------ MODULE DumpSelf ------------------------------
(***************************************************************************)
(* hextool_basetools/jni/dump_self.c: list the process's own mappings and  *)
(* write the readable ones to dump_1.bin, dump_2.bin and so on.            *)
(*                                                                         *)
(* The list is read in pieces, and everything between two pieces goes      *)
(* through stdio and malloc, which add mappings, let them grow and give    *)
(* them back.  An address is a page; what a page holds is left out, a dump *)
(* is the set of the addresses it holds.  The kernel lists a mapping that  *)
(* has grown past the last address it has listed once more.                *)
(***************************************************************************)
EXTENDS Integers, Sequences, FiniteSets

CONSTANTS
  Top,              \* the last address
  MAX_SIZE_50MB,    \* in pages
  Images,           \* the mappings the process may start with
  Faulting          \* readable pages that have nothing behind them

Address == 1..Top
Region == [start : Address, end : 2..Top + 1, readable : BOOLEAN,
           own : BOOLEAN]    \* own: made by malloc
Pages(m) == m.start..m.end - 1

\* No mapping is empty, and no two of them overlap.
AddressSpace(ms) ==
  /\ ms \subseteq Region
  /\ \A m \in ms : m.start < m.end
  /\ \A m, o \in ms : m # o => m.end <= o.start \/ o.end <= m.start

ASSUME DumpAssumption ==
  /\ Top \in Nat \ {0}
  /\ MAX_SIZE_50MB \in Nat
  /\ \A image \in Images : AddressSpace(image)
  /\ Faulting \subseteq Address

VARIABLES
  maps,          \* the mappings of the process
  listed,        \* the address up to which the kernel has listed them
  ahead,         \* lines in the buffer of stdio
  region_count,
  files,         \* what dump_n.bin holds
  pc,
  report,        \* history: the lines printed
  kept           \* history: mappings that have never changed

vars == <<maps, listed, ahead, region_count, files, pc, report, kept>>

Old == {0}       \* a dump of an earlier run

Init ==
  /\ maps \in Images
  /\ listed = 0 /\ ahead = <<>> /\ region_count = 0
  /\ files \in {[n \in Address |-> {}], [n \in Address |-> Old]}
  /\ pc = "open"
  /\ report = <<>>
  /\ kept = maps

-----------------------------------------------------------------------------
(* The kernel and the C library.                                           *)

Vacant(a) == \A m \in maps : a \notin Pages(m)

Grown == {m \in Region : \E o \in maps : /\ o.own /\ Vacant(o.end)
                                         /\ m = [o EXCEPT !.end = o.end + 1]}
New == {m \in Region : m.own /\ m.readable /\ m.end = m.start + 1
                         /\ Vacant(m.start)}

\* malloc and free of the calls in a step.
Remapped ==
  /\ \/ UNCHANGED maps
     \/ \E m \in New : maps' = maps \cup {m}
     \/ \E m \in Grown : maps' = {o \in maps : o.start # m.start} \cup {m}
     \/ \E m \in maps : m.own /\ maps' = maps \ {m}
  /\ kept' = kept \cap maps'

\* Mappings by their address: the i-th has i of them up to itself.
UpTo(ms, m) == {o \in ms : o.start <= m.start}
InOrder(ms) == [i \in 1..Cardinality(ms) |->
                  CHOOSE m \in ms : Cardinality(UpTo(ms, m)) = i]

\* /proc/self/maps goes on after the last mapping it has listed.
Unlisted == InOrder({m \in maps : m.end > listed})

Accessible(a) == /\ a \notin Faulting
                 /\ \E m \in maps : m.readable /\ a \in Pages(m)

-----------------------------------------------------------------------------
OpenMaps ==
  /\ pc = "open"
  /\ pc' \in {"fgets", "failed"}
  /\ Remapped
  /\ UNCHANGED <<listed, ahead, region_count, files, report>>

\* fgets with an empty buffer: some more lines, or the end.
Fill ==
  /\ pc = "fgets" /\ ahead = <<>>
  /\ IF Unlisted = <<>>
     THEN pc' = "done" /\ UNCHANGED <<listed, ahead>>
     ELSE /\ \E n \in DOMAIN Unlisted :
               /\ ahead' = SubSeq(Unlisted, 1, n)
               /\ listed' = Unlisted[n].end
          /\ UNCHANGED pc
  /\ UNCHANGED <<maps, region_count, files, report, kept>>

\* Mutants: a line that is passed over is looked at again; the first region
\* that is too big ends the loop; a dump succeeds if anything is written.
PassedOver_Again == ahead
TooBig_Ends == "done"
Complete_Positive(m, k) == k > 0

PassedOver == Tail(ahead)
TooBig == "fgets"
Number == region_count + 1
Complete(m, k) == k = Cardinality(Pages(m))

Reported(m, result) ==
  report' = Append(report, [n |-> Number, region |-> m, result |-> result])

\* A line that is not dumped: not readable, or too big.
Unreadable ==
  /\ pc = "fgets" /\ ahead # <<>>
  /\ ~Head(ahead).readable
  /\ ahead' = PassedOver
  /\ UNCHANGED <<maps, listed, region_count, files, pc, report, kept>>

Skip ==
  /\ pc = "fgets" /\ ahead # <<>>
  /\ LET m == Head(ahead)
     IN  /\ m.readable /\ Cardinality(Pages(m)) > MAX_SIZE_50MB
         /\ Reported(m, "SKIPPED")
  /\ region_count' = region_count + 1
  /\ pc' = TooBig
  /\ ahead' = Tail(ahead)
  /\ Remapped
  /\ UNCHANGED <<listed, files>>

Wanted(m) == m.readable /\ Cardinality(Pages(m)) <= MAX_SIZE_50MB

\* fopen fails and the file stays as it is, or fwrite writes the first k pages:
\* it stops at a page the kernel cannot read or when the disk is full.  What
\* stdio still holds is lost if fclose fails, which nobody notices.
dump_region ==
  /\ pc = "fgets" /\ ahead # <<>>
  /\ LET m == Head(ahead)
         Written(k) == m.start..m.start + k - 1
     IN  /\ Wanted(m)
         /\ \/ UNCHANGED files /\ Reported(m, "FAILED")
            \/ \E k \in 0..Cardinality(Pages(m)), unflushed \in {{}, {m.end - 1}} :
                 /\ \A a \in Written(k) : Accessible(a)
                 /\ files' = [files EXCEPT ![Number] =
                                Written(k) \ unflushed]
                 /\ Reported(m, IF Complete(m, k) THEN "file" ELSE "FAILED")
  /\ region_count' = region_count + 1
  /\ ahead' = Tail(ahead)
  /\ Remapped
  /\ UNCHANGED <<listed, pc>>

\* dump_region: the last part of a region, if it does not fill stdio's buffer,
\* is read by the process itself, and a page that cannot be read kills it.
Killed ==
  /\ pc = "fgets" /\ ahead # <<>>
  /\ LET m == Head(ahead)
     IN  /\ Wanted(m)
         /\ \A a \in Pages(m) : Accessible(a) <=> a # m.end - 1
         /\ files' = [files EXCEPT ![Number] = Pages(m) \ {m.end - 1}]
  /\ pc' = "killed"
  /\ UNCHANGED <<maps, listed, ahead, region_count, report, kept>>

Ended == pc \in {"done", "failed", "killed"} /\ UNCHANGED vars

Next == OpenMaps \/ Fill \/ Unreadable \/ Skip \/ dump_region \/ Killed \/ Ended

\* One thread, which is scheduled.
Spec == Init /\ [][Next]_vars /\ WF_vars(Next)

-----------------------------------------------------------------------------
(* Properties.                                                             *)

Reports(m) == {i \in DOMAIN report : report[i].region = m}

\* Whatever the program does to its own mappings while it lists them, each
\* readable mapping that has been there all the time is reported once.
EachReportedOnce ==
  pc = "done" => \A m \in kept : m.readable => Cardinality(Reports(m)) = 1

\* A file that is reported holds the region it is reported with, of this run,
\* up to what the last flush may have lost: no later region takes its name.
FilesAsReported ==
  \A i \in DOMAIN report :
    report[i].result = "file" =>
      LET m == report[i].region
      IN  files[report[i].n] \in {Pages(m), Pages(m) \ {m.end - 1}}

\* The list ends, although each dump may add to it: a line that is passed over
\* is never looked at again.
ListEnds == <>(pc \in {"done", "failed", "killed"})

=============================================================================
