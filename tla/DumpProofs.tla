----------------------------- MODULE DumpProofs -----------------------------
(***************************************************************************)
(* Theorems about DumpSelf, for every address space, every number of lines *)
(* that stdio reads ahead and everything malloc does between two of them.  *)
(***************************************************************************)
EXTENDS DumpSelf, FiniteSetTheorems, TLAPS

-----------------------------------------------------------------------------
(* Mappings in the order of their addresses.                               *)

LEMMA RegionTypes ==
  ASSUME NEW m \in Region
  PROVE  /\ m.start \in Int /\ m.end \in Int
         /\ m.start >= 1 /\ m.start <= Top /\ m.end >= 2 /\ m.end <= Top + 1
BY DumpAssumption DEF Region, Address, DumpAssumption

\* No two mappings begin at the same address.
LEMMA StartsDiffer ==
  ASSUME NEW ms, AddressSpace(ms), NEW m \in ms, NEW o \in ms, m.start = o.start
  PROVE  m = o
<1>1. m \in Region /\ o \in Region /\ m.start < m.end /\ o.start < o.end
  BY DEF AddressSpace
<1>2. QED
  BY <1>1, RegionTypes DEF AddressSpace

LEMMA SpaceFinite ==
  ASSUME NEW ms, AddressSpace(ms)
  PROVE  IsFiniteSet(ms) /\ Cardinality(ms) \in Nat
<1> DEFINE f == [m \in ms |-> m.start]
<1>1. f \in [ms -> Address]
  BY DEF AddressSpace, Region
<1>2. \A m, o \in ms : f[m] = f[o] => m = o
  BY StartsDiffer
<1>3. f \in Injection(ms, Address)
  BY <1>1, <1>2 DEF Injection, IsInjective
<1>4. IsFiniteSet(Address)
  BY DumpAssumption, FS_Interval DEF Address, DumpAssumption
<1>5. IsFiniteSet(ms)
  BY <1>3, <1>4, FS_Injection
<1>6. QED
  BY <1>5, FS_CardinalityType

LEMMA UpToFacts ==
  ASSUME NEW ms, AddressSpace(ms), NEW m \in ms
  PROVE  /\ IsFiniteSet(UpTo(ms, m))
         /\ Cardinality(UpTo(ms, m)) \in 1..Cardinality(ms)
<1>1. UpTo(ms, m) \in SUBSET ms /\ m \in UpTo(ms, m)
  BY RegionTypes DEF UpTo, AddressSpace
<1>2. IsFiniteSet(ms) /\ Cardinality(ms) \in Nat
  BY SpaceFinite
<1>3. IsFiniteSet(UpTo(ms, m)) /\ Cardinality(UpTo(ms, m)) <= Cardinality(ms)
  BY <1>1, <1>2, FS_Subset
<1>4. Cardinality(UpTo(ms, m)) \in Nat /\ Cardinality(UpTo(ms, m)) # 0
  BY <1>1, <1>3, FS_CardinalityType, FS_EmptySet
<1>5. QED
  BY <1>2, <1>3, <1>4

\* A mapping that begins further up has more mappings up to itself.
LEMMA UpToGrows ==
  ASSUME NEW ms, AddressSpace(ms), NEW m \in ms, NEW o \in ms, m.start < o.start
  PROVE  Cardinality(UpTo(ms, m)) < Cardinality(UpTo(ms, o))
<1>1. m \in Region /\ o \in Region
  BY DEF AddressSpace
<1>2. UpTo(ms, m) \subseteq UpTo(ms, o)
  <2>1. \A p \in ms : p \in Region
    BY DEF AddressSpace
  <2>2. QED
    BY <1>1, <2>1, RegionTypes DEF UpTo
<1>3. o \in UpTo(ms, o) /\ o \notin UpTo(ms, m)
  BY <1>1, RegionTypes DEF UpTo
<1>4. /\ IsFiniteSet(UpTo(ms, o)) /\ Cardinality(UpTo(ms, o)) \in Nat
      /\ Cardinality(UpTo(ms, m)) \in Nat
  BY UpToFacts, SpaceFinite
<1>5. /\ Cardinality(UpTo(ms, m)) <= Cardinality(UpTo(ms, o))
      /\ Cardinality(UpTo(ms, m)) # Cardinality(UpTo(ms, o))
  BY <1>2, <1>3, <1>4, FS_Subset
<1>6. QED
  BY <1>4, <1>5

\* InOrder lists each mapping once, by address.
LEMMA Listing ==
  ASSUME NEW ms, AddressSpace(ms)
  PROVE  /\ InOrder(ms) \in Seq(ms)
         /\ DOMAIN InOrder(ms) = 1..Cardinality(ms)
         /\ \A m \in ms : \E i \in 1..Cardinality(ms) : InOrder(ms)[i] = m
         /\ \A i, j \in 1..Cardinality(ms) :
              i < j => /\ InOrder(ms)[i].start < InOrder(ms)[j].start
                       /\ InOrder(ms)[i].end <= InOrder(ms)[j].start
<1> DEFINE n == Cardinality(ms)
           rank == [m \in ms |-> Cardinality(UpTo(ms, m))]
           s == InOrder(ms)
<1>1. n \in Nat /\ IsFiniteSet(ms) /\ \A m \in ms : m \in Region
  BY SpaceFinite DEF AddressSpace
<1>2. rank \in [ms -> 1..n]
  BY UpToFacts
<1>3. \A m, o \in ms : rank[m] = rank[o] => m = o
  <2>1. SUFFICES ASSUME NEW m \in ms, NEW o \in ms, m # o
                 PROVE  rank[m] # rank[o]
    OBVIOUS
  <2>2. m.start < o.start \/ o.start < m.start
    BY <1>1, <2>1, StartsDiffer, RegionTypes
  <2>3. rank[m] < rank[o] \/ rank[o] < rank[m]
    BY <2>2, UpToGrows
  <2>4. QED
    BY <1>1, <1>2, <2>3
<1>4. rank \in Surjection(ms, 1..n)
  <2>1. rank \in Injection(ms, 1..n)
    BY <1>2, <1>3 DEF Injection, IsInjective
  <2>2. IsFiniteSet(1..n) /\ Cardinality(1..n) = n
    BY <1>1, FS_Interval
  <2>3. QED
    BY <2>1, <2>2, FS_Injection
<1>5. \A i \in 1..n : s[i] \in ms /\ rank[s[i]] = i
  <2>1. SUFFICES ASSUME NEW i \in 1..n PROVE s[i] \in ms /\ rank[s[i]] = i
    OBVIOUS
  <2>2. \E m \in ms : Cardinality(UpTo(ms, m)) = i
    BY <1>4, <2>1 DEF Surjection
  <2>3. s[i] = CHOOSE m \in ms : Cardinality(UpTo(ms, m)) = i
    BY <2>1 DEF InOrder
  <2>4. QED
    BY <2>2, <2>3
<1>6. DOMAIN s = 1..n
  BY DEF InOrder
<1>7. s \in Seq(ms)
  <2>1. s \in [1..n -> ms]
    BY <1>5, <1>6 DEF InOrder
  <2> HIDE DEF s, n
  <2>2. QED
    BY <1>1, <2>1
<1>8. \A m \in ms : \E i \in 1..n : s[i] = m
  <2>1. SUFFICES ASSUME NEW m \in ms PROVE s[rank[m]] = m /\ rank[m] \in 1..n
    OBVIOUS
  <2>2. QED
    BY <1>2, <1>3, <1>5
<1>9. \A i, j \in 1..n : i < j => /\ s[i].start < s[j].start
                                  /\ s[i].end <= s[j].start
  <2>1. SUFFICES ASSUME NEW i \in 1..n, NEW j \in 1..n, i < j
                 PROVE  s[i].start < s[j].start /\ s[i].end <= s[j].start
    OBVIOUS
  <2>2. /\ s[i] \in ms /\ s[j] \in ms /\ s[i] \in Region /\ s[j] \in Region
        /\ rank[s[i]] = i /\ rank[s[j]] = j
    BY <1>1, <1>5
  <2>3. ~(s[j].start < s[i].start)
    <3>1. s[j].start < s[i].start => j < i
      BY <2>2, UpToGrows
    <3>2. QED
      BY <2>1, <3>1
  <2>4. s[i] # s[j]
    BY <2>1, <2>2
  <2>5. s[i].end <= s[j].start \/ s[j].end <= s[i].start
    BY <2>2, <2>4 DEF AddressSpace
  <2>6. s[i].start < s[i].end /\ s[j].start < s[j].end
    BY <2>2 DEF AddressSpace
  <2> HIDE DEF s
  <2>7. QED
    BY <2>2, <2>3, <2>5, <2>6, RegionTypes
<1>10. QED
  BY <1>6, <1>7, <1>8, <1>9

-----------------------------------------------------------------------------
(* The inductive invariant.                                                *)

Report == [n : Address, region : Region, result : {"SKIPPED", "FAILED", "file"}]

TypeOK ==
  /\ AddressSpace(maps)
  /\ listed \in 0..Top + 1
  /\ ahead \in Seq(Region)
  /\ region_count \in Nat
  /\ files \in [Address -> SUBSET (Address \cup Old)]
  /\ pc \in {"open", "fgets", "done", "failed", "killed"}
  /\ report \in Seq(Report)

\* Each line moves the kernel on by an address, so there are at most Top.
LinesFit == region_count + Len(ahead) <= IF listed = 0 THEN 0 ELSE listed - 1

\* The lines are numbered from 1.
Numbered ==
  /\ Len(report) = region_count
  /\ \A i \in DOMAIN report : report[i].n = i

Waiting(m) == {i \in DOMAIN ahead : ahead[i] = m}

\* A mapping that has not changed is still to be listed, or waits in the
\* buffer, or has been reported, and each of that once.
Once(m) ==
  \/ m.end > listed /\ Waiting(m) = {} /\ Reports(m) = {}
  \/ /\ m.end <= listed
     /\ m.readable => \/ Reports(m) = {} /\ \E i \in DOMAIN ahead : Waiting(m) = {i}
                      \/ Waiting(m) = {} /\ \E i \in DOMAIN report : Reports(m) = {i}

KeptOnce ==
  /\ kept \subseteq maps
  /\ pc = "done" => ahead = <<>> /\ \A m \in maps : m.end <= listed
  /\ \A m \in kept : Once(m)

IInv == TypeOK /\ LinesFit /\ Numbered /\ KeptOnce /\ FilesAsReported

-----------------------------------------------------------------------------
(* The parts of a step.                                                    *)

\* malloc never makes two mappings overlap, and what it has not touched is
\* still there.
LEMMA RemappedSpace ==
  ASSUME TypeOK, kept \subseteq maps, Remapped
  PROVE  AddressSpace(maps') /\ kept' \subseteq maps' /\ kept' \subseteq kept
<1>1. AddressSpace(maps) /\ \A o \in maps : o \in Region /\ o.start < o.end
  BY DEF TypeOK, AddressSpace
<1>2. CASE UNCHANGED maps
  BY <1>1, <1>2 DEF Remapped
<1>3. ASSUME NEW m \in New, maps' = maps \cup {m}
      PROVE  AddressSpace(maps')
  <2>1. /\ m \in Region /\ m.end = m.start + 1
        /\ \A o \in maps : m.start \notin Pages(o)
    BY <1>3 DEF New, Vacant
  <2>2. \A o \in maps : m.end <= o.start \/ o.end <= m.start
    BY <1>1, <2>1, RegionTypes DEF Pages
  <2>3. m.start < m.end
    BY <2>1, RegionTypes
  <2>4. QED
    BY <1>1, <1>3, <2>1, <2>2, <2>3 DEF AddressSpace
<1>4. ASSUME NEW m \in Grown, maps' = {o \in maps : o.start # m.start} \cup {m}
      PROVE  AddressSpace(maps')
  <2>1. PICK o \in maps : Vacant(o.end) /\ m = [o EXCEPT !.end = o.end + 1]
    BY <1>4 DEF Grown
  <2>2. m \in Region /\ m.start = o.start /\ m.end = o.end + 1
    BY <1>1, <1>4, <2>1 DEF Grown, Region
  <2>3. \A p \in maps : p.start # m.start => m.end <= p.start \/ p.end <= m.start
    <3>1. SUFFICES ASSUME NEW p \in maps, p.start # o.start
                   PROVE  o.end + 1 <= p.start \/ p.end <= o.start
      BY <2>2
    <3>2. o.end <= p.start \/ p.end <= o.start
      BY <1>1, <3>1 DEF AddressSpace
    <3>3. o.end \notin Pages(p)
      BY <2>1 DEF Vacant
    <3>4. QED
      BY <1>1, <3>2, <3>3, RegionTypes DEF Pages
  <2>4. m.start < m.end
    BY <1>1, <2>2, RegionTypes
  <2>5. QED
    BY <1>1, <1>4, <2>2, <2>3, <2>4 DEF AddressSpace
<1>5. ASSUME NEW m \in maps, maps' = maps \ {m} PROVE AddressSpace(maps')
  BY <1>1, <1>5 DEF AddressSpace
<1>6. AddressSpace(maps')
  BY <1>1, <1>2, <1>3, <1>4, <1>5 DEF Remapped
<1>7. QED
  BY <1>6 DEF Remapped

\* A line is taken from the buffer.
LEMMA Consumed ==
  ASSUME TypeOK, ahead # <<>>, ahead' = Tail(ahead), NEW m
  PROVE  /\ ahead' \in Seq(Region) /\ Len(ahead') = Len(ahead) - 1
         /\ Head(ahead) \in Region /\ Len(ahead) >= 1
         /\ Waiting(Head(ahead)) # {}
         /\ Waiting(m) = {} => Waiting(m)' = {}
         /\ \A i \in DOMAIN ahead :
              Waiting(m) = {i} =>
                IF m = Head(ahead) THEN Waiting(m)' = {}
                ELSE \E j \in DOMAIN ahead' : Waiting(m)' = {j}
<1>1. /\ ahead \in Seq(Region) /\ Len(ahead) \in Nat \ {0}
      /\ DOMAIN ahead = 1..Len(ahead)
      /\ ahead' \in Seq(Region) /\ Len(ahead') = Len(ahead) - 1
      /\ DOMAIN ahead' = 1..Len(ahead) - 1
      /\ \A i \in 1..Len(ahead) - 1 : ahead'[i] = ahead[i + 1]
      /\ Head(ahead) = ahead[1] /\ Head(ahead) \in Region
  BY DEF TypeOK
<1>2. Waiting(Head(ahead)) # {}
  BY <1>1 DEF Waiting
<1>3. \A j : j \in Waiting(m)' <=> j \in 1..Len(ahead) - 1 /\ j + 1 \in Waiting(m)
  BY <1>1 DEF Waiting
<1>4. ASSUME NEW i \in DOMAIN ahead, Waiting(m) = {i}
      PROVE  IF m = Head(ahead) THEN Waiting(m)' = {}
             ELSE \E j \in DOMAIN ahead' : Waiting(m)' = {j}
  <2>1. CASE m = Head(ahead)
    <3>1. i = 1
      BY <1>1, <1>4, <2>1 DEF Waiting
    <3>2. QED
      BY <1>3, <1>4, <2>1, <3>1
  <2>2. CASE m # Head(ahead)
    <3>1. i \in 1..Len(ahead) /\ i # 1
      BY <1>1, <1>4, <2>2 DEF Waiting
    <3>2. i - 1 \in DOMAIN ahead' /\ Waiting(m)' = {i - 1}
      BY <1>1, <1>3, <1>4, <3>1
    <3>3. QED
      BY <2>2, <3>2
  <2>3. QED
    BY <2>1, <2>2
<1>5. Waiting(m) = {} => Waiting(m)' = {}
  BY <1>3
<1>6. QED
  BY <1>1, <1>2, <1>4, <1>5

\* A line is added to the report.
LEMMA Appended ==
  ASSUME TypeOK, Numbered, Number \in Address, NEW h \in Region,
         NEW result \in {"SKIPPED", "FAILED", "file"}, Reported(h, result)
  PROVE  /\ report' \in Seq(Report) /\ Len(report') = region_count + 1
         /\ DOMAIN report' = DOMAIN report \cup {Number}
         /\ \A i \in DOMAIN report : report'[i] = report[i] /\ i # Number
         /\ report'[Number] = [n |-> Number, region |-> h, result |-> result]
<1>1. PICK r \in Report : r = [n |-> Number, region |-> h, result |-> result]
  BY DEF Report
<1>2. report \in Seq(Report) /\ report' = Append(report, r) /\ Len(report) \in Nat
      /\ Len(report) = region_count
  BY <1>1 DEF TypeOK, Reported, Numbered
<1>3. QED
  BY <1>1, <1>2 DEF Number

\* Taking a line and reporting it, if it is readable, counts a mapping once.
LEMMA TakenOnce ==
  ASSUME TypeOK, Numbered, Number \in Address, ahead # <<>>, ahead' = Tail(ahead),
         listed' = listed, NEW m, Once(m),
         \/ ~Head(ahead).readable /\ UNCHANGED report
         \/ \E result \in {"SKIPPED", "FAILED", "file"} : Reported(Head(ahead), result)
  PROVE  Once(m)'
<1>0. PICK h \in Region : h = Head(ahead)
  BY Consumed
<1>1. CASE m # h
  <2>1. Reports(m)' = Reports(m) /\ DOMAIN report \subseteq DOMAIN report'
    <3>1. CASE UNCHANGED report
      BY <3>1 DEF Reports
    <3>2. ASSUME NEW result \in {"SKIPPED", "FAILED", "file"}, Reported(h, result)
          PROVE  Reports(m)' = Reports(m) /\ DOMAIN report \subseteq DOMAIN report'
      <4>1. /\ DOMAIN report' = DOMAIN report \cup {Number}
            /\ \A i \in DOMAIN report : report'[i] = report[i]
            /\ report'[Number] = [n |-> Number, region |-> h, result |-> result]
        BY <3>2, Appended, Zenon
      <4>3. QED
        BY <1>1, <4>1 DEF Reports
    <3>3. QED
      BY <1>0, <3>1, <3>2
  <2>2. Waiting(m) = {} => Waiting(m)' = {}
    BY Consumed
  <2>3. \A i \in DOMAIN ahead : Waiting(m) = {i}
          => \E j \in DOMAIN ahead' : Waiting(m)' = {j}
    BY <1>0, <1>1, Consumed
  <2>4. QED
    BY <2>1, <2>2, <2>3 DEF Once
<1>2. CASE m = h
  <2>1. /\ m.end <= listed
        /\ m.readable => Reports(m) = {} /\ \E i \in DOMAIN ahead : Waiting(m) = {i}
    BY <1>0, <1>2, Consumed DEF Once
  <2>2. CASE ~m.readable
    BY <2>1, <2>2 DEF Once
  <2>3. CASE m.readable
    <3>1. Waiting(m)' = {}
      BY <1>0, <1>2, <2>1, <2>3, Consumed
    <3>2. PICK result \in {"SKIPPED", "FAILED", "file"} : Reported(h, result)
      BY <1>0, <1>2, <2>3
    <3>3. /\ DOMAIN report' = DOMAIN report \cup {Number}
          /\ \A i \in DOMAIN report : report'[i] = report[i]
          /\ report'[Number] = [n |-> Number, region |-> h, result |-> result]
      BY <3>2, Appended, Zenon
    <3>4. Reports(m)' = {Number} /\ Number \in DOMAIN report'
      BY <1>2, <2>1, <2>3, <3>3 DEF Reports
    <3>5. QED
      BY <2>1, <3>1, <3>4 DEF Once
  <2>4. QED
    BY <2>2, <2>3
<1>3. QED
  BY <1>1, <1>2

Left == {m \in maps : m.end > listed}

LEMMA LeftSpace ==
  ASSUME TypeOK
  PROVE  /\ AddressSpace(Left) /\ Unlisted = InOrder(Left)
         /\ Cardinality(Left) \in Nat
<1>1. AddressSpace(Left)
  BY DEF TypeOK, AddressSpace, Left
<1>2. QED
  BY <1>1, SpaceFinite DEF Unlisted, Left

\* As many lines as addresses the kernel has moved on by, at most.
LEMMA LinesByAddress ==
  ASSUME TypeOK, NEW n \in 1..Cardinality(Left), NEW from \in Nat,
         \A i \in 1..n : Unlisted[i].end > from
  PROVE  n <= Unlisted[n].end - from
<1> DEFINE f == [i \in 1..n |-> Unlisted[i].end]
           top == Unlisted[n].end
<1>1. /\ Cardinality(Left) \in Nat /\ n \in Nat
      /\ \A i \in 1..n : i \in 1..Cardinality(Left)
  BY LeftSpace
<1>2. \A i \in 1..n : /\ Unlisted[i] \in Region
                      /\ Unlisted[i].start < Unlisted[i].end
  <2>1. \A i \in 1..n : Unlisted[i] \in Left
    BY <1>1, LeftSpace, Listing
  <2>2. QED
    BY <2>1, LeftSpace DEF AddressSpace
<1>3. \A i, j \in 1..n : i < j => Unlisted[i].end <= Unlisted[j].start
  BY <1>1, LeftSpace, Listing
<1>4. \A i, j \in 1..n : i < j => Unlisted[i].end < Unlisted[j].end
  BY <1>2, <1>3, RegionTypes
<1>5. top \in Int /\ \A i \in 1..n : Unlisted[i].end \in from + 1..top
  <2>1. SUFFICES ASSUME NEW i \in 1..n PROVE Unlisted[i].end \in from + 1..top
    BY <1>1, <1>2, RegionTypes
  <2>2. Unlisted[i].end \in Int /\ top \in Int /\ Unlisted[i].end > from
    BY <1>1, <1>2, RegionTypes
  <2>3. i = n \/ i < n
    BY <1>1
  <2>4. QED
    BY <1>1, <1>4, <2>2, <2>3
<1>6. f \in Injection(1..n, from + 1..top)
  <2>1. f \in [1..n -> from + 1..top]
    BY <1>5
  <2>2. \A i, j \in 1..n : f[i] = f[j] => i = j
    <3>1. SUFFICES ASSUME NEW i \in 1..n, NEW j \in 1..n, i # j
                   PROVE  Unlisted[i].end # Unlisted[j].end
      OBVIOUS
    <3>2. i < j \/ j < i
      BY <1>1, <3>1
    <3>3. QED
      BY <1>1, <1>4, <1>5, <3>2
  <2>3. QED
    BY <2>1, <2>2 DEF Injection, IsInjective
<1> HIDE DEF f, top
<1>7. /\ IsFiniteSet(from + 1..top) /\ Cardinality(1..n) = n
      /\ Cardinality(from + 1..top) = IF from + 1 > top THEN 0 ELSE top - from
  <2>1. IsFiniteSet(from + 1..top)
        /\ Cardinality(from + 1..top)
             = IF from + 1 > top THEN 0 ELSE top - (from + 1) + 1
    BY <1>5, FS_Interval
  <2>2. Cardinality(1..n) = n
    BY <1>1, FS_Interval
  <2>3. QED
    BY <1>5, <2>1, <2>2
<1>8. n <= Cardinality(from + 1..top)
  BY <1>6, <1>7, FS_Injection
<1>9. n <= top - from
  BY <1>1, <1>5, <1>7, <1>8
<1>10. QED
  BY <1>9 DEF top

\* The kernel gives the next n lines.
LEMMA FillOnce ==
  ASSUME TypeOK, LinesFit, KeptOnce, ahead = <<>>,
         NEW n \in DOMAIN Unlisted,
         ahead' = SubSeq(Unlisted, 1, n), listed' = Unlisted[n].end,
         UNCHANGED <<maps, kept, report, region_count>>
  PROVE  /\ ahead' \in Seq(Region) /\ listed' \in 0..Top + 1
         /\ LinesFit' /\ \A m \in kept : Once(m)'
<1> DEFINE c == Cardinality(Left)
<1>1. /\ AddressSpace(Left) /\ c \in Nat /\ DOMAIN Unlisted = 1..c
      /\ Unlisted \in Seq(Left)
      /\ \A m \in Left : \E i \in 1..c : Unlisted[i] = m
      /\ \A i, j \in 1..c : i < j => /\ Unlisted[i].start < Unlisted[j].start
                                     /\ Unlisted[i].end <= Unlisted[j].start
  BY LeftSpace, Listing
<1>2. \A i \in 1..c : /\ Unlisted[i] \in Left /\ Unlisted[i] \in Region
                      /\ Unlisted[i].start < Unlisted[i].end
                      /\ Unlisted[i].end > listed
  BY <1>1 DEF AddressSpace, Left
<1>3. n \in 1..c /\ n \in Nat /\ \A i \in 1..n : i \in 1..c
  BY <1>1
<1>4. /\ ahead' \in Seq(Region) /\ Len(ahead') = n /\ DOMAIN ahead' = 1..n
      /\ \A i \in 1..n : ahead'[i] = Unlisted[i]
  <2>1. PICK s \in Seq(Left) : s = Unlisted /\ Len(s) = c
    BY <1>1
  <2>2. /\ ahead' = SubSeq(s, 1, n) /\ Len(SubSeq(s, 1, n)) = n
        /\ SubSeq(s, 1, n) \in Seq(Left)
        /\ \A i \in 1..n : SubSeq(s, 1, n)[i] = s[i]
    BY <1>1, <1>3, <2>1
  <2>3. Seq(Left) \subseteq Seq(Region)
    BY <1>1 DEF AddressSpace
  <2>4. QED
    BY <1>3, <2>1, <2>2, <2>3
<1>5. listed \in Nat /\ listed' \in Int /\ listed' > listed /\ listed' <= Top + 1
      /\ listed' >= 2
  BY <1>2, <1>3, RegionTypes, DumpAssumption DEF TypeOK, DumpAssumption
<1>6. LinesFit'
  <2>1. PICK from \in Nat : from = IF listed = 0 THEN 1 ELSE listed
    BY <1>5
  <2>2. \A i \in 1..n : Unlisted[i].end > from
    BY <1>2, <1>3, <1>5, <2>1, RegionTypes
  <2>3. n <= listed' - from
    BY <1>3, <2>2, LinesByAddress
  <2>4. region_count' = region_count /\ region_count \in Nat
        /\ region_count <= from - 1
    BY <2>1, <1>5 DEF LinesFit, TypeOK
  <2>5. QED
    BY <1>3, <1>4, <1>5, <2>1, <2>3, <2>4 DEF LinesFit
<1>7. ASSUME NEW m \in kept PROVE Once(m)'
  <2>1. m \in maps /\ Once(m) /\ Reports(m)' = Reports(m) /\ report' = report
    BY <1>7 DEF KeptOnce, Reports
  <2>2. m \in Region /\ m.start < m.end /\ Waiting(m) = {}
    BY <2>1 DEF TypeOK, AddressSpace, Waiting
  <2>3. Waiting(m)' = {i \in 1..n : Unlisted[i] = m}
    BY <1>4 DEF Waiting
  <2>4. CASE m.end <= listed
    <3>1. m.readable => \E i \in DOMAIN report : Reports(m) = {i}
      BY <1>5, <2>1, <2>2, <2>4, RegionTypes DEF Once
    <3>2. Waiting(m)' = {}
      BY <1>2, <1>3, <1>5, <2>2, <2>3, <2>4, RegionTypes
    <3>3. m.end <= listed'
      BY <1>5, <2>2, <2>4, RegionTypes
    <3>4. QED
      BY <2>1, <3>1, <3>2, <3>3 DEF Once
  <2>5. CASE m.end > listed
    <3>1. Reports(m) = {}
      BY <1>5, <2>1, <2>2, <2>5, RegionTypes DEF Once
    <3>2. PICK j \in 1..c : Unlisted[j] = m
      BY <1>1, <2>1, <2>5 DEF Left
    <3>3. \A i \in 1..c : Unlisted[i] = m => i = j
      <4>1. m.start \in Int
        BY <2>2, RegionTypes
      <4>2. SUFFICES ASSUME NEW i \in 1..c, Unlisted[i] = m, i # j PROVE FALSE
        OBVIOUS
      <4>3. i < j \/ j < i
        BY <1>1, <4>2
      <4>4. m.start < m.start
        BY <1>1, <3>2, <4>2, <4>3
      <4>5. QED
        BY <4>1, <4>4
    <3>4. CASE j <= n
      <4>1. j \in 1..n /\ Waiting(m)' = {j}
        BY <1>1, <1>3, <2>3, <3>2, <3>3, <3>4
      <4>2. m.end <= listed'
        <5>1. CASE j = n
          BY <1>5, <2>2, <3>2, <5>1, RegionTypes
        <5>2. CASE j < n
          <6>1. m.end <= Unlisted[n].start
            BY <1>1, <1>3, <3>2, <5>2
          <6>2. Unlisted[n] \in Region /\ Unlisted[n].start < listed'
            BY <1>2, <1>3
          <6>3. QED
            BY <1>5, <2>2, <6>1, <6>2, RegionTypes
        <5>3. QED
          BY <1>1, <1>3, <3>4, <5>1, <5>2
      <4>3. QED
        BY <1>4, <2>1, <3>1, <4>1, <4>2 DEF Once
    <3>5. CASE n < j
      <4>1. Waiting(m)' = {}
        BY <1>3, <2>3, <3>3, <3>5
      <4>2. m.end > listed'
        BY <1>1, <1>2, <1>3, <1>5, <2>2, <3>2, <3>5, RegionTypes
      <4>3. QED
        BY <2>1, <3>1, <4>1, <4>2 DEF Once
    <3>6. QED
      BY <1>1, <1>3, <3>4, <3>5
  <2>6. QED
    BY <1>5, <2>2, <2>4, <2>5, RegionTypes
<1>8. QED
  BY <1>4, <1>5, <1>6, <1>7

\* A buffered line leaves a number for its file.
LEMMA NumberFits ==
  ASSUME TypeOK, LinesFit, ahead # <<>>
  PROVE  Number \in Address
<1>1. /\ Len(ahead) \in Nat /\ Len(ahead) >= 1 /\ region_count \in Nat
      /\ listed \in 0..Top + 1
  BY DEF TypeOK
<1>2. QED
  BY <1>1, DumpAssumption DEF LinesFit, Number, Address, DumpAssumption

\* Taking a line keeps the bound, whether it is counted or not.
LEMMA TakenFits ==
  ASSUME TypeOK, LinesFit, ahead # <<>>, ahead' = Tail(ahead), listed' = listed,
         region_count' \in {region_count, region_count + 1}
  PROVE  LinesFit' /\ region_count' \in Nat
<1>1. /\ Len(ahead) \in Nat \ {0} /\ Len(ahead') = Len(ahead) - 1
      /\ region_count \in Nat /\ listed \in 0..Top + 1
  BY DEF TypeOK
<1>2. QED
  BY <1>1, DumpAssumption DEF LinesFit, DumpAssumption

\* The pages of a mapping, counted from its first one.
LEMMA WholeRegion ==
  ASSUME NEW m \in Region
  PROVE  m.start..m.start + Cardinality(Pages(m)) - 1 = Pages(m)
<1>1. m.start \in Int /\ m.end \in Int
  BY RegionTypes
<1>2. Cardinality(Pages(m)) = IF m.start > m.end - 1 THEN 0 ELSE m.end - m.start
  <2>1. Cardinality(Pages(m))
          = IF m.start > m.end - 1 THEN 0 ELSE (m.end - 1) - m.start + 1
    BY <1>1, FS_Interval DEF Pages
  <2>2. QED
    BY <1>1, <2>1
<1>3. QED
  BY <1>1, <1>2 DEF Pages

\* A line that is counted, whatever becomes of its file.
LEMMA CountedLine ==
  ASSUME IInv, NEW h \in Region, ahead # <<>>, h = Head(ahead), h.readable,
         ahead' = Tail(ahead), listed' = listed, region_count' = region_count + 1,
         pc = "fgets", pc' = "fgets", Remapped,
         NEW result \in {"SKIPPED", "FAILED", "file"}, Reported(h, result),
         files' \in [Address -> SUBSET (Address \cup Old)],
         \A i \in Address : i # Number => files'[i] = files[i],
         result = "file" => files'[Number] \in {Pages(h), Pages(h) \ {h.end - 1}}
  PROVE  IInv'
<1> USE DEF IInv
<1>1. Number \in Address
  BY NumberFits
<1>2. /\ AddressSpace(maps') /\ kept' \subseteq maps' /\ kept' \subseteq kept
  BY RemappedSpace DEF KeptOnce
<1>3. /\ report' \in Seq(Report) /\ Len(report') = region_count + 1
      /\ DOMAIN report' = DOMAIN report \cup {Number}
      /\ \A i \in DOMAIN report : report'[i] = report[i] /\ i # Number
      /\ report'[Number] = [n |-> Number, region |-> h, result |-> result]
  BY <1>1, Appended
<1>4. ahead' \in Seq(Region)
  BY Consumed
<1>5. LinesFit' /\ region_count' \in Nat
  BY TakenFits
<1>6. TypeOK'
  BY <1>2, <1>3, <1>4, <1>5 DEF TypeOK
<1>7. Numbered'
  BY <1>3 DEF Numbered
<1>8. KeptOnce'
  <2>1. ASSUME NEW m \in kept' PROVE Once(m)'
    <3>1. Once(m)
      BY <1>2, <2>1 DEF KeptOnce
    <3>2. QED
      BY <1>1, <3>1, TakenOnce
  <2>2. QED
    BY <1>2, <2>1 DEF KeptOnce
<1>9. FilesAsReported'
  <2>1. SUFFICES ASSUME NEW i \in DOMAIN report', report'[i].result = "file"
                 PROVE  files'[report'[i].n]
                          \in {Pages(report'[i].region),
                               Pages(report'[i].region) \ {report'[i].region.end - 1}}
    BY DEF FilesAsReported, Pages
  <2>2. CASE i \in DOMAIN report
    <3>1. report'[i] = report[i] /\ i # Number /\ report[i].n = i
      BY <1>3, <2>2 DEF Numbered
    <3>2. report[i] \in Report
      BY <2>2 DEF TypeOK
    <3>3. i \in Address
      BY <3>1, <3>2 DEF Report
    <3>4. files[i] \in {Pages(report[i].region),
                        Pages(report[i].region) \ {report[i].region.end - 1}}
      BY <2>1, <2>2, <3>1 DEF FilesAsReported
    <3>5. QED
      BY <3>1, <3>3, <3>4
  <2>3. CASE i = Number
    BY <1>3, <2>1, <2>3
  <2>4. QED
    BY <1>3, <2>2, <2>3
<1>10. QED
  BY <1>5, <1>6, <1>7, <1>8, <1>9

-----------------------------------------------------------------------------
(* The steps.                                                              *)

LEMMA IInvInit == Init => IInv
<1> SUFFICES ASSUME Init PROVE IInv
  OBVIOUS
<1>1. TypeOK
  <2>1. AddressSpace(maps)
    BY DumpAssumption DEF Init, DumpAssumption
  <2>2. files \in [Address -> SUBSET (Address \cup Old)]
    BY DEF Init, Old
  <2>3. ahead \in Seq(Region) /\ report \in Seq(Report)
    BY DEF Init
  <2>4. QED
    BY <2>1, <2>2, <2>3, DumpAssumption DEF Init, TypeOK, DumpAssumption
<1>2. LinesFit /\ Numbered /\ FilesAsReported
  BY DEF Init, LinesFit, Numbered, FilesAsReported
<1>3. KeptOnce
  <2>1. ASSUME NEW m \in kept PROVE Once(m)
    <3>1. m \in Region
      BY <1>1 DEF Init, TypeOK, AddressSpace
    <3>2. QED
      BY <3>1, RegionTypes DEF Init, Once, Waiting, Reports
  <2>2. QED
    BY <2>1 DEF Init, KeptOnce
<1>4. QED
  BY <1>1, <1>2, <1>3 DEF IInv

LEMMA IInvNext == IInv /\ [Next]_vars => IInv'
<1> SUFFICES ASSUME IInv, [Next]_vars PROVE IInv'
  OBVIOUS
<1> USE DEF IInv
<1>1. CASE OpenMaps
  <2>1. AddressSpace(maps') /\ kept' \subseteq maps' /\ kept' \subseteq kept
    BY <1>1, RemappedSpace DEF OpenMaps, KeptOnce
  <2>2. TypeOK'
    BY <1>1, <2>1 DEF OpenMaps, TypeOK
  <2>3. KeptOnce'
    BY <1>1, <2>1 DEF OpenMaps, KeptOnce, Once, Waiting, Reports
  <2>4. QED
    BY <1>1, <2>2, <2>3 DEF OpenMaps, LinesFit, Numbered, FilesAsReported, Pages
<1>2. CASE Fill
  <2>1. Numbered' /\ FilesAsReported' /\ kept' \subseteq maps'
    BY <1>2 DEF Fill, Numbered, FilesAsReported, Pages, KeptOnce
  <2>2. CASE Unlisted = <<>>
    <3>1. \A m \in maps : m.end <= listed
      <4>1. Left = {}
        <5>1. /\ Cardinality(Left) \in Nat /\ DOMAIN Unlisted = 1..Cardinality(Left)
              /\ \A m \in Left : \E i \in 1..Cardinality(Left) : Unlisted[i] = m
          BY LeftSpace, Listing
        <5>2. DOMAIN Unlisted = {}
          BY <2>2
        <5>3. QED
          BY <5>1, <5>2
      <4>2. \A m \in maps : m.end \in Int
        BY RegionTypes DEF TypeOK, AddressSpace
      <4>3. QED
        BY <4>1, <4>2 DEF Left, TypeOK
    <3>2. UNCHANGED <<maps, listed, ahead, region_count, files, report, kept>>
          /\ pc' = "done" /\ ahead = <<>>
      BY <1>2, <2>2 DEF Fill
    <3>3. TypeOK' /\ LinesFit'
      BY <3>2 DEF TypeOK, LinesFit
    <3>4. KeptOnce'
      BY <3>1, <3>2 DEF KeptOnce, Once, Waiting, Reports
    <3>5. QED
      BY <2>1, <3>3, <3>4
  <2>3. CASE Unlisted # <<>>
    <3>1. PICK n \in DOMAIN Unlisted :
            ahead' = SubSeq(Unlisted, 1, n) /\ listed' = Unlisted[n].end
      BY <1>2, <2>3 DEF Fill
    <3>2. UNCHANGED <<maps, region_count, files, pc, report, kept>>
          /\ ahead = <<>> /\ pc = "fgets"
      BY <1>2, <2>3 DEF Fill
    <3>3. /\ ahead' \in Seq(Region) /\ listed' \in 0..Top + 1
          /\ LinesFit' /\ \A m \in kept : Once(m)'
      BY <3>1, <3>2, FillOnce
    <3>4. TypeOK'
      BY <3>2, <3>3 DEF TypeOK
    <3>5. KeptOnce'
      BY <2>1, <3>2, <3>3 DEF KeptOnce
    <3>6. QED
      BY <2>1, <3>3, <3>4, <3>5
  <2>4. QED
    BY <2>2, <2>3
<1>3. CASE Unreadable
  <2>1. /\ ahead # <<>> /\ ahead' = Tail(ahead) /\ ~Head(ahead).readable
        /\ pc = "fgets"
        /\ UNCHANGED <<maps, listed, region_count, files, pc, report, kept>>
    BY <1>3 DEF Unreadable, PassedOver
  <2>2. ahead' \in Seq(Region) /\ LinesFit' /\ Number \in Address
    BY <2>1, Consumed, TakenFits, NumberFits
  <2>3. TypeOK' /\ Numbered' /\ FilesAsReported'
    BY <2>1, <2>2 DEF TypeOK, Numbered, FilesAsReported, Pages
  <2>4. KeptOnce'
    <3>1. ASSUME NEW m \in kept PROVE Once(m)'
      BY <2>1, <2>2, <3>1, TakenOnce DEF KeptOnce
    <3>2. QED
      BY <2>1, <3>1 DEF KeptOnce
  <2>5. QED
    BY <2>2, <2>3, <2>4
<1>4. CASE Skip
  <2>1. PICK h \in Region : h = Head(ahead)
    BY <1>4, Consumed DEF Skip
  <2>2. /\ ahead # <<>> /\ h.readable /\ Reported(h, "SKIPPED")
        /\ ahead' = Tail(ahead) /\ region_count' = region_count + 1
        /\ pc = "fgets" /\ pc' = "fgets" /\ Remapped
        /\ UNCHANGED <<listed, files>>
    BY <1>4, <2>1 DEF Skip, TooBig
  <2>3. QED
    BY <2>1, <2>2, CountedLine DEF TypeOK
<1>5. CASE dump_region
  <2>1. PICK h \in Region : h = Head(ahead)
    BY <1>5, Consumed DEF dump_region
  <2>2. /\ ahead # <<>> /\ h.readable /\ ahead' = Tail(ahead)
        /\ region_count' = region_count + 1
        /\ pc = "fgets" /\ pc' = "fgets" /\ Remapped /\ UNCHANGED listed
    BY <1>5, <2>1 DEF dump_region, Wanted
  <2>3. CASE UNCHANGED files /\ Reported(h, "FAILED")
    BY <2>1, <2>2, <2>3, CountedLine DEF TypeOK
  <2>4. ASSUME NEW k \in 0..Cardinality(Pages(h)), NEW unflushed \in {{}, {h.end - 1}},
               \A a \in h.start..h.start + k - 1 : Accessible(a),
               files' = [files EXCEPT ![Number] =
                           (h.start..h.start + k - 1) \ unflushed],
               Reported(h, IF Complete(h, k) THEN "file" ELSE "FAILED")
        PROVE  IInv'
    <3>1. Number \in Address
      BY <2>2, NumberFits
    <3>2. PICK result \in {"file", "FAILED"} :
            result = IF Complete(h, k) THEN "file" ELSE "FAILED"
      OBVIOUS
    <3>3. \A a \in h.start..h.start + k - 1 : a \in Address
      <4>1. SUFFICES ASSUME NEW a \in h.start..h.start + k - 1 PROVE a \in Address
        OBVIOUS
      <4>2. PICK m \in maps : a \in Pages(m)
        BY <2>4 DEF Accessible
      <4>3. m \in Region /\ a \in m.start..m.end - 1
        BY <4>2 DEF TypeOK, AddressSpace, Pages
      <4>4. QED
        BY <4>3, RegionTypes, DumpAssumption DEF Address, DumpAssumption
    <3>4. files' \in [Address -> SUBSET (Address \cup Old)]
      BY <2>4, <3>1, <3>3 DEF TypeOK
    <3>5. /\ \A i \in Address : i # Number => files'[i] = files[i]
          /\ files'[Number] = (h.start..h.start + k - 1) \ unflushed
      BY <2>4, <3>1 DEF TypeOK
    <3>6. result = "file"
            => files'[Number] \in {Pages(h), Pages(h) \ {h.end - 1}}
      BY <2>4, <3>2, <3>5, WholeRegion DEF Complete
    <3>7. QED
      BY <2>1, <2>2, <2>4, <3>2, <3>4, <3>5, <3>6, CountedLine
  <2>5. QED
    BY <1>5, <2>1, <2>3, <2>4 DEF dump_region
<1>6. CASE Killed
  <2>1. PICK h \in Region : h = Head(ahead)
    BY <1>6 DEF Killed, TypeOK
  <2>2. /\ ahead # <<>>
        /\ \A a \in Pages(h) : Accessible(a) <=> a # h.end - 1
        /\ files' = [files EXCEPT ![Number] = Pages(h) \ {h.end - 1}]
        /\ pc' = "killed"
        /\ UNCHANGED <<maps, listed, ahead, region_count, report, kept>>
    BY <1>6, <2>1 DEF Killed
  <2>3. Number \in Address /\ \A i \in DOMAIN report : report[i].n # Number
    <3>1. region_count \in Nat /\ DOMAIN report = 1..region_count
      BY DEF TypeOK, Numbered
    <3>2. QED
      BY <2>2, <3>1, NumberFits DEF Numbered, Number
  <2>4. Pages(h) \ {h.end - 1} \subseteq Address
    <3>1. SUFFICES ASSUME NEW a \in Pages(h) PROVE a \in Address
      OBVIOUS
    <3>2. /\ a \in Int /\ a >= h.start /\ a <= h.end - 1
          /\ h.start \in Int /\ h.start >= 1
          /\ h.end \in Int /\ h.end <= Top + 1 /\ Top \in Nat
      BY RegionTypes, DumpAssumption DEF Pages
    <3>3. QED
      BY <3>2 DEF Address
  <2>5. TypeOK'
    BY <2>2, <2>3, <2>4 DEF TypeOK
  <2>6. LinesFit' /\ Numbered' /\ KeptOnce'
    BY <2>2 DEF LinesFit, Numbered, KeptOnce, Once, Waiting, Reports
  <2>7. FilesAsReported'
    <3>1. \A i \in DOMAIN report : files'[report[i].n] = files[report[i].n]
      BY <2>2, <2>3 DEF TypeOK, Report
    <3>2. QED
      BY <2>2, <3>1 DEF FilesAsReported, Pages
  <2>8. QED
    BY <2>5, <2>6, <2>7
<1>7. CASE UNCHANGED vars
  BY <1>7 DEF vars, TypeOK, LinesFit, Numbered, KeptOnce, Once, Waiting, Reports,
     FilesAsReported, Pages
<1>8. QED
  BY <1>1, <1>2, <1>3, <1>4, <1>5, <1>6, <1>7 DEF Next, Ended

LEMMA IInvAlways == Spec => []IInv
BY IInvInit, IInvNext, PTL DEF Spec

\* The mappings never overlap, whatever malloc does, and every dump has a name
\* of its own: the numbers stay within the addresses.
THEOREM TypeCorrect == Spec => [](TypeOK /\ LinesFit /\ Numbered)
BY IInvAlways, PTL DEF IInv

\* However the list is cut into pieces, and whatever malloc and stdio do to
\* the mappings between them, a readable mapping that stays is reported once.
THEOREM EachReportedOnceHolds == Spec => []EachReportedOnce
<1>1. IInv => EachReportedOnce
  <2> SUFFICES ASSUME IInv, pc = "done", NEW m \in kept, m.readable
               PROVE  Cardinality(Reports(m)) = 1
    BY DEF EachReportedOnce
  <2>1. m.end <= listed /\ m \in Region /\ ahead = <<>> /\ Once(m) /\ listed \in Int
    BY DEF IInv, KeptOnce, TypeOK, AddressSpace
  <2>2. Waiting(m) = {} /\ ~(m.end > listed)
    BY <2>1, RegionTypes DEF Waiting
  <2>3. PICK i : Reports(m) = {i}
    BY <2>1, <2>2 DEF Once
  <2>4. QED
    BY <2>3, FS_Singleton
<1>2. QED
  BY IInvAlways, <1>1, PTL

\* A file that is reported holds its region at the end as well, up to what
\* the last flush may have lost.
THEOREM FilesAsReportedHolds == Spec => []FilesAsReported
BY IInvAlways, PTL DEF IInv

=============================================================================
