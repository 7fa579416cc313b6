----------------------------- MODULE TimeProofs -----------------------------
(***************************************************************************)
(* Theorems about TimeControl, for every file, every length of the days,   *)
(* hours and minutes, every interval and every setting of the clock.       *)
(***************************************************************************)
EXTENDS TimeControl, FiniteSetTheorems, TLAPS

-----------------------------------------------------------------------------
(* The time of day.                                                        *)

LEMMA Quotient ==
  ASSUME NEW a \in Nat, NEW b \in Nat \ {0}
  PROVE  \E q \in Nat, r \in 0..b - 1 :
           q = a \div b /\ r = a % b /\ a = b * q + r
<1>1. /\ a \div b \in Nat
      /\ a % b \in Nat /\ a % b < b
      /\ a = b * (a \div b) + (a % b)
  BY Z3
<1>2. a % b \in 0..b - 1
  BY <1>1
<1>3. QED
  BY <1>1, <1>2

LEMMA Monotone ==
  ASSUME NEW x \in Int, NEW y \in Int, NEW s \in Nat \ {0}
  PROVE  x <= y <=> x * s <= y * s
<1>1. (y - x) * s = y * s - x * s /\ x * s \in Int /\ y * s \in Int
  OBVIOUS
<1>2. y - x >= 0 => (y - x) * s >= 0
  OBVIOUS
<1>3. y - x < 0 => (y - x) * s < 0
  OBVIOUS
<1>4. QED
  BY <1>1, <1>2, <1>3

LEMMA SameRemainder ==
  ASSUME NEW a \in Nat \ {0}, NEW x \in Nat, NEW y \in Nat,
         NEW r \in 0..a - 1, NEW s \in 0..a - 1, a * x + r = a * y + s
  PROVE  r = s
<1>1. x * a \in Nat /\ y * a \in Nat /\ a * x = x * a /\ a * y = y * a
  OBVIOUS
<1>2. (x + 1) * a = x * a + a /\ (y + 1) * a = y * a + a
  OBVIOUS
<1>3. ~(x + 1 <= y)
  BY <1>1, <1>2, Monotone
<1>4. ~(y + 1 <= x)
  BY <1>1, <1>2, Monotone
<1>5. QED
  BY <1>1, <1>3, <1>4

\* A day is a whole number of hours, so the remainders agree.
LEMMA RemainderOfHour ==
  ASSUME NEW t \in Nat, NEW a \in Nat \ {0}, NEW h \in Nat \ {0}
  PROVE  h * a \in Nat \ {0} /\ t % a = (t % (h * a)) % a
<1>1. \A x \in Nat : \E y \in Nat, z \in 0..a - 1 : z = x % a /\ x = a * y + z
  BY Quotient
<1>2. PICK b \in Nat \ {0} : b = h * a
  OBVIOUS
<1>3. PICK q \in Nat, r \in 0..b - 1 : r = t % b /\ t = b * q + r
  BY Quotient
<1>4. PICK q2 \in Nat, r2 \in 0..a - 1 : r2 = r % a /\ r = a * q2 + r2
  <2>1. r \in Nat
    BY <1>3
  <2>2. QED
    BY <1>1, <2>1
<1>5. PICK q3 \in Nat, r3 \in 0..a - 1 : r3 = t % a /\ t = a * q3 + r3
  BY <1>1
<1>6. a * (h * q + q2) = b * q + a * q2 /\ h * q + q2 \in Nat
  BY <1>2
<1>7. b * q \in Nat /\ a * q2 \in Nat /\ a * q3 \in Nat
  OBVIOUS
<1>8. a * (h * q + q2) + r2 = a * q3 + r3
  <2>1. b * q + (a * q2 + r2) = a * q3 + r3
    BY <1>3, <1>4, <1>5
  <2>2. QED
    BY <1>6, <1>7, <2>1
<1>9. r2 = r3
  BY <1>6, <1>8, SameRemainder
<1>10. QED
  BY <1>2, <1>3, <1>4, <1>5, <1>9

MinuteNow(t) == tm_hour(t) * MINS + tm_min(t)

\* localtime: the minute that is computed is the one the instant lies in.
LEMMA MinuteOfDay ==
  ASSUME NEW t \in Instant
  PROVE  /\ tm_wday(t) \in 0..6 /\ MinuteNow(t) \in Nat /\ SECS \in Nat \ {0}
         /\ tm_wday(t) * DAY \in Nat
         /\ tm_wday(t) * DAY + MinuteNow(t) * SECS <= t
         /\ t < tm_wday(t) * DAY + (MinuteNow(t) + 1) * SECS
<1>1. PICK H \in Nat \ {0}, M \in Nat \ {0}, S \in Nat \ {0} :
         H = HOURS /\ M = MINS /\ S = SECS
  BY ScheduleAssumption DEF ScheduleAssumption
<1>2. PICK n \in Nat \ {0} : n = M * S
  OBVIOUS
<1>3. PICK D \in Nat \ {0} : D = H * n
  OBVIOUS
<1>4. DAY = D
  BY <1>1, <1>2, <1>3 DEF DAY
<1>5. t \in Nat /\ t < 7 * D
  BY <1>4 DEF Instant
<1>6. PICK w \in Nat, r \in 0..D - 1 :
         w = t \div D /\ r = t % D /\ t = D * w + r
  BY <1>5, Quotient
<1>7. PICK h \in Nat, q \in 0..n - 1 :
         h = r \div n /\ q = r % n /\ r = n * h + q
  BY <1>6, Quotient
<1>8. q = t % n
  <2>1. t % n = (t % (H * n)) % n
    BY <1>5, RemainderOfHour
  <2>2. QED
    BY <1>3, <1>6, <1>7, <2>1
<1>9. PICK m \in Nat, s \in 0..S - 1 :
         m = q \div S /\ s = q % S /\ q = S * m + s
  <2>1. q \in Nat
    BY <1>7
  <2>2. QED
    BY <2>1, Quotient
<1>10. tm_wday(t) = w /\ tm_hour(t) = h /\ tm_min(t) = m
  BY <1>1, <1>2, <1>4, <1>6, <1>7, <1>8, <1>9 DEF tm_wday, tm_hour, tm_min
<1>11. /\ (h * M + m) * S = n * h + S * m
       /\ (h * M + m + 1) * S = n * h + S * m + S
       /\ w * D = D * w
  BY <1>2
<1>12. n * h \in Nat /\ S * m \in Nat /\ w * D \in Nat /\ h * M + m \in Nat
  OBVIOUS
<1>13. w \in 0..6
  <2>1. w * D < 7 * D
    BY <1>5, <1>6, <1>11, <1>12
  <2>2. ~(7 <= w)
    BY <2>1, <1>12, Monotone
  <2>3. QED
    BY <2>2
<1>14. /\ w * D + (h * M + m) * S <= t
       /\ t < w * D + (h * M + m + 1) * S
  <2>1. PICK x \in Nat, y \in Nat, z \in Nat :
           x = w * D /\ y = n * h /\ z = S * m
    BY <1>12
  <2>2. t = x + r /\ r = y + q /\ q = z + s
    BY <1>6, <1>7, <1>9, <1>11, <2>1
  <2>3. (h * M + m) * S = y + z /\ (h * M + m + 1) * S = y + z + S
    BY <1>11, <2>1
  <2>4. r \in Int /\ q \in Int /\ s \in Int
    BY <1>6, <1>7, <1>9
  <2>5. t = x + y + z + s /\ s \in 0..S - 1
    BY <1>9, <2>2, <2>4
  <2>6. QED
    BY <2>1, <2>3, <2>5
<1>15. QED
  BY <1>1, <1>4, <1>10, <1>12, <1>13, <1>14 DEF MinuteNow

\* The comparison of minutes in is_in_time_slot is that of instants, to the end
\* of the last minute.
LEMMA SlotTest ==
  ASSUME NEW t \in Instant, NEW slot \in TimeSlot
  PROVE  /\ MinuteNow(t) >= slot.sh * MINS + slot.sm
         /\ MinuteNow(t) <= slot.eh * MINS + slot.em
         <=> SlotCovers(slot, t)
<1>1. PICK M \in Nat, S \in Nat \ {0} : M = MINS /\ S = SECS
  BY ScheduleAssumption DEF ScheduleAssumption
<1>2. PICK a \in Nat, b \in Nat :
         a = slot.sh * M + slot.sm /\ b = slot.eh * M + slot.em
  BY <1>1, ScheduleAssumption DEF TimeSlot, ScheduleAssumption
<1>3. PICK c \in Nat, d \in Nat :
         /\ c = MinuteNow(t) /\ d = tm_wday(t) * DAY
         /\ d + c * S <= t /\ t < d + (c + 1) * S
  BY <1>1, MinuteOfDay
<1>4. t \in Int
  BY ScheduleAssumption DEF Instant, ScheduleAssumption, DAY
<1>5. SlotCovers(slot, t) <=> d + a * S <= t /\ t < d + (b + 1) * S
  BY <1>1, <1>2, <1>3 DEF SlotCovers
<1>6. /\ a * S \in Int /\ c * S \in Int /\ (b + 1) * S \in Int
      /\ (c + 1) * S \in Int
  OBVIOUS
<1>7. a <= c => a * S <= c * S
  BY Monotone
<1>8. c + 1 <= a => (c + 1) * S <= a * S
  BY Monotone
<1>9. c + 1 <= b + 1 => (c + 1) * S <= (b + 1) * S
  BY Monotone
<1>10. b + 1 <= c => (b + 1) * S <= c * S
  BY Monotone
<1>11. QED
  BY <1>1, <1>2, <1>3, <1>4, <1>5, <1>6, <1>7, <1>8, <1>9, <1>10

\* Sunday, the first day of tm_wday, is the last of schedule.
LEMMA DayOf ==
  ASSUME NEW t \in Instant
  PROVE  /\ DayIndex(t) \in 1..7
         /\ DayName(t) = Days[DayIndex(t)]
         /\ \A d \in 1..7 : Days[d] = DayName(t) => d = DayIndex(t)
<1>1. tm_wday(t) \in 0..6
  BY MinuteOfDay
<1>2. tm_wday(t) \in {0, 1, 2, 3, 4, 5, 6}
  BY <1>1
<1>3. QED
  BY <1>2 DEF DayIndex, DayName, Days

-----------------------------------------------------------------------------
(* Types.                                                                  *)

LEMMA DayTypes ==
  /\ DAY \in Nat \ {0} /\ 7 * DAY \in Nat \ {0}
  /\ SetTo \subseteq Instant
  /\ CHECK_INTERVAL \in Nat \ {0} /\ MAX_TIME_SLOTS \in Nat \ {0}
<1>1. PICK D \in Nat \ {0} : D = DAY /\ 7 * HOURS * MINS * SECS = 7 * D
  <2>1. PICK H \in Nat \ {0}, M \in Nat \ {0}, S \in Nat \ {0} :
           H = HOURS /\ M = MINS /\ S = SECS
    BY ScheduleAssumption DEF ScheduleAssumption
  <2>2. PICK x \in Nat \ {0} : x = H * M
    OBVIOUS
  <2>3. 7 * H * M = 7 * x
    BY <2>2
  <2>4. PICK D \in Nat \ {0} : D = x * S
    OBVIOUS
  <2>5. 7 * x * S = 7 * D
    BY <2>4
  <2>6. QED
    BY <2>1, <2>2, <2>3, <2>4, <2>5 DEF DAY
<1>2. QED
  BY <1>1, ScheduleAssumption DEF ScheduleAssumption, Instant

\* A line names one day at most.
LEMMA OneDay ==
  ASSUME NEW l \in Line, NEW d \in 1..7, NEW e \in 1..7,
         l.day = Days[d], l.day = Days[e]
  PROVE  d = e
<1>1. d \in {1, 2, 3, 4, 5, 6, 7} /\ e \in {1, 2, 3, 4, 5, 6, 7}
  OBVIOUS
<1>2. QED
  BY <1>1 DEF Days

LEMMA SlotType ==
  ASSUME NEW w \in Word, parse_time_slot(w)
  PROVE  w[2] \in TimeSlot
BY DEF Word, Numbers, parse_time_slot, TimeSlot

LEMMA FileTypes ==
  ASSUME TypeOK, NEW i \in DOMAIN file
  PROVE  /\ file[i] \in Line /\ file[i].words \in Seq(Word)
         /\ \A k \in DOMAIN file[i].words :
              parse_time_slot(file[i].words[k])
                => file[i].words[k][2] \in TimeSlot
<1>1. file[i] \in Line
  BY DEF TypeOK
<1>2. file[i].words \in Seq(Word)
  BY <1>1 DEF Line
<1>3. QED
  BY <1>1, <1>2, SlotType

\* Where the program is, the line and the script are there.
Where ==
  /\ pc = "words" => line \in DOMAIN file
  /\ pc = "wait" <=> child # "none"

LEMMA InitTyped == Init => TypeOK /\ Where
<1>1. SUFFICES ASSUME Init PROVE TypeOK /\ Where
  OBVIOUS
<1>2. file \in Seq(Line)
  BY <1>1, ScheduleAssumption DEF Init, ScheduleAssumption
<1>3. sigchld \in {"default", "ignored"}
  BY <1>1, ScheduleAssumption DEF Init, ScheduleAssumption
<1>4. schedule \in [1..7 -> Seq(TimeSlot)]
  BY <1>1 DEF Init, NoSlots
<1>5. \A d \in 1..7 : Len(schedule[d]) <= MAX_TIME_SLOTS
  BY <1>1, DayTypes DEF Init, NoSlots
<1>6. QED
  BY <1>1, <1>2, <1>3, <1>4, <1>5, DayTypes DEF Init, TypeOK, Where

LEMMA NextTyped ==
  TypeOK /\ Where /\ [Next]_vars => TypeOK' /\ Where'
<1>1. SUFFICES ASSUME TypeOK, Where, [Next]_vars
               PROVE  TypeOK' /\ Where'
  OBVIOUS
<1>2. CASE OpenFile
  BY <1>1, <1>2 DEF TypeOK, Where, OpenFile, parseVars, loopVars
<1>3. CASE ReadLine
  <2>1. CASE line' = line
    <3>1. found' = <<>> /\ word' = 1 /\ pc' = "words"
      BY <1>1, <1>3, <2>1 DEF TypeOK, ReadLine, NoneYet
    <3>2. line \in DOMAIN file
      BY <1>1, <1>3 DEF TypeOK, ReadLine
    <3>3. found' \in Seq(TimeSlot) /\ Len(found') <= MAX_TIME_SLOTS
      BY <1>1, <3>1, DayTypes DEF TypeOK
    <3>4. QED
      BY <1>1, <1>3, <2>1, <3>1, <3>2, <3>3
         DEF TypeOK, Where, ReadLine, loopVars
  <2>2. CASE line' = line + 1 /\ UNCHANGED <<word, found, pc>>
    <3>1. line' \in 1..Len(file) + 1
      BY <1>1, <1>3, <2>2 DEF TypeOK, ReadLine
    <3>2. QED
      BY <1>1, <1>3, <2>2, <3>1 DEF TypeOK, Where, ReadLine, loopVars
  <2>3. QED
    BY <1>3, <2>1, <2>2 DEF ReadLine
<1>4. CASE ReadWord
  <2>1. line \in DOMAIN file
    BY <1>1, <1>4 DEF Where, ReadWord
  <2>2. found' \in Seq(TimeSlot) /\ Len(found') <= MAX_TIME_SLOTS
    <3>1. word \in DOMAIN file[line].words /\ Len(found) < MAX_TIME_SLOTS
      BY <1>1, <1>4, <2>1, FileTypes, SMTT(30)
         DEF TypeOK, ReadWord, MoreWords, HasRoom
    <3>2. CASE found' = found
      BY <1>1, <3>2 DEF TypeOK
    <3>3. CASE /\ parse_time_slot(file[line].words[word])
               /\ found' = Append(found, file[line].words[word][2])
      <4>1. file[line].words[word][2] \in TimeSlot
        BY <1>1, <2>1, <3>1, <3>3, FileTypes
      <4>2. QED
        BY <1>1, <3>1, <3>3, <4>1, DayTypes DEF TypeOK
    <3>4. QED
      BY <1>4, <3>2, <3>3 DEF ReadWord
  <2>3. word' \in Nat \ {0}
    BY <1>1, <1>4 DEF TypeOK, Where, ReadWord
  <2>4. QED
    BY <1>1, <1>4, <2>2, <2>3 DEF TypeOK, Where, ReadWord, loopVars
<1>5. CASE LineDone
  <2>1. /\ schedule' \in [1..7 -> Seq(TimeSlot)]
        /\ \A d \in 1..7 : Len(schedule'[d]) <= MAX_TIME_SLOTS
    BY <1>1, <1>5 DEF TypeOK, Where, LineDone
  <2>2. line' \in 1..Len(file) + 1
    BY <1>1, <1>5 DEF TypeOK, Where, LineDone
  <2>3. QED
    BY <1>1, <1>5, <2>1, <2>2 DEF TypeOK, Where, LineDone, loopVars
<1>6. CASE FileDone
  BY <1>1, <1>6 DEF TypeOK, Where, FileDone, parseVars, loopVars
<1>7. CASE Check
  BY <1>1, <1>7, DayTypes, SMTT(30) DEF TypeOK, Where, Check, parseVars
<1>8. CASE Fork
  <2>1. /\ pc' \in {"wait", "sleep"} /\ sleep_left' \in 0..CHECK_INTERVAL
        /\ child' \in {"none", "running"} /\ unserved' = 0
        /\ pc' = "wait" <=> child' # "none"
    BY <1>1, <1>8, DayTypes, SMTT(30) DEF TypeOK, Where, Fork
  <2>2. UNCHANGED <<file, sigchld, parseVars, now, read_at, report>>
    BY <1>8 DEF Fork
  <2>3. QED
    BY <1>1, <2>1, <2>2 DEF TypeOK, Where, parseVars
<1>9. CASE Wait
  <2>1. report' \in {"exited", "killed"}
    BY <1>1, <1>9 DEF TypeOK, Where, Wait, Status, Ended
  <2>2. QED
    BY <1>1, <1>9, <2>1, DayTypes DEF TypeOK, Where, Wait, parseVars
<1>10. CASE Wake
  BY <1>1, <1>10 DEF TypeOK, Where, Wake, parseVars
<1>11. CASE Tick
  <2>1. now' \in Instant
    <3>1. PICK W \in Nat \ {0} : W = 7 * DAY
      BY DayTypes
    <3>2. now + 1 \in Nat
      BY <1>1 DEF TypeOK, Where, Instant
    <3>3. (now + 1) % W \in 0..W - 1
      BY <3>2
    <3>4. QED
      BY <1>11, <3>1, <3>3 DEF Tick, Instant
  <2>2. sleep_left' \in 0..CHECK_INTERVAL
    BY <1>1, <1>11, DayTypes DEF TypeOK, Where, Tick
  <2>3. unserved' \in Nat
    BY <1>1, <1>11 DEF TypeOK, Where, Tick
  <2>4. QED
    BY <1>1, <1>11, <2>1, <2>2, <2>3 DEF TypeOK, Where, Tick, parseVars
<1>12. CASE SetClock
  BY <1>1, <1>12, DayTypes DEF TypeOK, Where, SetClock, parseVars
<1>13. CASE ScriptEnds
  BY <1>1, <1>13 DEF TypeOK, Where, ScriptEnds, parseVars
<1>14. CASE UNCHANGED vars
  BY <1>1, <1>14 DEF TypeOK, Where, vars, parseVars, loopVars
<1>15. QED
  BY <1>1, <1>2, <1>3, <1>4, <1>5, <1>6, <1>7, <1>8, <1>9, <1>10, <1>11,
     <1>12, <1>13, <1>14
     DEF Next, parse_config_file, LoopStep, Terminated

\* Every variable keeps its type; in particular no day has more slots than its
\* array has room for.
THEOREM TypeCorrect == Spec => []TypeOK
<1>1. QED
  BY InitTyped, NextTyped, PTL DEF Spec

-----------------------------------------------------------------------------
(* Reading the file.  The slots of a line are those InFile counts: the     *)
(* valid ones with fewer than MAX_TIME_SLOTS valid ones before them.       *)

Valid(ws, k) == parse_time_slot(ws[k])
EarlierValid(ws, k) == {m \in 1..k - 1 : Valid(ws, m)}
Kept(ws, k) == Valid(ws, k) /\ Cardinality(EarlierValid(ws, k)) < MAX_TIME_SLOTS
KeptUpTo(ws, n, x) == \E k \in 1..n : Kept(ws, k) /\ ws[k][2] = x
Holds(s, ws, n) == \A x : (\E j \in DOMAIN s : s[j] = x) <=> KeptUpTo(ws, n, x)
HoldsAll(s, ws) == Holds(s, ws, Len(ws))

\* The line that is being read: found holds what counts of the words so far.
Reading ==
  pc = "words" =>
    /\ DaysOf(file[line]) # {}
    /\ word <= Len(file[line].words) + 1
    /\ Cardinality(EarlierValid(file[line].words, word)) = Len(found)
    /\ Holds(found, file[line].words, word - 1)

\* Line i is the last one before line n that names day d.
LastOf(f, i, n, d) ==
  /\ i \in 1..n - 1
  /\ f[i].day = Days[d]
  /\ \A j \in 1..n - 1 : j > i => f[j].day # Days[d]

\* The lines that were read: of each day, schedule has what its last line says.
Table ==
  \A d \in 1..7 :
    \/ schedule[d] = <<>> /\ \A i \in 1..line - 1 : file[i].day # Days[d]
    \/ \E i \in 1..line - 1 :
         LastOf(file, i, line, d) /\ HoldsAll(schedule[d], file[i].words)

InLoop == pc \in {"check", "fork", "wait", "sleep"}
AllRead == InLoop => line = Len(file) + 1

LEMMA EarlierFinite ==
  ASSUME NEW ws, NEW k \in Nat
  PROVE  /\ IsFiniteSet(EarlierValid(ws, k))
         /\ Cardinality(EarlierValid(ws, k)) \in Nat
<1>1. IsFiniteSet(1..k - 1)
  BY FS_Interval
<1>2. EarlierValid(ws, k) \subseteq 1..k - 1
  BY DEF EarlierValid
<1>3. QED
  BY <1>1, <1>2, FS_Subset, FS_CardinalityType

\* Once the array is full no later word counts.
LEMMA NothingLater ==
  ASSUME NEW ws, NEW k \in Nat \ {0}, NEW m \in Nat, k <= m,
         Cardinality(EarlierValid(ws, k)) >= MAX_TIME_SLOTS
  PROVE  ~Kept(ws, m)
<1>1. EarlierValid(ws, k) \subseteq EarlierValid(ws, m)
  BY DEF EarlierValid
<1>2. Cardinality(EarlierValid(ws, k)) <= Cardinality(EarlierValid(ws, m))
  BY <1>1, EarlierFinite, FS_Subset
<1>3. QED
  BY <1>2, EarlierFinite, DayTypes DEF Kept

\* The next word: it is counted if it is valid, and it is kept.
LEMMA CountWord ==
  ASSUME NEW ws, NEW k \in Nat \ {0}
  PROVE  /\ Valid(ws, k) => Cardinality(EarlierValid(ws, k + 1))
                             = Cardinality(EarlierValid(ws, k)) + 1
         /\ ~Valid(ws, k) => EarlierValid(ws, k + 1) = EarlierValid(ws, k)
<1>1. ASSUME Valid(ws, k)
      PROVE  Cardinality(EarlierValid(ws, k + 1))
               = Cardinality(EarlierValid(ws, k)) + 1
  <2>1. EarlierValid(ws, k + 1) = EarlierValid(ws, k) \cup {k}
    BY <1>1 DEF EarlierValid
  <2>2. k \notin EarlierValid(ws, k)
    BY DEF EarlierValid
  <2>3. QED
    BY <2>1, <2>2, EarlierFinite, FS_AddElement
<1>2. ASSUME ~Valid(ws, k)
      PROVE  EarlierValid(ws, k + 1) = EarlierValid(ws, k)
  BY <1>2 DEF EarlierValid
<1>3. QED
  BY <1>1, <1>2

LEMMA KeptNext ==
  ASSUME NEW ws, NEW n \in Nat, NEW x
  PROVE  KeptUpTo(ws, n + 1, x) <=>
           \/ KeptUpTo(ws, n, x)
           \/ Kept(ws, n + 1) /\ ws[n + 1][2] = x
<1>1. 1..n + 1 = (1..n) \cup {n + 1}
  OBVIOUS
<1>2. QED
  BY <1>1 DEF KeptUpTo

LEMMA AppendHolds ==
  ASSUME NEW T, NEW s \in Seq(T), NEW y \in T, NEW x
  PROVE  (\E j \in DOMAIN Append(s, y) : Append(s, y)[j] = x) <=>
           (\E j \in DOMAIN s : s[j] = x) \/ x = y
<1>1. /\ Append(s, y) \in Seq(T) /\ Len(Append(s, y)) = Len(s) + 1
      /\ \A j \in 1..Len(s) : Append(s, y)[j] = s[j]
      /\ Append(s, y)[Len(s) + 1] = y
  OBVIOUS
<1>2. DOMAIN Append(s, y) = 1..Len(s) + 1 /\ DOMAIN s = 1..Len(s)
  BY <1>1
<1>3. 1..Len(s) + 1 = (1..Len(s)) \cup {Len(s) + 1}
  OBVIOUS
<1>4. QED
  BY <1>1, <1>2, <1>3

LEMMA ReadWordReads ==
  ASSUME TypeOK, Where, Reading, ReadWord
  PROVE  Reading'
<1>1. /\ line \in DOMAIN file /\ word \in Nat \ {0} /\ Len(found) \in Nat
      /\ pc = "words" /\ UNCHANGED <<file, line, pc>> /\ word' = word + 1
  BY DEF TypeOK, Where, ReadWord
<1>2. file[line].words \in Seq(Word) /\ word <= Len(file[line].words)
  BY <1>1, FileTypes DEF ReadWord, MoreWords
<1>3. word \in DOMAIN file[line].words
  BY <1>1, <1>2
<1>4. Len(found) < MAX_TIME_SLOTS
  BY DEF ReadWord, MoreWords, HasRoom
<1>5. /\ DaysOf(file[line]) # {}
      /\ Cardinality(EarlierValid(file[line].words, word)) = Len(found)
      /\ Holds(found, file[line].words, word - 1)
  BY <1>1 DEF Reading
<1>6. Cardinality(EarlierValid(file[line].words, word + 1)) = Len(found')
      /\ Holds(found', file[line].words, word)
  <2>1. CASE ~Valid(file[line].words, word)
    <3>1. found' = found
      BY <2>1 DEF Valid, ReadWord
    <3>2. ~Kept(file[line].words, word)
      BY <2>1 DEF Kept
    <3>3. \A x : KeptUpTo(file[line].words, word, x) <=>
                   KeptUpTo(file[line].words, word - 1, x)
      <4>1. PICK n \in Nat : n + 1 = word /\ n = word - 1
        BY <1>1
      <4>2. QED
        BY <4>1, <3>2, KeptNext
    <3>4. QED
      BY <1>1, <1>5, <2>1, <3>1, <3>3, CountWord DEF Holds
  <2>2. CASE Valid(file[line].words, word)
    <3>1. PICK y \in TimeSlot : y = file[line].words[word][2]
      BY <1>1, <1>3, <2>2, FileTypes DEF Valid
    <3>2. found' = Append(found, y) /\ found \in Seq(TimeSlot)
      BY <2>2, <3>1 DEF Valid, ReadWord, TypeOK
    <3>3. Kept(file[line].words, word)
      BY <1>4, <1>5, <2>2 DEF Kept
    <3>4. \A x : KeptUpTo(file[line].words, word, x) <=>
                   KeptUpTo(file[line].words, word - 1, x) \/ x = y
      <4>1. PICK n \in Nat : n + 1 = word /\ n = word - 1
        BY <1>1
      <4>2. \A x : KeptUpTo(file[line].words, n + 1, x) <=>
                     \/ KeptUpTo(file[line].words, n, x)
                     \/ /\ Kept(file[line].words, n + 1)
                        /\ file[line].words[n + 1][2] = x
        BY KeptNext
      <4>3. QED
        BY <4>1, <4>2, <3>1, <3>3
    <3>5. \A x : (\E j \in DOMAIN found' : found'[j] = x) <=>
                   (\E j \in DOMAIN found : found[j] = x) \/ x = y
      BY <3>2, AppendHolds
    <3>6. Holds(found', file[line].words, word)
      BY <1>5, <3>4, <3>5 DEF Holds
    <3>7. Len(found') = Len(found) + 1
      BY <3>2
    <3>8. QED
      BY <1>1, <1>5, <2>2, <3>6, <3>7, CountWord
  <2>3. QED
    BY <2>1, <2>2
<1>7. (Cardinality(EarlierValid(file[line].words, word)) = Len(found))'
      /\ Holds(found, file[line].words, word - 1)'
  <2>1. word' - 1 = word
    BY <1>1
  <2>2. QED
    BY <1>1, <1>6, <2>1
<1>8. QED
  BY <1>1, <1>2, <1>5, <1>7 DEF Reading, DaysOf

LEMMA LineDoneHolds ==
  ASSUME TypeOK, Where, Reading, LineDone
  PROVE  HoldsAll(found, file[line].words)
<1>1. /\ line \in DOMAIN file /\ word \in Nat \ {0} /\ Len(found) \in Nat
      /\ pc = "words"
  BY DEF TypeOK, Where, LineDone
<1>2. PICK n \in Nat : n = Len(file[line].words)
  BY <1>1, FileTypes
<1>3. /\ word <= n + 1
      /\ Cardinality(EarlierValid(file[line].words, word)) = Len(found)
      /\ Holds(found, file[line].words, word - 1)
  BY <1>1, <1>2 DEF Reading
<1>4. word = n + 1 \/ Len(found) >= MAX_TIME_SLOTS
  BY <1>1, <1>2, <1>3, DayTypes DEF LineDone, MoreWords, HasRoom
<1>5. CASE word = n + 1
  <2>1. word - 1 = n
    BY <1>5, <1>2
  <2>2. QED
    BY <1>2, <1>3, <2>1 DEF HoldsAll
<1>6. CASE Len(found) >= MAX_TIME_SLOTS
  <2>1. \A m \in Nat : word <= m => ~Kept(file[line].words, m)
    BY <1>1, <1>3, <1>6, NothingLater
  <2>2. \A x : KeptUpTo(file[line].words, n, x) <=>
                 KeptUpTo(file[line].words, word - 1, x)
    BY <1>1, <1>2, <1>3, <2>1 DEF KeptUpTo
  <2>3. QED
    BY <1>2, <1>3, <2>2 DEF Holds, HoldsAll
<1>7. QED
  BY <1>4, <1>5, <1>6

LEMMA ReadLineReads ==
  ASSUME TypeOK, Where, Table, ReadLine
  PROVE  Reading' /\ Table'
<1>1. /\ line \in DOMAIN file /\ line \in Nat \ {0}
      /\ UNCHANGED <<file, schedule>> /\ pc = "line"
  BY DEF TypeOK, ReadLine
<1>2. CASE /\ DaysOf(file[line]) # {} /\ found' = <<>> /\ word' = 1
           /\ pc' = "words" /\ line' = line
  <2>1. Table'
    BY <1>1, <1>2 DEF Table
  <2>2. (word <= Len(file[line].words) + 1)'
    <3>1. Len(file[line].words) \in Nat
      BY <1>1, FileTypes
    <3>2. QED
      BY <1>1, <1>2, <3>1
  <2>3. (Cardinality(EarlierValid(file[line].words, word)) = Len(found))'
    <3>1. EarlierValid(file[line].words, word)' = {}
      BY <1>2 DEF EarlierValid
    <3>2. QED
      BY <1>2, <3>1, FS_EmptySet
  <2>4. Holds(found, file[line].words, word - 1)'
    BY <1>2 DEF Holds, KeptUpTo
  <2>5. QED
    BY <1>1, <1>2, <2>1, <2>2, <2>3, <2>4 DEF Reading, DaysOf
<1>3. CASE DaysOf(file[line]) = {} /\ line' = line + 1 /\ pc' = pc
  <2>1. \A d \in 1..7 : file[line].day # Days[d]
    BY <1>3 DEF DaysOf
  <2>2. \A j \in 1..line' - 1 : j \in 1..line - 1 \/ j = line
    BY <1>1, <1>3
  <2>3. 1..line - 1 \subseteq 1..line' - 1
    BY <1>1, <1>3
  <2>4. \A d \in 1..7, i \in 1..line - 1 :
           LastOf(file, i, line, d) => LastOf(file, i, line', d)
    BY <1>1, <2>1, <2>2, <2>3 DEF LastOf
  <2>5. Table'
    BY <1>1, <2>1, <2>2, <2>3, <2>4 DEF Table
  <2>6. QED
    BY <1>1, <1>3, <2>5 DEF Reading
<1>4. QED
  BY <1>1, <1>2, <1>3 DEF ReadLine, NoneYet

LEMMA LineDoneReads ==
  ASSUME TypeOK, Where, Reading, Table, LineDone
  PROVE  Table'
<1>1. /\ line \in DOMAIN file /\ line \in Nat \ {0} /\ UNCHANGED file
      /\ line' = line + 1
  BY DEF TypeOK, Where, LineDone
<1>2. HoldsAll(found, file[line].words)
  BY LineDoneHolds
<1>3. \A j \in 1..line' - 1 : j \in 1..line - 1 \/ j = line
  BY <1>1
<1>4. 1..line - 1 \subseteq 1..line' - 1 /\ line \in 1..line' - 1
  BY <1>1
<1>5. SUFFICES ASSUME NEW d \in 1..7
               PROVE  \/ /\ schedule'[d] = <<>>
                         /\ \A i \in 1..line' - 1 : file'[i].day # Days[d]
                      \/ \E i \in 1..line' - 1 :
                           /\ LastOf(file, i, line', d)
                           /\ HoldsAll(schedule'[d], file[i].words)
  BY <1>1 DEF Table
<1>6. CASE file[line].day = Days[d]
  <2>1. schedule'[d] = found
    BY <1>6 DEF LineDone, DaysOf
  <2>2. \A j \in 1..line' - 1 : ~(j > line)
    BY <1>1
  <2>3. LastOf(file, line, line', d)
    BY <1>4, <1>6, <2>2 DEF LastOf
  <2>4. QED
    BY <1>2, <1>4, <2>1, <2>3
<1>7. CASE file[line].day # Days[d]
  <2>1. schedule'[d] = schedule[d]
    BY <1>7 DEF LineDone, DaysOf
  <2>2. \A i \in 1..line - 1 :
           LastOf(file, i, line, d) => LastOf(file, i, line', d)
    BY <1>1, <1>3, <1>4, <1>7 DEF LastOf
  <2>3. CASE /\ schedule[d] = <<>>
             /\ \A i \in 1..line - 1 : file[i].day # Days[d]
    BY <1>1, <1>3, <1>7, <2>1, <2>3
  <2>4. CASE \E i \in 1..line - 1 :
               LastOf(file, i, line, d) /\ HoldsAll(schedule[d], file[i].words)
    BY <1>4, <2>1, <2>2, <2>4
  <2>5. QED
    BY <2>3, <2>4 DEF Table
<1>8. QED
  BY <1>6, <1>7

\* After the file has been read, the table says what the file says.
LEMMA InTable ==
  ASSUME TypeOK, Table, line = Len(file) + 1, NEW t \in Instant
  PROVE  is_in_time_slot(DayIndex(t), tm_hour(t), tm_min(t)) <=> InFile(t)
<1>1. PICK d \in 1..7 :
        /\ d = DayIndex(t) /\ DayName(t) = Days[d]
        /\ \A e \in 1..7 : Days[e] = DayName(t) => e = d
  BY DayOf
<1>2. DOMAIN file = 1..line - 1
  BY DEF TypeOK
<1>3. schedule[d] \in Seq(TimeSlot)
  BY <1>1 DEF TypeOK
<1>4. is_in_time_slot(d, tm_hour(t), tm_min(t)) <=>
        \E j \in DOMAIN schedule[d] : SlotCovers(schedule[d][j], t)
  <2>1. \A slot \in TimeSlot :
          (/\ MinuteNow(t) >= slot.sh * MINS + slot.sm
           /\ MinuteNow(t) <= slot.eh * MINS + slot.em) <=> SlotCovers(slot, t)
    BY SlotTest
  <2>2. \A j \in DOMAIN schedule[d] : schedule[d][j] \in TimeSlot
    BY <1>3
  <2>3. QED
    BY <2>1, <2>2 DEF is_in_time_slot, MinuteNow
<1>5. InFile(t) <=>
        \E i \in 1..line - 1 :
          /\ LastOf(file, i, line, d)
          /\ \E x : /\ KeptUpTo(file[i].words, Len(file[i].words), x)
                    /\ SlotCovers(x, t)
  <2>1. \A i \in 1..line - 1 : DOMAIN file[i].words = 1..Len(file[i].words)
    BY <1>2, FileTypes
  <2>2. QED
    BY <1>1, <1>2, <2>1
       DEF InFile, LastOf, KeptUpTo, Kept, EarlierValid, Valid
<1>6. CASE /\ schedule[d] = <<>>
           /\ \A i \in 1..line - 1 : file[i].day # Days[d]
  BY <1>1, <1>4, <1>5, <1>6 DEF LastOf
<1>7. CASE \E i \in 1..line - 1 :
             LastOf(file, i, line, d) /\ HoldsAll(schedule[d], file[i].words)
  <2>1. PICK i \in 1..line - 1 :
          LastOf(file, i, line, d) /\ HoldsAll(schedule[d], file[i].words)
    BY <1>7
  <2>2. \A j \in 1..line - 1 : LastOf(file, j, line, d) => j = i
    BY <2>1 DEF LastOf
  <2>3. (\E j \in DOMAIN schedule[d] : SlotCovers(schedule[d][j], t)) <=>
          \E x : /\ KeptUpTo(file[i].words, Len(file[i].words), x)
                 /\ SlotCovers(x, t)
    BY <2>1 DEF Holds, HoldsAll
  <2>4. QED
    BY <1>1, <1>4, <1>5, <2>1, <2>2, <2>3
<1>8. QED
  BY <1>1, <1>6, <1>7 DEF Table

-----------------------------------------------------------------------------
(* The loop.                                                               *)

\* How long a slot has waited: not at all before the loop, and in sleep no
\* longer than the time that was slept unless it has only now begun.
Waited ==
  /\ pc \in {"open", "line", "words", "failed", "wait"} => unserved = 0
  /\ pc \in {"check", "fork"} => unserved <= CHECK_INTERVAL
  /\ pc = "sleep" =>
       \/ unserved + sleep_left <= CHECK_INTERVAL
       \/ unserved <= CHECK_INTERVAL /\ ~InFile(now)

IInv ==
  /\ TypeOK /\ Where
  /\ Reading /\ Table /\ AllRead
  /\ StartedInSlot /\ Waited

LEMMA SameFile ==
  ASSUME UNCHANGED file
  PROVE  \A t : InFile(t)' <=> InFile(t)
BY DEF InFile

LEMMA SameTable ==
  ASSUME UNCHANGED <<file, parseVars>>, Table
  PROVE  Table'
BY DEF Table, parseVars

LEMMA InitIInv == Init => IInv
<1>1. SUFFICES ASSUME Init PROVE IInv
  OBVIOUS
<1>2. TypeOK /\ Where
  BY <1>1, InitTyped
<1>3. Table
  BY <1>1 DEF Init, Table, NoSlots
<1>4. Reading /\ AllRead /\ StartedInSlot /\ Waited
  BY <1>1 DEF Init, Reading, AllRead, InLoop, StartedInSlot, Waited
<1>5. QED
  BY <1>2, <1>3, <1>4 DEF IInv

LEMMA ParseKeeps ==
  ASSUME IInv, parse_config_file
  PROVE  Reading' /\ Table' /\ AllRead' /\ StartedInSlot' /\ Waited'
<1>1. TypeOK /\ Where /\ Reading /\ Table /\ AllRead /\ Waited
  BY DEF IInv
<1>2. CASE OpenFile
  <2>1. Table'
    BY <1>1, <1>2, SameTable DEF OpenFile
  <2>2. QED
    BY <1>1, <1>2, <2>1 DEF OpenFile, Reading, AllRead, InLoop,
       StartedInSlot, Waited, loopVars
<1>3. CASE ReadLine
  <2>1. Reading' /\ Table'
    BY <1>1, <1>3, ReadLineReads
  <2>2. pc = "line" /\ pc' \in {"line", "words"} /\ UNCHANGED loopVars
    BY <1>3 DEF ReadLine
  <2>3. QED
    BY <1>1, <2>1, <2>2 DEF AllRead, InLoop, StartedInSlot, Waited, loopVars
<1>4. CASE ReadWord
  <2>1. Reading'
    BY <1>1, <1>4, ReadWordReads
  <2>2. Table'
    BY <1>1, <1>4 DEF ReadWord, Table
  <2>3. pc = "words" /\ pc' = pc /\ UNCHANGED loopVars
    BY <1>4 DEF ReadWord
  <2>4. QED
    BY <1>1, <2>1, <2>2, <2>3
       DEF AllRead, InLoop, StartedInSlot, Waited, loopVars
<1>5. CASE LineDone
  <2>1. Table'
    BY <1>1, <1>5, LineDoneReads
  <2>2. pc = "words" /\ pc' = "line" /\ UNCHANGED loopVars
    BY <1>5 DEF LineDone
  <2>3. QED
    BY <1>1, <2>1, <2>2
       DEF Reading, AllRead, InLoop, StartedInSlot, Waited, loopVars
<1>6. CASE FileDone
  <2>1. Table'
    BY <1>1, <1>6, SameTable DEF FileDone
  <2>2. line' = Len(file') + 1
    BY <1>1, <1>6 DEF TypeOK, FileDone, parseVars
  <2>3. unserved' = 0 /\ pc' = "check"
    BY <1>1, <1>6 DEF FileDone, Waited, loopVars
  <2>4. QED
    BY <2>1, <2>2, <2>3, DayTypes DEF Reading, AllRead, StartedInSlot, Waited
<1>7. QED
  BY <1>2, <1>3, <1>4, <1>5, <1>6 DEF parse_config_file

LEMMA LoopKeeps ==
  ASSUME IInv, LoopStep \/ Tick \/ SetClock \/ ScriptEnds
  PROVE  Reading' /\ Table' /\ AllRead' /\ StartedInSlot' /\ Waited'
<1>1. /\ TypeOK /\ Where /\ Reading /\ Table /\ AllRead /\ StartedInSlot
      /\ Waited
  BY DEF IInv
<1>2. UNCHANGED <<file, parseVars>> /\ InLoop /\ InLoop'
  BY <1>1 DEF LoopStep, Check, Fork, Wait, Wake, Tick, SetClock, ScriptEnds,
     InLoop, TypeOK, Where
<1>3. Table'
  BY <1>1, <1>2, SameTable
<1>4. AllRead' /\ Reading'
  BY <1>1, <1>2 DEF AllRead, Reading, InLoop, parseVars
<1>5. \A t : InFile(t)' <=> InFile(t)
  BY <1>2, SameFile
<1>6. unserved \in Nat /\ sleep_left \in 0..CHECK_INTERVAL
      /\ CHECK_INTERVAL \in Nat
  BY <1>1, DayTypes DEF TypeOK
<1>7. StartedInSlot' /\ Waited'
  <2>1. CASE Check
    <3>1. is_in_time_slot(DayIndex(now), tm_hour(now), tm_min(now))
            <=> InFile(now)
      <4>1. now \in Instant /\ line = Len(file) + 1
        BY <1>1, <1>2 DEF TypeOK, AllRead
      <4>2. QED
        BY <1>1, <4>1, InTable
    <3>2. unserved' <= CHECK_INTERVAL /\ now' = now /\ read_at' = now
      BY <1>1, <2>1 DEF Check, Waited
    <3>3. \/ InFile(now) /\ pc' = "fork"
          \/ ~InFile(now) /\ pc' = "sleep"
      BY <2>1, <3>1 DEF Check
    <3>4. InFile(now)' <=> InFile(now)
      BY <1>2, <3>2 DEF InFile
    <3>5. InFile(read_at)' <=> InFile(now)
      BY <1>2, <3>2 DEF InFile
    <3>6. QED
      BY <3>2, <3>3, <3>4, <3>5 DEF StartedInSlot, Waited
  <2>2. CASE Fork
    <3>1. InFile(read_at)' <=> InFile(read_at)
      BY <1>2, <2>2 DEF Fork, InFile
    <3>2. QED
      BY <1>1, <1>6, <2>2, <3>1 DEF Fork, StartedInSlot, Waited
  <2>3. CASE Wait
    BY <1>1, <1>6, <2>3 DEF Wait, StartedInSlot, Waited
  <2>4. CASE Wake
    BY <1>1, <1>6, <2>4 DEF Wake, StartedInSlot, Waited
  <2>5. CASE Tick
    <3>1. InFile(read_at)' <=> InFile(read_at)
      BY <1>2, <2>5 DEF Tick, InFile
    <3>2. StartedInSlot'
      BY <1>1, <2>5, <3>1 DEF Tick, StartedInSlot
    <3>3. CASE pc = "wait" /\ child = "running"
      BY <1>1, <2>5, <3>2, <3>3 DEF Tick, Waited
    <3>4. CASE pc = "sleep" /\ sleep_left > 0
      <4>1. pc' = "sleep" /\ sleep_left' = sleep_left - 1
        BY <2>5, <3>4 DEF Tick
      <4>2. CASE InFile(now) /\ unserved' = unserved + 1
        BY <1>1, <1>6, <3>2, <3>4, <4>1, <4>2 DEF Waited
      <4>3. CASE unserved' = 0
        BY <1>6, <3>2, <4>1, <4>3 DEF Waited
      <4>4. QED
        BY <2>5, <3>2, <4>2, <4>3 DEF Tick
    <3>5. QED
      BY <2>5, <3>2, <3>3, <3>4 DEF Tick
  <2>6. CASE SetClock
    <3>1. InFile(read_at)' <=> InFile(read_at)
      BY <1>2, <2>6 DEF SetClock, InFile
    <3>2. QED
      BY <1>1, <1>6, <2>6, <3>1 DEF SetClock, StartedInSlot, Waited
  <2>7. CASE ScriptEnds
    <3>1. InFile(read_at)' <=> InFile(read_at)
      BY <1>2, <2>7 DEF ScriptEnds, InFile
    <3>2. pc = "wait" /\ UNCHANGED <<pc, unserved>>
      BY <1>1, <2>7 DEF ScriptEnds, Where
    <3>3. QED
      BY <1>1, <3>1, <3>2 DEF StartedInSlot, Waited
  <2>8. QED
    BY <2>1, <2>2, <2>3, <2>4, <2>5, <2>6, <2>7 DEF LoopStep
<1>8. QED
  BY <1>3, <1>4, <1>7

LEMMA NextIInv == IInv /\ [Next]_vars => IInv'
<1>1. SUFFICES ASSUME IInv, [Next]_vars PROVE IInv'
  OBVIOUS
<1>2. TypeOK' /\ Where'
  BY <1>1, NextTyped DEF IInv
<1>3. CASE parse_config_file
  BY <1>1, <1>2, <1>3, ParseKeeps DEF IInv
<1>4. CASE LoopStep \/ Tick \/ SetClock \/ ScriptEnds
  BY <1>1, <1>2, <1>4, LoopKeeps DEF IInv
<1>5. CASE UNCHANGED vars
  <2>1. Table'
    BY <1>1, <1>5, SameTable DEF IInv, vars
  <2>2. Reading' /\ AllRead'
    BY <1>1, <1>5 DEF IInv, Reading, AllRead, InLoop, vars, parseVars
  <2>3. StartedInSlot' /\ Waited'
    BY <1>1, <1>5 DEF IInv, StartedInSlot, Waited, InFile, vars, parseVars,
       loopVars
  <2>4. QED
    BY <1>2, <2>1, <2>2, <2>3 DEF IInv
<1>6. QED
  BY <1>1, <1>3, <1>4, <1>5 DEF Next, Terminated

\* The script is started only when the file says so for the day and the time
\* that were read, for every file and however the time is divided: the table
\* holds what the last line of each day says, up to the room of the array.
THEOREM StartedInSlotHolds == Spec => []StartedInSlot
<1>1. IInv => StartedInSlot
  BY DEF IInv
<1>2. QED
  BY InitIInv, NextIInv, <1>1, PTL DEF Spec

\* A slot never waits longer than CHECK_INTERVAL, whenever scripts end, fork
\* fails or the clock is set.
THEOREM SlotServedHolds == Spec => []SlotServed
<1>1. IInv => SlotServed
  BY DayTypes DEF IInv, Waited, SlotServed, TypeOK
<1>2. QED
  BY InitIInv, NextIInv, <1>1, PTL DEF Spec

=============================================================================
