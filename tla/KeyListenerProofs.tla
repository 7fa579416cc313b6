------------------------- MODULE KeyListenerProofs -------------------------
(***************************************************************************)
(* Theorems about KeyListener and KeyHolds, for every rule file, every set *)
(* of devices and keys, every buffer size and every schedule.              *)
(*                                                                         *)
(* ArmedMeansHeld is not inductive: a rule is armed by a press read from   *)
(* the buffer, so what is still in the buffer has to be known.  The        *)
(* inductive invariant is TypeOK /\ PressesClosed /\ ArmedMeansHeld, and   *)
(* PressTimesReal for the times.                                           *)
(***************************************************************************)
EXTENDS KeyHolds, FiniteSetTheorems, FunctionTheorems, TLAPS

-----------------------------------------------------------------------------
(* How far the milliseconds are from the time that has passed, for every   *)
(* clock rate and every pair of instants.                                  *)

\* Quotient and remainder of a natural number.
LEMMA DivMod ==
  ASSUME NEW a \in Nat, NEW b \in Nat \ {0}
  PROVE  /\ a \div b \in Nat
         /\ a % b \in Nat /\ a % b < b
         /\ a = b * (a \div b) + (a % b)
BY Z3

\* C's division is off by less than one, towards zero.
LEMMA CDivBounds ==
  ASSUME NEW a \in Int, NEW b \in Nat \ {0}
  PROVE  /\ CDiv(a, b) \in Int
         /\ b * CDiv(a, b) < a + b
         /\ b * CDiv(a, b) > a - b
<1>1. CASE a >= 0
  <2>1. /\ a \div b \in Nat
        /\ a % b \in Nat /\ a % b < b
        /\ a = b * (a \div b) + (a % b)
    BY <1>1, DivMod
  <2>2. QED
    BY <1>1, <2>1 DEF CDiv
<1>2. CASE a < 0
  <2> DEFINE q == (-a) \div b
             m == (-a) % b
  <2>1. /\ q \in Nat
        /\ m \in Nat /\ m < b
        /\ -a = b * q + m
    BY <1>2, DivMod
  <2>2. CDiv(a, b) = -q
    BY <1>2 DEF CDiv
  <2> HIDE DEF q, m
  <2>3. b * (-q) = -(b * q)
    BY <2>1
  <2>4. QED
    BY <2>1, <2>2, <2>3
<1>3. QED
  BY <1>1, <1>2

\* elapsed_ms is less than one millisecond away from the time that has passed,
\* in both directions.
THEOREM ElapsedMsBounds ==
  ASSUME NEW now \in Nat, NEW then \in Nat
  PROVE  /\ ElapsedMs(now, then) \in Int
         /\ NS_PER_MS * ElapsedMs(now, then) < now - then + NS_PER_MS
         /\ NS_PER_MS * ElapsedMs(now, then) > now - then - NS_PER_MS
<1> DEFINE S == NS_PER_SEC
           a == now \div S
           b == now % S
           c == then \div S
           d == then % S
           q == CDiv(b - d, NS_PER_MS)
<1>1. MS_PER_SEC \in Nat /\ NS_PER_MS \in Nat \ {0}
  BY TimeAssumption DEF TimeAssumption
<1>2. S \in Nat \ {0} /\ S = MS_PER_SEC * NS_PER_MS
  BY TimeAssumption DEF TimeAssumption, NS_PER_SEC
<1>3. a \in Nat /\ b \in Nat /\ now = S * a + b
  BY <1>2, DivMod
<1>4. c \in Nat /\ d \in Nat /\ then = S * c + d
  BY <1>2, DivMod
<1>5. /\ q \in Int
      /\ NS_PER_MS * q < (b - d) + NS_PER_MS
      /\ NS_PER_MS * q > (b - d) - NS_PER_MS
  BY <1>1, <1>3, <1>4, CDivBounds, SMTT(30)
<1>6. ElapsedMs(now, then) = (a - c) * MS_PER_SEC + q
  BY DEF ElapsedMs, Timespec
<1> HIDE DEF S, a, b, c, d, q
<1>7. NS_PER_MS * ((a - c) * MS_PER_SEC + q)
        = S * a - S * c + NS_PER_MS * q
  BY <1>1, <1>2, <1>3, <1>4, <1>5
<1>8. S * a \in Nat /\ S * c \in Nat /\ NS_PER_MS * q \in Int
  BY <1>1, <1>2, <1>3, <1>4, <1>5
<1>9. NS_PER_MS * ElapsedMs(now, then) = (now - b) - (then - d) + NS_PER_MS * q
  BY <1>3, <1>4, <1>6, <1>7, <1>8
<1>10. ElapsedMs(now, then) \in Int
  BY <1>1, <1>3, <1>4, <1>5, <1>6
<1>11. QED
  BY <1>1, <1>3, <1>4, <1>5, <1>8, <1>9, <1>10

-----------------------------------------------------------------------------
(* Sequences.                                                              *)

\* Appending to a sequence keeps what was there and adds one element.
LEMMA AppendFacts ==
  ASSUME NEW S, NEW s \in Seq(S), NEW e \in S
  PROVE  /\ Append(s, e) \in Seq(S)
         /\ DOMAIN Append(s, e) = DOMAIN s \cup {Len(s) + 1}
         /\ \A j \in DOMAIN s : Append(s, e)[j] = s[j]
         /\ Append(s, e)[Len(s) + 1] = e
         /\ \A j \in DOMAIN s : j < Len(s) + 1
OBVIOUS

\* Reading from a sequence moves every other element one place forward.
LEMMA TailFacts ==
  ASSUME NEW S, NEW s \in Seq(S), s # <<>>
  PROVE  /\ Tail(s) \in Seq(S)
         /\ Head(s) = s[1] /\ Head(s) \in S /\ 1 \in DOMAIN s
         /\ \A j \in DOMAIN Tail(s) : j + 1 \in DOMAIN s /\ Tail(s)[j] = s[j + 1]
         /\ \A j \in DOMAIN s : j > 1 => j - 1 \in DOMAIN Tail(s)
         /\ \A j \in DOMAIN s : j \in Nat /\ j > 0
OBVIOUS

-----------------------------------------------------------------------------
(* Types.                                                                  *)

LEMMA InitTypeOK == Init => TypeOK
<1> SUFFICES ASSUME Init PROVE TypeOK
  OBVIOUS
<1>1. EvdevTypeOK
  BY DEF Init, EvdevInit, EvdevTypeOK, Event
<1>2. configs \in Seq(KeyConfig)
  BY ListenerAssumption DEF Init, ListenerAssumption
<1>3. devices \in Seq(Path)
  BY SMTT(30) DEF Init, DeviceTables
<1>4. world \in World
  BY ListenerAssumption DEF Init, ListenerAssumption
<1>5. QED
  BY <1>1, <1>2, <1>3, <1>4 DEF Init, TypeOK, KeyState

\* What one delivered event does to the buffers.
LEMMA DeliverType ==
  ASSUME TypeOK, NEW p \in Path, NEW e \in Event, Deliver(p, e)
  PROVE  /\ queue' \in [Path -> Seq(Event)]
         /\ lost' \subseteq Path
         /\ produced' \in Nat
         /\ plugged' \subseteq Path
<1>1. queue \in [Path -> Seq(Event)] /\ queue[p] \in Seq(Event)
  BY DEF TypeOK, EvdevTypeOK
<1>2. Append(queue[p], e) \in Seq(Event)
  BY <1>1, AppendFacts
<1>3. <<SynDropped, e>> \in Seq(Event)
  BY DEF Event
<1>4. PICK s \in Seq(Event) : queue' = [queue EXCEPT ![p] = s]
  BY <1>2, <1>3 DEF Deliver
<1>5. QED
  BY <1>1, <1>4 DEF Deliver, TypeOK, EvdevTypeOK

LEMMA HardwareType == TypeOK /\ Hardware => TypeOK'
<1> SUFFICES ASSUME TypeOK, Hardware PROVE TypeOK'
  OBVIOUS
<1>1. PICK p \in Path :
         (\E k \in Key : KeyDown(p, k) \/ KeyUp(p, k) \/ KeyRepeat(p, k))
         \/ Unplug(p)
  BY DEF Hardware
<1>2. UNCHANGED <<configs, devices, world, loopVars>>
  BY DEF Hardware
<1>3. SUFFICES EvdevTypeOK'
  BY <1>2 DEF TypeOK, loopVars, Rule
<1>4. ASSUME NEW k \in Key
      PROVE  PressOf(k) \in Event /\ ReleaseOf(k) \in Event
               /\ RepeatOf(k) \in Event
  BY DEF Event, KeyEvent, PressOf, ReleaseOf, RepeatOf
<1>5. ASSUME NEW k \in Key, KeyDown(p, k) PROVE EvdevTypeOK'
  BY <1>5, <1>4, DeliverType DEF KeyDown, TypeOK, EvdevTypeOK
<1>6. ASSUME NEW k \in Key, KeyUp(p, k) PROVE EvdevTypeOK'
  BY <1>6, <1>4, DeliverType DEF KeyUp, TypeOK, EvdevTypeOK
<1>7. ASSUME NEW k \in Key, KeyRepeat(p, k) PROVE EvdevTypeOK'
  BY <1>7, <1>4, DeliverType DEF KeyRepeat, TypeOK, EvdevTypeOK
<1>8. ASSUME Unplug(p) PROVE EvdevTypeOK'
  BY <1>8 DEF Unplug, TypeOK, EvdevTypeOK
<1>9. QED
  BY <1>1, <1>5, <1>6, <1>7, <1>8

\* Forking scripts keeps the counts of launches well typed.
LEMMA ExecuteType ==
  ASSUME TypeOK, NEW F, execute_script(F)
  PROVE  launches' \in [Rule -> Nat]
BY DEF execute_script, TypeOK

LEMMA ReadDeviceType ==
  ASSUME TypeOK, NEW i \in DOMAIN devices, ReadDevice(i)
  PROVE  TypeOK'
<1> DEFINE p == devices[i]
<1>1. p \in Path /\ UNCHANGED <<configs, devices, world, should_exit, pc, pollStart, clock>>
  BY DEF TypeOK, ReadDevice
<1>2. revents' \subseteq DOMAIN devices
  BY DEF TypeOK, ReadDevice
<1>3. CASE p \notin plugged
  BY <1>1, <1>2, <1>3 DEF ReadDevice, TypeOK, EvdevTypeOK, evdevVars, Rule
<1>4. CASE p \in plugged
  <2> DEFINE ev == Head(queue[p])
  <2>1. ReadEvent(p) /\ process_event(ev, i)
    BY <1>4 DEF ReadDevice
  <2>2. Tail(queue[p]) \in Seq(Event)
    BY <1>1, <2>1, TailFacts DEF TypeOK, EvdevTypeOK, ReadEvent
  <2>3. EvdevTypeOK'
    BY <1>1, <2>1, <2>2 DEF ReadEvent, TypeOK, EvdevTypeOK
  <2>4. \A r \in Rule : StateAfter(r, ev) \in KeyState
    BY DEF StateAfter, Armed, Disarmed, TypeOK, KeyState
  <2>5. states' \in [Rule -> KeyState]
    BY <2>1, <2>4 DEF process_event, TypeOK
  <2>6. launches' \in [Rule -> Nat]
    BY <2>1, ExecuteType DEF process_event
  <2>7. QED
    BY <1>1, <1>2, <2>3, <2>5, <2>6 DEF TypeOK, Rule
<1>5. QED
  BY <1>3, <1>4

LEMMA NextTypeOK == TypeOK /\ [Next]_vars => TypeOK'
<1> SUFFICES ASSUME TypeOK, [Next]_vars PROVE TypeOK'
  OBVIOUS
<1>1. CASE LoopTest
  BY <1>1 DEF LoopTest, TypeOK, EvdevTypeOK, evdevVars, Rule
<1>2. CASE PollReturns
  BY <1>2 DEF PollReturns, Readable, TypeOK, EvdevTypeOK, evdevVars, Rule
<1>3. CASE PollFails
  BY <1>3 DEF PollFails, TypeOK, EvdevTypeOK, evdevVars, Rule
<1>4. ASSUME NEW i \in DOMAIN devices, ReadDevice(i) PROVE TypeOK'
  BY <1>4, ReadDeviceType
<1>5. CASE ReadsDone
  BY <1>5 DEF ReadsDone, TypeOK, EvdevTypeOK, evdevVars, Rule
<1>6. CASE CheckTimeouts
  <2>1. states' \in [Rule -> KeyState]
    BY <1>6 DEF CheckTimeouts, check_long_press_timeouts, TypeOK, KeyState
  <2>2. launches' \in [Rule -> Nat]
    BY <1>6, ExecuteType DEF CheckTimeouts, check_long_press_timeouts
  <2>3. QED
    BY <1>6, <2>1, <2>2 DEF CheckTimeouts, TypeOK, EvdevTypeOK, evdevVars, Rule
<1>7. CASE signal_handler
  BY <1>7 DEF signal_handler, TypeOK, EvdevTypeOK, evdevVars, Rule
<1>8. CASE Tick
  BY <1>8 DEF Tick, TypeOK, EvdevTypeOK, evdevVars, Rule
<1>9. CASE Hardware
  BY <1>9, HardwareType
<1>10. CASE UNCHANGED vars
  BY <1>10 DEF vars, loopVars, TypeOK, EvdevTypeOK, evdevVars, Rule
<1>11. QED
  BY <1>1, <1>2, <1>3, <1>4, <1>5, <1>6, <1>7, <1>8, <1>9, <1>10
     DEF Next, LoopStep, Terminated

\* Every variable of the event loop keeps its type.
THEOREM TypeCorrect == Spec => []TypeOK
<1>1. Init => TypeOK
  BY InitTypeOK
<1>2. TypeOK /\ [Next]_vars => TypeOK'
  BY NextTypeOK
<1>3. QED
  BY <1>1, <1>2, PTL DEF Spec

-----------------------------------------------------------------------------
(* Holding a key.                                                          *)

\* An event delivered to a device that has lost none goes to the end of the
\* buffer, and a release that was unread stays unread.
LEMMA DeliverKept ==
  ASSUME TypeOK, NEW p \in Path, NEW e \in Event, Deliver(p, e), p \notin lost'
  PROVE  /\ p \notin lost
         /\ queue[p] \in Seq(Event)
         /\ queue'[p] = Append(queue[p], e)
         /\ \A k \in Key, a \in Nat :
              ReleasePending(p, k, a) => ReleasePending(p, k, a)'
         /\ \A k \in Key, a \in DOMAIN queue[p] \cup {0} :
              e = ReleaseOf(k) => ReleasePending(p, k, a)'
<1>1. queue \in [Path -> Seq(Event)] /\ queue[p] \in Seq(Event)
  BY DEF TypeOK, EvdevTypeOK
<1>2. p \notin lost /\ queue' = [queue EXCEPT ![p] = Append(queue[p], e)]
  BY DEF Deliver
<1>3. queue'[p] = Append(queue[p], e)
  BY <1>1, <1>2
<1>4. /\ DOMAIN queue'[p] = DOMAIN queue[p] \cup {Len(queue[p]) + 1}
      /\ \A j \in DOMAIN queue[p] : queue'[p][j] = queue[p][j]
      /\ queue'[p][Len(queue[p]) + 1] = e
      /\ \A j \in DOMAIN queue[p] : j < Len(queue[p]) + 1
  BY <1>1, <1>3, AppendFacts
<1>5. ASSUME NEW k \in Key, NEW a \in Nat, ReleasePending(p, k, a)
      PROVE  ReleasePending(p, k, a)'
  BY <1>4, <1>5 DEF ReleasePending
<1>6. Len(queue[p]) + 1 > 0
  BY <1>1
<1>7. ASSUME NEW k \in Key, NEW a \in DOMAIN queue[p] \cup {0},
             e = ReleaseOf(k)
      PROVE  ReleasePending(p, k, a)'
  <2>1. Len(queue[p]) + 1 > a
    BY <1>1, <1>4, <1>6
  <2>2. QED
    BY <1>4, <1>7, <2>1 DEF ReleasePending
<1>8. QED
  BY <1>1, <1>2, <1>3, <1>5, <1>7

\* The buffers and keys of the devices an event does not come from.
LEMMA DeliverOthers ==
  ASSUME TypeOK, NEW p \in Path, NEW e \in Event, Deliver(p, e),
         NEW q \in Path, q # p
  PROVE  /\ queue'[q] = queue[q]
         /\ q \notin lost' => q \notin lost
         /\ \A k, a : ReleasePending(q, k, a)' <=> ReleasePending(q, k, a)
<1>1. queue'[q] = queue[q]
  BY DEF TypeOK, EvdevTypeOK, Deliver
<1>2. q \notin lost' => q \notin lost
  BY DEF Deliver
<1>3. QED
  BY <1>1, <1>2 DEF ReleasePending

\* While nothing is lost, a key that was awaited, held or with its release
\* unread, is awaited after any event of the hardware.
LEMMA HardwareAwaits ==
  ASSUME TypeOK, Hardware, NEW q \in Path, q \notin lost', NEW k \in Key,
         NEW a \in DOMAIN queue[q] \cup {0},
         k \in down[q] \/ ReleasePending(q, k, a)
  PROVE  k \in down'[q] \/ ReleasePending(q, k, a)'
<1>1. PICK p \in Path :
         (\E m \in Key : KeyDown(p, m) \/ KeyUp(p, m) \/ KeyRepeat(p, m))
         \/ Unplug(p)
  BY DEF Hardware
<1>2. ASSUME NEW m \in Key
      PROVE  PressOf(m) \in Event /\ ReleaseOf(m) \in Event
               /\ RepeatOf(m) \in Event
  BY DEF Event, KeyEvent, PressOf, ReleaseOf, RepeatOf
<1>3. a \in Nat
  <2>1. queue[q] \in Seq(Event)
    BY DEF TypeOK, EvdevTypeOK
  <2>2. QED
    BY <2>1
<1>4. ASSUME NEW m \in Key, KeyDown(p, m)
      PROVE  k \in down'[q] \/ ReleasePending(q, k, a)'
  <2>1. k \in down[q] => k \in down'[q]
    BY <1>4 DEF KeyDown, TypeOK, EvdevTypeOK
  <2>2. Deliver(p, PressOf(m))
    BY <1>4 DEF KeyDown
  <2>3. ReleasePending(q, k, a) => ReleasePending(q, k, a)'
    BY <2>2, <1>2, <1>3, DeliverKept, DeliverOthers
  <2>4. QED
    BY <2>1, <2>3
<1>5. ASSUME NEW m \in Key, KeyUp(p, m)
      PROVE  k \in down'[q] \/ ReleasePending(q, k, a)'
  <2>1. k \in down[q] => k \in down'[q] \/ (q = p /\ k = m)
    BY <1>5 DEF KeyUp, TypeOK, EvdevTypeOK
  <2>2. Deliver(p, ReleaseOf(m))
    BY <1>5 DEF KeyUp
  <2>3. ReleasePending(q, k, a) => ReleasePending(q, k, a)'
    BY <2>2, <1>2, <1>3, DeliverKept, DeliverOthers
  <2>4. q = p /\ k = m => ReleasePending(q, k, a)'
    BY <2>2, <1>2, DeliverKept
  <2>5. QED
    BY <2>1, <2>3, <2>4
<1>6. ASSUME NEW m \in Key, KeyRepeat(p, m)
      PROVE  k \in down'[q] \/ ReleasePending(q, k, a)'
  <2>1. down' = down /\ Deliver(p, RepeatOf(m))
    BY <1>6 DEF KeyRepeat
  <2>2. ReleasePending(q, k, a) => ReleasePending(q, k, a)'
    BY <2>1, <1>2, <1>3, DeliverKept, DeliverOthers
  <2>3. QED
    BY <2>1, <2>2
<1>7. CASE Unplug(p)
  BY <1>7 DEF Unplug, TypeOK, EvdevTypeOK, ReleasePending
<1>8. QED
  BY <1>1, <1>4, <1>5, <1>6, <1>7

LEMMA HardwareClosed == TypeOK /\ PressesClosed /\ Hardware => PressesClosed'
<1> SUFFICES ASSUME TypeOK, PressesClosed, Hardware,
                    NEW q \in Path, q \notin lost',
                    NEW j \in DOMAIN queue'[q], NEW k \in Key,
                    queue'[q][j] = PressOf(k)
             PROVE  k \in down'[q] \/ ReleasePending(q, k, j)'
  BY DEF PressesClosed
<1>1. PICK p \in Path :
         (\E m \in Key : KeyDown(p, m) \/ KeyUp(p, m) \/ KeyRepeat(p, m))
         \/ Unplug(p)
  BY DEF Hardware
<1>2. ASSUME NEW m \in Key
      PROVE  /\ PressOf(m) \in Event /\ ReleaseOf(m) \in Event
             /\ RepeatOf(m) \in Event
             /\ ReleaseOf(m) # PressOf(k) /\ RepeatOf(m) # PressOf(k)
             /\ PressOf(m) = PressOf(k) => m = k
  BY DEF Event, KeyEvent, PressOf, ReleaseOf, RepeatOf
<1>3. CASE j \in DOMAIN queue[q] /\ queue[q][j] = PressOf(k)
  <2>1. q \notin lost
    BY <1>1 DEF KeyDown, KeyUp, KeyRepeat, Unplug, Deliver
  <2>2. k \in down[q] \/ ReleasePending(q, k, j)
    BY <1>3, <2>1 DEF PressesClosed
  <2>3. QED
    BY <1>3, <2>2, HardwareAwaits
<1>4. ASSUME NEW e \in Event, Deliver(p, e),
             ~(j \in DOMAIN queue[q] /\ queue[q][j] = PressOf(k))
      PROVE  q = p /\ e = PressOf(k)
  <2>1. q = p
    BY <1>4, DeliverOthers
  <2>2. queue[p] \in Seq(Event) /\ queue'[p] = Append(queue[p], e)
    BY <1>4, <2>1, DeliverKept
  <2>3. QED
    BY <1>4, <2>1, <2>2, AppendFacts
<1>5. CASE ~(j \in DOMAIN queue[q] /\ queue[q][j] = PressOf(k))
  <2>1. ASSUME NEW m \in Key, KeyDown(p, m) PROVE k \in down'[q]
    <3>1. Deliver(p, PressOf(m))
      BY <2>1 DEF KeyDown
    <3>2. q = p /\ m = k
      BY <1>2, <1>4, <1>5, <3>1
    <3>3. QED
      BY <2>1, <3>2 DEF KeyDown, TypeOK, EvdevTypeOK
  <2>2. ASSUME NEW m \in Key, KeyUp(p, m) \/ KeyRepeat(p, m) PROVE FALSE
    BY <2>2, <1>2, <1>4, <1>5 DEF KeyUp, KeyRepeat
  <2>3. ASSUME Unplug(p) PROVE FALSE
    BY <1>5, <2>3 DEF Unplug
  <2>4. QED
    BY <1>1, <2>1, <2>2, <2>3
<1>6. QED
  BY <1>3, <1>5

\* Reading one event of p.
LEMMA ReadKept ==
  ASSUME TypeOK, NEW p \in Path, ReadEvent(p)
  PROVE  /\ down' = down /\ lost' = lost
         /\ queue[p] \in Seq(Event) /\ queue[p] # <<>>
         /\ queue'[p] = Tail(queue[p])
         /\ \A q \in Path : q # p => queue'[q] = queue[q]
         /\ \A k, a : a \in Nat /\ ReleasePending(p, k, a + 1)
                        => ReleasePending(p, k, a)'
         /\ \A k : ReleasePending(p, k, 0) /\ Head(queue[p]) # ReleaseOf(k)
                        => ReleasePending(p, k, 0)'
<1>1. queue \in [Path -> Seq(Event)] /\ queue[p] \in Seq(Event)
  BY DEF TypeOK, EvdevTypeOK
<1>2. /\ queue[p] # <<>> /\ queue' = [queue EXCEPT ![p] = Tail(queue[p])]
      /\ down' = down /\ lost' = lost
  BY DEF ReadEvent
<1>3. queue'[p] = Tail(queue[p])
  BY <1>1, <1>2
<1>4. \A q \in Path : q # p => queue'[q] = queue[q]
  BY <1>1, <1>2
<1>5. /\ Head(queue[p]) = queue[p][1]
      /\ \A j \in DOMAIN Tail(queue[p]) : Tail(queue[p])[j] = queue[p][j + 1]
      /\ \A j \in DOMAIN queue[p] : j \in Nat /\ j > 0
      /\ \A j \in DOMAIN queue[p] : j > 1 => j - 1 \in DOMAIN Tail(queue[p])
  BY <1>1, <1>2, TailFacts
<1>6. ASSUME NEW k, NEW a \in Nat, NEW j \in DOMAIN queue[p],
             j > a + 1, queue[p][j] = ReleaseOf(k)
      PROVE  ReleasePending(p, k, a)'
  <2>1. j - 1 \in DOMAIN queue'[p] /\ j - 1 > a
    BY <1>3, <1>5, <1>6
  <2>2. queue'[p][j - 1] = ReleaseOf(k)
    BY <1>3, <1>5, <1>6, <2>1
  <2>3. QED
    BY <2>1, <2>2 DEF ReleasePending
<1>7. ASSUME NEW k, NEW a \in Nat, ReleasePending(p, k, a + 1)
      PROVE  ReleasePending(p, k, a)'
  BY <1>6, <1>7 DEF ReleasePending
<1>8. ASSUME NEW k, ReleasePending(p, k, 0), Head(queue[p]) # ReleaseOf(k)
      PROVE  ReleasePending(p, k, 0)'
  <2>1. PICK j \in DOMAIN queue[p] : j > 0 /\ queue[p][j] = ReleaseOf(k)
    BY <1>8 DEF ReleasePending
  <2>2. j > 0 + 1
    BY <1>5, <1>8, <2>1
  <2>3. QED
    BY <1>6, <2>1, <2>2
<1>9. QED
  BY <1>1, <1>2, <1>3, <1>4, <1>7, <1>8

LEMMA ReadClosed ==
  ASSUME TypeOK, PressesClosed, NEW p \in Path, ReadEvent(p)
  PROVE  PressesClosed'
<1> SUFFICES ASSUME NEW q \in Path, q \notin lost',
                    NEW j \in DOMAIN queue'[q], NEW k \in Key,
                    queue'[q][j] = PressOf(k)
             PROVE  k \in down'[q] \/ ReleasePending(q, k, j)'
  BY DEF PressesClosed
<1>1. down' = down /\ q \notin lost
  BY ReadKept
<1>2. CASE q # p
  <2>1. queue'[q] = queue[q]
    BY <1>2, ReadKept
  <2>2. QED
    BY <1>1, <2>1 DEF PressesClosed, ReleasePending
<1>3. CASE q = p
  <2>1. queue'[p] = Tail(queue[p]) /\ queue[p] \in Seq(Event) /\ queue[p] # <<>>
    BY ReadKept
  <2>2. j + 1 \in DOMAIN queue[p] /\ queue[p][j + 1] = PressOf(k) /\ j \in Nat
    <3>1. j \in DOMAIN Tail(queue[p])
      BY <1>3, <2>1
    <3>2. Tail(queue[p]) \in Seq(Event)
      BY <2>1, TailFacts
    <3>3. j \in Nat
      BY <3>1, <3>2
    <3>4. QED
      BY <1>3, <2>1, <3>1, <3>3, TailFacts
  <2>3. k \in down[p] \/ ReleasePending(p, k, j + 1)
    BY <1>1, <1>3, <2>2 DEF PressesClosed
  <2>4. QED
    BY <1>1, <1>3, <2>2, <2>3, ReadKept
<1>4. QED
  BY <1>2, <1>3

\* The device and the key of a rule are fixed by its line of the file.
LEMMA RuleType ==
  ASSUME TypeOK, NEW r \in Rule
  PROVE  Dev(r) \in Path /\ Code(r) \in Key /\ configs[r].long_press_ms \in Int
<1>1. configs[r] \in KeyConfig
  BY DEF TypeOK, Rule
<1>2. QED
  BY <1>1 DEF KeyConfig, Dev, Code

\* Handling the event that was read: a rule is armed only by a press, and the
\* release of its key disarms it.
LEMMA ReadArmed ==
  ASSUME TypeOK, PressesClosed, ArmedMeansHeld,
         NEW i \in DOMAIN devices, ReadDevice(i)
  PROVE  ArmedMeansHeld'
<1>1. PICK p \in Path : p = devices[i]
  BY DEF TypeOK
<1> DEFINE ev == Head(queue[p])
<1>2. configs' = configs
  BY DEF ReadDevice
<1>3. CASE p \notin plugged
  BY <1>1, <1>2, <1>3 DEF ReadDevice, ArmedMeansHeld, ReleasePending,
                          evdevVars, Rule, IsLong, Dev, Code
<1>4. CASE p \in plugged
  <2>1. ReadEvent(p) /\ process_event(ev, i)
    BY <1>1, <1>4 DEF ReadDevice
  <2>2. /\ down' = down /\ lost' = lost
        /\ queue[p] \in Seq(Event) /\ queue[p] # <<>>
        /\ \A q \in Path : q # p => queue'[q] = queue[q]
    BY <2>1, ReadKept
  <2>3. ev = queue[p][1] /\ ev \in Event /\ 1 \in DOMAIN queue[p]
    BY <2>2, TailFacts
  <2>4. SUFFICES ASSUME NEW r \in Rule, IsLong(r), states'[r].active,
                        NEW d \in Path, NEW k \in Key, d = Dev(r), k = Code(r),
                        d \notin lost
                 PROVE  k \in down[d] \/ ReleasePending(d, k, 0)'
    <3>1. ASSUME NEW r \in Rule PROVE Dev(r) \in Path /\ Code(r) \in Key
      BY <3>1, RuleType
    <3>2. \A r \in Rule : /\ Dev(r)' = Dev(r) /\ Code(r)' = Code(r)
                          /\ IsLong(r)' <=> IsLong(r)
      BY <1>2 DEF Dev, Code, IsLong
    <3>3. Rule' = Rule
      BY <1>2 DEF Rule
    <3>4. QED
      BY <2>2, <3>1, <3>2, <3>3 DEF ArmedMeansHeld, ReleasePending
  <2>5. states'[r] = IF Matches(r, ev, i) THEN StateAfter(r, ev) ELSE states[r]
    BY <2>1 DEF process_event
  <2>6. CASE Matches(r, ev, i) /\ ev.value = 1
    <3>1. ev = PressOf(k) /\ d = p
      BY <1>1, <2>3, <2>4, <2>6
         DEF Matches, Event, KeyEvent, SynDropped, PressOf
    <3>2. k \in down[p] \/ ReleasePending(p, k, 0 + 1)
      BY <2>3, <2>4, <3>1 DEF PressesClosed
    <3>3. ReleasePending(p, k, 0 + 1) => ReleasePending(p, k, 0)'
      BY <2>1, ReadKept
    <3>4. QED
      BY <3>1, <3>2, <3>3
  <2>7. CASE ~(Matches(r, ev, i) /\ ev.value = 1)
    <3>1. states[r] \in KeyState
      BY DEF TypeOK
    <3>2. states[r].active
      BY <2>4, <2>5, <2>7, <3>1 DEF StateAfter, Disarmed, KeyState
    <3>3. ~(d = p /\ ev = ReleaseOf(k))
      <4>1. SUFFICES ASSUME d = p, ev = ReleaseOf(k) PROVE FALSE
        OBVIOUS
      <4>2. Matches(r, ev, i) /\ ev.value = 0
        BY <1>1, <2>4, <4>1 DEF Matches, ReleaseOf
      <4>3. states'[r] = Disarmed(states[r])
        BY <2>4, <2>5, <3>2, <4>2 DEF StateAfter
      <4>4. ~states'[r].active
        BY <3>1, <4>3 DEF Disarmed, KeyState
      <4>5. QED
        BY <2>4, <4>4
    <3>4. k \in down[d] \/ ReleasePending(d, k, 0)
      BY <2>4, <3>2 DEF ArmedMeansHeld
    <3>5. CASE d = p
      BY <2>1, <3>3, <3>4, <3>5, ReadKept
    <3>6. CASE d # p
      BY <2>2, <3>4, <3>6 DEF ReleasePending
    <3>7. QED
      BY <3>5, <3>6
  <2>8. QED
    BY <2>6, <2>7
<1>5. QED
  BY <1>3, <1>4

-----------------------------------------------------------------------------
(* The inductive invariant.                                                *)

IInv == TypeOK /\ PressesClosed /\ ArmedMeansHeld

LEMMA InitIInv == Init => IInv
<1> SUFFICES ASSUME Init PROVE IInv
  OBVIOUS
<1>1. TypeOK
  BY InitTypeOK
<1>2. PressesClosed
  BY DEF Init, EvdevInit, PressesClosed
<1>3. ArmedMeansHeld
  BY DEF Init, ArmedMeansHeld
<1>4. QED
  BY <1>1, <1>2, <1>3 DEF IInv

\* Steps of the daemon that neither read an event nor arm a rule.
LEMMA Unarmed ==
  ASSUME IInv, UNCHANGED <<configs, evdevVars>>,
         \A r \in Rule : states'[r].active => states[r].active
  PROVE  PressesClosed' /\ ArmedMeansHeld'
BY DEF IInv, PressesClosed, ArmedMeansHeld, ReleasePending, evdevVars, Rule,
       IsLong, Dev, Code

LEMMA NextIInv == IInv /\ [Next]_vars => IInv'
<1> SUFFICES ASSUME IInv, [Next]_vars PROVE IInv'
  OBVIOUS
<1> USE DEF IInv
<1>1. TypeOK'
  BY NextTypeOK
<1>2. CASE LoopTest
  BY <1>1, <1>2, Unarmed DEF LoopTest
<1>3. CASE PollReturns
  BY <1>1, <1>3, Unarmed DEF PollReturns
<1>4. CASE PollFails
  BY <1>1, <1>4, Unarmed DEF PollFails
<1>5. ASSUME NEW i \in DOMAIN devices, ReadDevice(i) PROVE IInv'
  <2>1. PressesClosed'
    <3>1. devices[i] \in Path
      BY DEF TypeOK
    <3>2. CASE ReadEvent(devices[i])
      BY <3>1, <3>2, ReadClosed
    <3>3. CASE UNCHANGED evdevVars
      BY <3>3 DEF PressesClosed, ReleasePending, evdevVars
    <3>4. QED
      BY <1>5, <3>2, <3>3 DEF ReadDevice
  <2>2. ArmedMeansHeld'
    BY <1>5, ReadArmed
  <2>3. QED
    BY <1>1, <2>1, <2>2
<1>6. CASE ReadsDone
  BY <1>1, <1>6, Unarmed DEF ReadsDone
<1>7. CASE CheckTimeouts
  <2>1. \A r \in Rule : states'[r].active => states[r].active
    BY <1>7 DEF CheckTimeouts, check_long_press_timeouts, TypeOK, KeyState
  <2>2. QED
    BY <1>1, <1>7, <2>1, Unarmed DEF CheckTimeouts
<1>8. CASE signal_handler
  BY <1>1, <1>8, Unarmed DEF signal_handler
<1>9. CASE Tick
  BY <1>1, <1>9, Unarmed DEF Tick
<1>10. CASE Hardware
  <2>1. PressesClosed'
    BY <1>10, HardwareClosed
  <2>2. configs' = configs /\ states' = states
    BY <1>10 DEF Hardware, loopVars
  <2>3. ASSUME NEW r \in Rule, IsLong(r), states[r].active,
               NEW d \in Path, NEW k \in Key, d = Dev(r), k = Code(r),
               d \notin lost'
        PROVE  k \in down'[d] \/ ReleasePending(d, k, 0)'
    <3>1. d \notin lost
      BY <1>10, <2>3
         DEF Hardware, KeyDown, KeyUp, KeyRepeat, Unplug, Deliver
    <3>2. k \in down[d] \/ ReleasePending(d, k, 0)
      BY <2>3, <3>1 DEF ArmedMeansHeld
    <3>3. QED
      BY <1>10, <2>3, <3>2, HardwareAwaits
  <2>4. ArmedMeansHeld'
    <3>1. \A r \in Rule : Dev(r) \in Path /\ Code(r) \in Key
      BY RuleType
    <3>2. \A r \in Rule : /\ Dev(r)' = Dev(r) /\ Code(r)' = Code(r)
                          /\ IsLong(r)' <=> IsLong(r)
      BY <2>2 DEF Dev, Code, IsLong
    <3>3. Rule' = Rule
      BY <2>2 DEF Rule
    <3>4. QED
      BY <2>2, <2>3, <3>1, <3>2, <3>3 DEF ArmedMeansHeld, ReleasePending
  <2>5. QED
    BY <1>1, <2>1, <2>4
<1>11. CASE UNCHANGED vars
  BY <1>1, <1>11, Unarmed DEF vars, loopVars
<1>12. QED
  BY <1>2, <1>3, <1>4, <1>5, <1>6, <1>7, <1>8, <1>9, <1>10, <1>11
     DEF Next, LoopStep, Terminated

\* A long_press rule is armed only while its key is held or the release is
\* still to be read, on every device that has lost no event: process_event
\* never leaves a rule waiting for a release that cannot come.
THEOREM ArmedMeansHeldHolds == Spec => []ArmedMeansHeld
<1>1. Init => IInv
  BY InitIInv
<1>2. IInv /\ [Next]_vars => IInv'
  BY NextIInv
<1>3. IInv => ArmedMeansHeld
  BY DEF IInv
<1>4. QED
  BY <1>1, <1>2, <1>3, PTL DEF Spec

-----------------------------------------------------------------------------
(* Launches.                                                               *)

\* A script is launched only for a rule it is due for.
LEMMA ExecuteOnly ==
  ASSUME TypeOK, NEW F, execute_script(F), NEW r \in Rule
  PROVE  /\ launches'[r] \in {launches[r], launches[r] + 1}
         /\ r \notin F => launches'[r] = launches[r]
BY DEF execute_script

\* A step launches the script of a long_press rule only after the test of its
\* threshold.
LEMMA LaunchNeedsTime ==
  ASSUME TypeOK, [Next]_vars, NEW r \in Rule, IsLong(r),
         launches'[r] > launches[r]
  PROVE  LongEnough(r)
<1>0. launches[r] \in Nat
  BY DEF TypeOK
<1>1. ASSUME NEW F, execute_script(F) PROVE r \in F
  BY <1>0, <1>1, ExecuteOnly
<1>2. ASSUME NEW i \in DOMAIN devices, ReadDevice(i) PROVE LongEnough(r)
  <2>1. process_event(Head(queue[devices[i]]), i)
    BY <1>0, <1>2 DEF ReadDevice
  <2>2. FiresOn(r, Head(queue[devices[i]]))
    BY <1>1, <2>1 DEF process_event
  <2>3. QED
    BY <2>2 DEF FiresOn, IsLong
<1>3. CASE CheckTimeouts
  BY <1>1, <1>3 DEF CheckTimeouts, check_long_press_timeouts, Due
<1>4. CASE UNCHANGED launches
  BY <1>0, <1>4
<1>5. QED
  BY <1>2, <1>3, <1>4
     DEF Next, LoopStep, LoopTest, PollReturns, PollFails, ReadsDone,
         signal_handler, Tick, Hardware, Terminated, vars, loopVars

\* The test is never passed a whole millisecond too early: elapsed_ms
\* subtracts the fields of a timespec separately and truncates.
LEMMA LaunchIsLate ==
  ASSUME TypeOK, [Next]_vars, NEW r \in Rule, IsLong(r),
         launches'[r] > launches[r]
  PROVE  TimeOver(r, states[r].press_time)
<1>1. PICK now \in Nat, then \in Nat, ms \in Int :
        /\ now = clock /\ then = states[r].press_time
        /\ ms = configs[r].long_press_ms
  <2>1. states[r] \in KeyState /\ clock \in Nat
    BY DEF TypeOK
  <2>2. configs[r].long_press_ms \in Int
    BY RuleType
  <2>3. QED
    BY <2>1, <2>2 DEF KeyState
<1>2. ElapsedMs(now, then) >= ms
  BY <1>1, LaunchNeedsTime DEF LongEnough
<1>3. PICK n \in Nat \ {0} : n = NS_PER_MS
  BY TimeAssumption DEF TimeAssumption
<1>4. PICK e \in Int : /\ e >= ms
                       /\ n * e < now - then + n
  BY <1>2, <1>3, ElapsedMsBounds
<1>5. n * (e - ms) >= 0
  BY <1>4
<1>6. n * (e - ms) = n * e - n * ms /\ (ms - 1) * n = n * ms - n
  OBVIOUS
<1>7. n * e \in Int /\ n * ms \in Int
  OBVIOUS
<1>8. (ms - 1) * n < now - then
  BY <1>4, <1>5, <1>6, <1>7
<1>9. QED
  BY <1>1, <1>3, <1>8 DEF TimeOver

\* A step launches the script of a long_press rule only while it is armed.
LEMMA LaunchNeedsArmed ==
  ASSUME TypeOK, [Next]_vars, NEW r \in Rule, IsLong(r),
         launches'[r] > launches[r]
  PROVE  states[r].active
<1>0. launches[r] \in Nat
  BY DEF TypeOK
<1>1. ASSUME NEW F, execute_script(F) PROVE r \in F
  BY <1>0, <1>1, ExecuteOnly
<1>2. ASSUME NEW i \in DOMAIN devices, ReadDevice(i) PROVE states[r].active
  <2>1. process_event(Head(queue[devices[i]]), i)
    BY <1>0, <1>2 DEF ReadDevice
  <2>2. FiresOn(r, Head(queue[devices[i]]))
    BY <1>1, <2>1 DEF process_event
  <2>3. QED
    BY <2>2 DEF FiresOn, IsLong
<1>3. CASE CheckTimeouts
  BY <1>1, <1>3 DEF CheckTimeouts, check_long_press_timeouts, Due
<1>4. CASE UNCHANGED launches
  BY <1>0, <1>4
<1>5. QED
  BY <1>2, <1>3, <1>4
     DEF Next, LoopStep, LoopTest, PollReturns, PollFails, ReadsDone,
         signal_handler, Tick, Hardware, Terminated, vars, loopVars

\* No launch of a long_press script comes a millisecond or more before its time
\* has passed since its press was read: elapsed_ms, made of two differences, is
\* never a whole millisecond ahead of the clock.
THEOREM NotBeforeTimeHolds == Spec => NotBeforeTime
<1>1. TypeOK /\ [Next]_vars =>
        [\A r \in Rule : IsLong(r) /\ launches'[r] > launches[r]
           => TimeOver(r, states[r].press_time)]_vars
  BY LaunchIsLate
<1>2. Init => TypeOK
  BY InitTypeOK
<1>3. TypeOK /\ [Next]_vars => TypeOK'
  BY NextTypeOK
<1>4. QED
  BY <1>1, <1>2, <1>3, PTL DEF Spec, NotBeforeTime

-----------------------------------------------------------------------------
(* The time for which the key itself is down (KeyHolds).                   *)

\* The rules and the devices stay, and so does what is lost.
LEMMA FixedInLoop ==
  ASSUME [Next]_vars
  PROVE  /\ configs' = configs /\ devices' = devices /\ world' = world
         /\ lost \subseteq lost'
<1>1. ASSUME NEW i \in DOMAIN devices, ReadDevice(i)
      PROVE  /\ configs' = configs /\ devices' = devices /\ world' = world
             /\ lost \subseteq lost'
  BY <1>1 DEF ReadDevice, ReadEvent, evdevVars
<1>2. CASE Hardware
  <2>1. lost \subseteq lost'
    BY <1>2 DEF Hardware, KeyDown, KeyUp, KeyRepeat, Unplug, Deliver
  <2>2. QED
    BY <1>2, <2>1 DEF Hardware
<1>3. QED
  BY <1>1, <1>2
     DEF Next, LoopStep, LoopTest, PollReturns, PollFails, ReadsDone,
         CheckTimeouts, signal_handler, Tick, Terminated, vars, evdevVars

\* A device that is gone counts as one that has lost events.
GoneIsLost == \A p \in Path : p \in plugged \/ p \in lost

\* A rule is armed by an event of its device, which is open then.
ArmedIsOpen == \A r \in Rule : states[r].active => Opened(Dev(r))

LEMMA ArmedIsOpenNext ==
  ASSUME TypeOK, ArmedIsOpen, [Next]_vars
  PROVE  ArmedIsOpen'
<1>1. /\ Rule' = Rule
      /\ \A r \in Rule : Opened(Dev(r))' <=> Opened(Dev(r))
  BY FixedInLoop DEF Rule, Opened, Dev
<1>2. ASSUME NEW r \in Rule, states'[r].active PROVE Opened(Dev(r))
  <2>1. ASSUME NEW i \in DOMAIN devices, ReadDevice(i)
        PROVE  states[r].active \/ Opened(Dev(r))
    <3>1. CASE states' = states
      BY <1>2, <3>1
    <3>2. CASE process_event(Head(queue[devices[i]]), i)
      BY <1>2, <3>2 DEF process_event, Matches, Opened
    <3>3. QED
      BY <2>1, <3>1, <3>2 DEF ReadDevice
  <2>2. CASE CheckTimeouts
    BY <1>2, <2>2 DEF CheckTimeouts, check_long_press_timeouts, ArmedIsOpen,
                      TypeOK, KeyState
  <2>3. CASE states' = states
    BY <1>2, <2>3 DEF ArmedIsOpen
  <2>4. QED
    BY <2>1, <2>2, <2>3
       DEF ArmedIsOpen, Next, LoopStep, LoopTest, PollReturns, PollFails,
           ReadsDone, signal_handler, Tick, Hardware, Terminated, vars, loopVars
<1>3. QED
  BY <1>1, <1>2 DEF ArmedIsOpen

\* PressTimesReal of one rule, whose device is d and whose key is k.
Real(r, d, k) ==
  /\ \A j \in DOMAIN queue[d] : queue[d][j] = PressOf(k) => BeganAt(d, k, j, clock)
  /\ states[r].active => BeganAt(d, k, 0, states[r].press_time)

\* What NoteHolds says of one key.
Noted(d, k) ==
  /\ since'[d][k] = IF k \notin down'[d] THEN 0
                    ELSE IF k \in down[d] THEN since[d][k] ELSE clock
  /\ ended'[d][k] = IF clock' # clock THEN {}
                    ELSE IF k \in down[d] \ down'[d]
                         THEN ended[d][k] \cup {since[d][k]}
                    ELSE ended[d][k]

\* The key of a long_press rule is watched in a prompt world.
LEMMA WatchedNoted ==
  ASSUME NoteHolds, world.prompt, NEW r \in Rule, IsLong(r),
         NEW d \in Path, NEW k \in Key, d = Dev(r), k = Code(r)
  PROVE  Noted(d, k)
<1>1. Watched(d, k)
  BY DEF Watched
<1>2. QED
  BY <1>1 DEF NoteHolds, Noted

LEMMA GoneIsLostNext ==
  ASSUME TypeOK, GoneIsLost, [Next]_vars
  PROVE  GoneIsLost'
<1>1. CASE UNCHANGED <<plugged, lost>>
  BY <1>1 DEF GoneIsLost
<1>2. CASE Hardware
  BY <1>2 DEF GoneIsLost, Hardware, KeyDown, KeyUp, KeyRepeat, Unplug, Deliver
<1>3. ASSUME NEW i \in DOMAIN devices, ReadDevice(i)
      PROVE  UNCHANGED <<plugged, lost>>
  BY <1>3 DEF ReadDevice, ReadEvent, evdevVars
<1>4. QED
  BY <1>1, <1>2, <1>3
     DEF Next, LoopStep, LoopTest, PollReturns, PollFails, ReadsDone,
         CheckTimeouts, signal_handler, Tick, Terminated, vars, evdevVars

\* A step that neither moves a key nor arms a rule.
LEMMA QuietReal ==
  ASSUME NEW r, NEW d, NEW k, Real(r, d, k), Noted(d, k),
         UNCHANGED <<evdevVars, clock>>,
         states'[r].active => /\ states[r].active
                              /\ states'[r].press_time = states[r].press_time
  PROVE  Real(r, d, k)'
BY DEF Real, Noted, BeganAt, ReleasePending, evdevVars

\* Time passes only while nothing is unread: a hold that goes on goes on.
LEMMA TickReal ==
  ASSUME TypeOK, GoneIsLost, Tick, NEW r \in Rule, NEW d \in Path, NEW k \in Key,
         world.prompt, Opened(d), d \notin lost, Real(r, d, k), Noted(d, k)
  PROVE  Real(r, d, k)'
<1>1. queue[d] = <<>>
  <2>1. PICK i \in DOMAIN devices : devices[i] = d
    BY DEF Opened
  <2>2. d \in plugged
    BY DEF GoneIsLost
  <2>3. QED
    BY <2>1, <2>2 DEF Tick, Readable
<1>2. ~ReleasePending(d, k, 0)
  BY <1>1 DEF ReleasePending
<1>3. UNCHANGED <<states, queue, down>>
  BY DEF Tick, evdevVars
<1>4. states[r].active => k \in down[d] /\ since[d][k] = states[r].press_time
  BY <1>2 DEF Real, BeganAt
<1>5. QED
  BY <1>1, <1>3, <1>4 DEF Real, BeganAt, Noted

\* A press that is read was made at this instant; every other read keeps or
\* disarms the rule.
LEMMA ReadReal ==
  ASSUME TypeOK, NEW i \in DOMAIN devices, ReadDevice(i),
         NEW r \in Rule, IsLong(r), NEW d \in Path, NEW k \in Key,
         d = Dev(r), k = Code(r), Real(r, d, k), Noted(d, k)
  PROVE  Real(r, d, k)'
<1>1. PICK p \in Path : p = devices[i]
  BY DEF TypeOK
<1> DEFINE ev == Head(queue[p])
<1>2. clock' = clock
  BY DEF ReadDevice
<1>3. CASE p \notin plugged
  BY <1>1, <1>2, <1>3, QuietReal DEF ReadDevice
<1>4. CASE p \in plugged
  <2>1. ReadEvent(p) /\ process_event(ev, i)
    BY <1>1, <1>4 DEF ReadDevice
  <2>2. /\ down' = down
        /\ queue[p] \in Seq(Event) /\ queue[p] # <<>>
        /\ queue'[p] = Tail(queue[p])
        /\ \A q \in Path : q # p => queue'[q] = queue[q]
    BY <2>1, ReadKept
  <2>3. since'[d][k] = since[d][k] \/ k \notin down'[d]
    BY <2>2 DEF Noted
  <2>4. ended'[d][k] = ended[d][k]
    BY <1>2, <2>2 DEF Noted
  <2>5. ev = queue[p][1] /\ ev \in Event /\ 1 \in DOMAIN queue[p]
    BY <2>2, TailFacts
  <2>6. states'[r] = IF Matches(r, ev, i) THEN StateAfter(r, ev) ELSE states[r]
    BY <2>1 DEF process_event
  <2>7. states[r] \in KeyState
    BY DEF TypeOK
  <2>8. CASE d # p
    <3>1. ~Matches(r, ev, i)
      BY <1>1, <2>8 DEF Matches
    <3>2. queue'[d] = queue[d] /\ states'[r] = states[r]
      BY <2>2, <2>6, <2>8, <3>1
    <3>3. \A j, t : BeganAt(d, k, j, t) => BeganAt(d, k, j, t)'
      BY <2>2, <2>3, <2>4, <3>2 DEF BeganAt, ReleasePending
    <3>4. QED
      BY <1>2, <3>2, <3>3 DEF Real
  <2>9. CASE d = p
    <3>1. \A j \in Nat : \A t : BeganAt(d, k, j + 1, t) => BeganAt(d, k, j, t)'
      <4>1. \A a \in Nat : ReleasePending(p, k, a + 1) => ReleasePending(p, k, a)'
        BY <2>1, ReadKept
      <4>2. QED
        BY <2>2, <2>3, <2>4, <2>9, <4>1 DEF BeganAt
    <3>2. ASSUME NEW j \in DOMAIN queue'[d], queue'[d][j] = PressOf(k)
          PROVE  BeganAt(d, k, j, clock)'
      <4>1. j \in DOMAIN Tail(queue[p]) /\ j \in Nat
        <5>1. j \in DOMAIN Tail(queue[p])
          BY <2>2, <2>9, <3>2
        <5>2. Tail(queue[p]) \in Seq(Event)
          BY <2>2, TailFacts
        <5>3. j \in Nat
          BY <5>1, <5>2
        <5>4. QED
          BY <5>1, <5>3
      <4>2. j + 1 \in DOMAIN queue[d] /\ queue[d][j + 1] = PressOf(k)
        <5>1. Tail(queue[p])[j] = PressOf(k)
          BY <2>2, <2>9, <3>2
        <5>2. j + 1 \in DOMAIN queue[p] /\ Tail(queue[p])[j] = queue[p][j + 1]
          BY <2>2, <4>1, TailFacts
        <5>3. QED
          BY <2>9, <5>1, <5>2
      <4>3. BeganAt(d, k, j + 1, clock)
        BY <4>2 DEF Real
      <4>4. QED
        BY <1>2, <3>1, <4>1, <4>3 DEF BeganAt
    <3>3. CASE ev = PressOf(k)
      <4>1. Matches(r, ev, i) /\ ev.value = 1
        BY <1>1, <2>9, <3>3 DEF Matches, PressOf
      <4>2. states'[r] = Armed
        BY <2>6, <4>1 DEF StateAfter
      <4>3. states'[r].press_time = clock
        BY <4>2 DEF Armed
      <4>4. BeganAt(d, k, 0 + 1, clock)
        BY <2>5, <2>9, <3>3 DEF Real
      <4>5. \A t : BeganAt(d, k, 0 + 1, t) => BeganAt(d, k, 0, t)'
        BY <3>1
      <4>6. BeganAt(d, k, 0, states[r].press_time)'
        BY <4>3, <4>4, <4>5 DEF BeganAt
      <4>7. QED
        BY <3>2, <4>6 DEF Real
    <3>4. CASE ev # PressOf(k)
      <4>1. ~(Matches(r, ev, i) /\ ev.value = 1)
        BY <1>1, <2>5, <3>4 DEF Matches, Event, KeyEvent, SynDropped, PressOf
      <4>2. states'[r].active => /\ states[r].active
                                 /\ states'[r].press_time = states[r].press_time
                                 /\ ev # ReleaseOf(k)
        <5>1. CASE ev = ReleaseOf(k)
          <6>1. Matches(r, ev, i) /\ ev.value = 0
            BY <1>1, <2>9, <5>1 DEF Matches, ReleaseOf
          <6>2. ~states'[r].active
            BY <2>6, <2>7, <6>1 DEF StateAfter, Disarmed, KeyState
          <6>3. QED
            BY <6>2
        <5>2. CASE ev # ReleaseOf(k)
          BY <2>6, <2>7, <4>1, <5>2 DEF StateAfter, Disarmed, KeyState
        <5>3. QED
          BY <5>1, <5>2
      <4>3. ASSUME states'[r].active
            PROVE  BeganAt(d, k, 0, states[r].press_time)'
        <5>1. BeganAt(d, k, 0, states[r].press_time)
          BY <4>2, <4>3 DEF Real
        <5>2. ReleasePending(p, k, 0) => ReleasePending(p, k, 0)'
          BY <2>1, <4>2, <4>3, ReadKept
        <5>3. QED
          BY <2>2, <2>3, <2>4, <2>9, <4>2, <4>3, <5>1, <5>2 DEF BeganAt
      <4>4. QED
        BY <3>2, <4>3 DEF Real
    <3>5. QED
      BY <3>3, <3>4
  <2>10. QED
    BY <2>8, <2>9
<1>5. QED
  BY <1>3, <1>4

\* A hold goes on, or ends now with its release delivered.
LEMMA HardwareBegan ==
  ASSUME TypeOK, Hardware, NEW d \in Path, d \notin lost', NEW k \in Key,
         NEW j \in DOMAIN queue[d] \cup {0}, NEW t,
         BeganAt(d, k, j, t), Noted(d, k)
  PROVE  BeganAt(d, k, j, t)'
<1>1. clock' = clock
  BY DEF Hardware, loopVars
<1>2. CASE k \in down[d] /\ since[d][k] = t
  <2>1. k \in down'[d] \/ ReleasePending(d, k, j)'
    BY <1>2, HardwareAwaits
  <2>2. k \in down'[d] => since'[d][k] = t
    BY <1>2 DEF Noted
  <2>3. k \notin down'[d] => t \in ended'[d][k]
    BY <1>1, <1>2 DEF Noted
  <2>4. QED
    BY <2>1, <2>2, <2>3 DEF BeganAt
<1>3. CASE t \in ended[d][k] /\ ReleasePending(d, k, j)
  <2>1. t \in ended'[d][k]
    BY <1>1, <1>3 DEF Noted
  <2>2. ReleasePending(d, k, j)'
    <3>1. PICK p \in Path :
             (\E m \in Key : KeyDown(p, m) \/ KeyUp(p, m) \/ KeyRepeat(p, m))
             \/ Unplug(p)
      BY DEF Hardware
    <3>2. ASSUME NEW m \in Key
          PROVE  PressOf(m) \in Event /\ ReleaseOf(m) \in Event
                   /\ RepeatOf(m) \in Event
      BY DEF Event, KeyEvent, PressOf, ReleaseOf, RepeatOf
    <3>3. j \in Nat
      <4>1. queue[d] \in Seq(Event)
        BY DEF TypeOK, EvdevTypeOK
      <4>2. QED
        BY <4>1
    <3>4. CASE Unplug(p)
      BY <1>3, <3>4 DEF Unplug, ReleasePending
    <3>5. ASSUME NEW e \in Event, Deliver(p, e) PROVE ReleasePending(d, k, j)'
      BY <1>3, <3>3, <3>5, DeliverKept, DeliverOthers
    <3>6. QED
      BY <3>1, <3>2, <3>4, <3>5 DEF KeyDown, KeyUp, KeyRepeat
  <2>3. QED
    BY <2>1, <2>2 DEF BeganAt
<1>4. QED
  BY <1>2, <1>3 DEF BeganAt

\* A press that is delivered is of a key that goes down now.
LEMMA HardwareReal ==
  ASSUME TypeOK, Hardware, NEW r \in Rule, NEW d \in Path, d \notin lost',
         NEW k \in Key, Real(r, d, k), Noted(d, k)
  PROVE  Real(r, d, k)'
<1>1. clock' = clock /\ states' = states
  BY DEF Hardware, loopVars
<1>2. states'[r].active => BeganAt(d, k, 0, states[r].press_time)'
  <2>1. ASSUME states[r].active
        PROVE  BeganAt(d, k, 0, states[r].press_time)'
    <3>1. PICK t : t = states[r].press_time
      OBVIOUS
    <3>2. BeganAt(d, k, 0, t)
      BY <2>1, <3>1 DEF Real
    <3>3. BeganAt(d, k, 0, t)'
      BY <3>2, HardwareBegan
    <3>4. QED
      BY <1>1, <3>1, <3>3 DEF BeganAt
  <2>2. QED
    BY <1>1, <2>1
<1>3. ASSUME NEW j \in DOMAIN queue'[d], queue'[d][j] = PressOf(k)
      PROVE  BeganAt(d, k, j, clock)'
  <2>1. CASE j \in DOMAIN queue[d] /\ queue[d][j] = PressOf(k)
    <3>1. PICK t : t = clock
      OBVIOUS
    <3>2. BeganAt(d, k, j, t)
      BY <2>1, <3>1 DEF Real
    <3>3. BeganAt(d, k, j, t)'
      BY <2>1, <3>2, HardwareBegan
    <3>4. QED
      BY <1>1, <3>1, <3>3 DEF BeganAt
  <2>2. CASE ~(j \in DOMAIN queue[d] /\ queue[d][j] = PressOf(k))
    <3>1. PICK p \in Path :
             (\E m \in Key : KeyDown(p, m) \/ KeyUp(p, m) \/ KeyRepeat(p, m))
             \/ Unplug(p)
      BY DEF Hardware
    <3>2. ASSUME NEW m \in Key
          PROVE  /\ PressOf(m) \in Event /\ ReleaseOf(m) \in Event
                 /\ RepeatOf(m) \in Event
                 /\ ReleaseOf(m) # PressOf(k) /\ RepeatOf(m) # PressOf(k)
                 /\ PressOf(m) = PressOf(k) => m = k
      BY DEF Event, KeyEvent, PressOf, ReleaseOf, RepeatOf
    <3>3. ASSUME NEW e \in Event, Deliver(p, e)
          PROVE  d = p /\ e = PressOf(k)
      <4>1. d = p
        BY <1>3, <2>2, <3>3, DeliverOthers
      <4>2. queue[p] \in Seq(Event) /\ queue'[p] = Append(queue[p], e)
        BY <3>3, <4>1, DeliverKept
      <4>3. QED
        BY <1>3, <2>2, <3>3, <4>1, <4>2, AppendFacts
    <3>4. ASSUME NEW m \in Key, KeyDown(p, m) PROVE BeganAt(d, k, j, clock)'
      <4>1. d = p /\ m = k
        BY <3>2, <3>3, <3>4 DEF KeyDown
      <4>2. k \notin down[d] /\ k \in down'[d]
        BY <3>4, <4>1 DEF KeyDown, TypeOK, EvdevTypeOK
      <4>3. since'[d][k] = clock
        BY <4>2 DEF Noted
      <4>4. QED
        BY <1>1, <4>2, <4>3 DEF BeganAt
    <3>5. ASSUME NEW m \in Key, KeyUp(p, m) \/ KeyRepeat(p, m) PROVE FALSE
      BY <3>2, <3>3, <3>5 DEF KeyUp, KeyRepeat
    <3>6. ASSUME Unplug(p) PROVE FALSE
      BY <1>3, <2>2, <3>6 DEF Unplug
    <3>7. QED
      BY <3>1, <3>4, <3>5, <3>6
  <2>3. QED
    BY <2>1, <2>2
<1>4. QED
  BY <1>2, <1>3 DEF Real

\* One step, for one rule.
LEMMA RealNext ==
  ASSUME TypeOK, GoneIsLost, Next, NoteHolds, world.prompt,
         NEW r \in Rule, IsLong(r), NEW d \in Path, NEW k \in Key,
         d = Dev(r), k = Code(r), Opened(d), d \notin lost', Real(r, d, k)
  PROVE  Real(r, d, k)'
<1>1. Noted(d, k)
  BY WatchedNoted
<1>2. d \notin lost
  BY FixedInLoop
<1>3. CASE UNCHANGED <<evdevVars, clock, states>>
  BY <1>1, <1>3, QuietReal
<1>4. ASSUME NEW i \in DOMAIN devices, ReadDevice(i) PROVE Real(r, d, k)'
  BY <1>1, <1>4, ReadReal
<1>5. CASE CheckTimeouts
  <2>1. states'[r].active => /\ states[r].active
                             /\ states'[r].press_time = states[r].press_time
    BY <1>5 DEF CheckTimeouts, check_long_press_timeouts, TypeOK, KeyState
  <2>2. UNCHANGED <<evdevVars, clock>>
    BY <1>5 DEF CheckTimeouts
  <2>3. QED
    BY <1>1, <2>1, <2>2, QuietReal
<1>6. CASE Tick
  BY <1>1, <1>2, <1>6, TickReal
<1>7. CASE Hardware
  BY <1>1, <1>7, HardwareReal
<1>8. QED
  BY <1>3, <1>4, <1>5, <1>6, <1>7
     DEF Next, LoopStep, LoopTest, PollReturns, PollFails, ReadsDone,
         signal_handler, Terminated, vars, loopVars

HoldsInv == TypeOK /\ GoneIsLost /\ ArmedIsOpen /\ PressTimesReal

LEMMA HoldsInvNext == HoldsInv /\ [HoldsNext]_<<vars, holdVars>> => HoldsInv'
<1> SUFFICES ASSUME HoldsInv, [HoldsNext]_<<vars, holdVars>> PROVE HoldsInv'
  OBVIOUS
<1> USE DEF HoldsInv
<1>1. [Next]_vars
  BY DEF HoldsNext
<1>2. TypeOK' /\ GoneIsLost' /\ ArmedIsOpen'
  BY <1>1, NextTypeOK, GoneIsLostNext, ArmedIsOpenNext
<1>3. CASE UNCHANGED <<vars, holdVars>>
  BY <1>2, <1>3
     DEF PressTimesReal, BeganAt, ReleasePending, Opened, Rule, IsLong, Dev,
         Code, vars, holdVars, loopVars, evdevVars
<1>4. CASE HoldsNext
  <2>1. Next /\ NoteHolds
    BY <1>4 DEF HoldsNext
  <2>2. /\ configs' = configs /\ devices' = devices /\ world' = world
        /\ lost \subseteq lost'
    BY <1>1, FixedInLoop
  <2>3. ASSUME NEW r \in Rule, IsLong(r), world.prompt,
               NEW d \in Path, NEW k \in Key, d = Dev(r), k = Code(r),
               Opened(d), d \notin lost'
        PROVE  Real(r, d, k)'
    <3>1. Real(r, d, k)
      BY <2>2, <2>3 DEF PressTimesReal, Real
    <3>2. QED
      BY <2>1, <2>3, <3>1, RealNext
  <2>4. ASSUME NEW r \in Rule PROVE Dev(r) \in Path /\ Code(r) \in Key
    BY <2>4, RuleType
  <2>5. \A r \in Rule : /\ Dev(r)' = Dev(r) /\ Code(r)' = Code(r)
                        /\ IsLong(r)' <=> IsLong(r)
    BY <2>2 DEF Dev, Code, IsLong
  <2>6. Rule' = Rule /\ \A d : Opened(d)' <=> Opened(d)
    BY <2>2 DEF Rule, Opened
  <2>7. PressTimesReal'
    BY <2>2, <2>3, <2>4, <2>5, <2>6
       DEF PressTimesReal, Real, BeganAt, ReleasePending
  <2>8. QED
    BY <1>2, <2>7
<1>5. QED
  BY <1>3, <1>4

\* While the daemon is never kept from running, the key of a long_press rule
\* has itself been down for the time of the rule when the script runs, without
\* a break and until this instant, if the device has lost no event: the time
\* that process_event and check_long_press_timeouts measure is that of one
\* hold, for every schedule of presses, releases, repeats and polls.
THEOREM NeverEarly == HoldsSpec => NoEarlyLongPress
<1>1. HoldsInit => HoldsInv
  <2> SUFFICES ASSUME HoldsInit PROVE HoldsInv
    OBVIOUS
  <2>1. TypeOK
    BY InitTypeOK DEF HoldsInit
  <2>2. \A r \in Rule : Dev(r) \in Path /\ Code(r) \in Key
    BY <2>1, RuleType
  <2>3. GoneIsLost /\ ArmedIsOpen /\ PressTimesReal
    BY <2>2 DEF HoldsInit, Init, EvdevInit, GoneIsLost, ArmedIsOpen,
                PressTimesReal
  <2>4. QED
    BY <2>1, <2>3 DEF HoldsInv
<1>2. HoldsInv /\ [HoldsNext]_<<vars, holdVars>> =>
        [\A r \in Rule : /\ IsLong(r) /\ launches'[r] > launches[r]
                         /\ world.prompt /\ Dev(r) \notin lost
           => \E t \in HeldFrom(Dev(r), Code(r)) : TimeOver(r, t)]_vars
  <2> SUFFICES ASSUME HoldsInv, [HoldsNext]_<<vars, holdVars>>,
                      NEW r \in Rule, IsLong(r), launches'[r] > launches[r],
                      world.prompt, Dev(r) \notin lost
               PROVE  \E t \in HeldFrom(Dev(r), Code(r)) : TimeOver(r, t)
    OBVIOUS
  <2>1. TypeOK /\ [Next]_vars /\ launches[r] \in Nat
    BY DEF HoldsInv, HoldsNext, TypeOK
  <2>2. TimeOver(r, states[r].press_time)
    BY <2>1, LaunchIsLate
  <2>3. states[r].active /\ Opened(Dev(r))
    BY <2>1, LaunchNeedsArmed DEF HoldsInv, ArmedIsOpen
  <2>4. BeganAt(Dev(r), Code(r), 0, states[r].press_time)
    BY <2>3 DEF HoldsInv, PressTimesReal
  <2>5. states[r].press_time \in HeldFrom(Dev(r), Code(r))
    BY <2>4 DEF BeganAt, HeldFrom
  <2>6. QED
    BY <2>2, <2>5
<1>3. HoldsInv /\ [HoldsNext]_<<vars, holdVars>> => HoldsInv'
  BY HoldsInvNext
<1>4. QED
  BY <1>1, <1>2, <1>3, PTL DEF HoldsSpec, NoEarlyLongPress

-----------------------------------------------------------------------------
(* Punctuality, in a world where time passes in poll only.                 *)

Timeout == POLL_TIMEOUT_MS * NS_PER_MS
Threshold(r) == configs[r].long_press_ms * NS_PER_MS
Patient(r) == IsLong(r) /\ configs[r].long_press_ms >= 0
Waiting(s) == s.active /\ ~s.long_triggered

\* When the loop begins a round no rule is due, unless a signal has brought it
\* there from poll, and then it ends; poll adds one timeout at most.
InTime(press, limit) ==
  /\ pc = "loop" /\ ~should_exit => clock - press <= limit
  /\ pc = "poll" => pollStart - press <= limit
  /\ pc # "done" => clock - press <= limit + Timeout
Punctual ==
  world.prompt =>
    /\ pc = "poll" => pollStart <= clock /\ clock <= pollStart + Timeout
    /\ \A r \in Rule : Patient(r) /\ Waiting(states[r]) =>
                        InTime(states[r].press_time, Threshold(r))

\* The terms of these bounds are numbers, and the bounds are those of
\* LongPressOnTime.
LEMMA BoundTypes ==
  ASSUME TypeOK
  PROVE  /\ Timeout \in Nat
         /\ \A r \in Rule :
              /\ Threshold(r) \in Int
              /\ states[r].press_time \in Nat
              /\ configs[r].long_press_ms >= 0 => Threshold(r) >= 0
              /\ (configs[r].long_press_ms + POLL_TIMEOUT_MS) * NS_PER_MS
                   = Threshold(r) + Timeout
<1>1. PICK n \in Nat, t \in Nat : n = NS_PER_MS /\ t = POLL_TIMEOUT_MS
  BY TimeAssumption, ListenerAssumption DEF TimeAssumption, ListenerAssumption
<1>2. t * n \in Nat
  BY <1>1
<1>3. ASSUME NEW r \in Rule
      PROVE  /\ Threshold(r) \in Int
             /\ states[r].press_time \in Nat
             /\ configs[r].long_press_ms >= 0 => Threshold(r) >= 0
             /\ (configs[r].long_press_ms + POLL_TIMEOUT_MS) * NS_PER_MS
                  = Threshold(r) + Timeout
  <2>1. PICK ms \in Int : ms = configs[r].long_press_ms
    BY <1>3, RuleType
  <2>2. /\ ms * n \in Int /\ (ms >= 0 => ms * n >= 0)
        /\ (ms + t) * n = ms * n + t * n
    BY <1>1
  <2>3. states[r].press_time \in Nat /\ clock \in Nat
    BY DEF TypeOK, KeyState
  <2> QED
    BY <1>1, <2>1, <2>2, <2>3 DEF Threshold, Timeout
<1> QED
  BY <1>1, <1>2, <1>3 DEF Timeout

\* A rule that has passed the timeout check is still waiting for its time.
LEMMA NotDue ==
  ASSUME TypeOK, NEW r \in Rule, ~LongEnough(r)
  PROVE  clock - states[r].press_time <= Threshold(r)
<1>1. PICK now \in Nat, then \in Nat, ms \in Int :
        /\ now = clock /\ then = states[r].press_time
        /\ ms = configs[r].long_press_ms
  BY RuleType DEF TypeOK, KeyState
<1>2. PICK n \in Nat \ {0} : n = NS_PER_MS
  BY TimeAssumption DEF TimeAssumption
<1>3. PICK e \in Int : e < ms /\ n * e > now - then - n
  <2>1. PICK e \in Int : e = ElapsedMs(now, then)
    BY ElapsedMsBounds
  <2>2. n * e > now - then - n
    BY <1>2, <2>1, ElapsedMsBounds
  <2>3. ~(e >= ms)
    BY <1>1, <2>1 DEF LongEnough
  <2> QED
    BY <2>2, <2>3
<1>4. n * (ms - e - 1) >= 0
  BY <1>3
<1>5. n * (ms - e - 1) = n * ms - n * e - n /\ n * ms = ms * n
  OBVIOUS
<1>6. n * e \in Int /\ n * ms \in Int
  OBVIOUS
<1>7. now - then <= ms * n
  BY <1>3, <1>4, <1>5, <1>6
<1> QED
  BY <1>1, <1>2, <1>7 DEF Threshold

\* Each step keeps the bounds of poll, and those of a rule that waits.
LEMMA NextPunctual ==
  ASSUME TypeOK, Punctual, [Next]_vars
  PROVE  Punctual'
<1>1. configs' = configs /\ world' = world
  <2>1. ASSUME NEW i \in DOMAIN devices, ReadDevice(i)
        PROVE  configs' = configs /\ world' = world
    BY <2>1 DEF ReadDevice
  <2> QED
    BY <2>1 DEF Next, LoopStep, LoopTest, PollReturns, PollFails, ReadsDone,
                CheckTimeouts, signal_handler, Tick, Hardware, Terminated, vars
<1>2. clock \in Nat /\ pollStart \in Nat /\ Timeout \in Nat
  BY BoundTypes DEF TypeOK
<1>3. /\ Rule' = Rule /\ Timeout' = Timeout
      /\ \A r \in Rule : Threshold(r)' = Threshold(r) /\ (Patient(r)' <=> Patient(r))
  BY <1>1 DEF Rule, Timeout, Threshold, Patient, IsLong
<1>4. ASSUME world.prompt
      PROVE  pc' = "poll" => pollStart' <= clock' /\ clock' <= pollStart' + Timeout
  <2>1. pc = "poll" => pollStart <= clock /\ clock <= pollStart + Timeout
    BY <1>4 DEF Punctual
  <2>2. CASE Tick
    BY <1>2, <1>4, <2>1, <2>2 DEF Tick, TimedOut, Timeout
  <2>3. CASE LoopTest
    BY <1>2, <2>3 DEF LoopTest
  <2>4. CASE pc' = "poll" => UNCHANGED <<pc, clock, pollStart>>
    BY <2>1, <2>4
  <2> QED
    BY <2>2, <2>3, <2>4
       DEF Next, LoopStep, PollReturns, PollFails, ReadDevice, ReadsDone,
           CheckTimeouts, signal_handler, Hardware, Terminated, vars, loopVars
<1>5. ASSUME world.prompt, NEW r \in Rule, Patient(r), Waiting(states'[r])
      PROVE  InTime(states[r].press_time, Threshold(r))'
  <2>1. PICK limit \in Nat, timeout \in Nat, press \in Nat :
          /\ limit = Threshold(r) /\ timeout = Timeout
          /\ press = states[r].press_time
    BY <1>2, <1>5, BoundTypes DEF Patient
  <2>2. states[r] \in KeyState /\ states'[r] \in KeyState
    BY <1>3, <1>5, NextTypeOK DEF TypeOK
  <2>3. clock' \in Nat /\ pollStart' \in Nat
    BY NextTypeOK DEF TypeOK
  <2>4. pc = "poll" => pollStart <= clock /\ clock <= pollStart + timeout
    BY <1>5, <2>1 DEF Punctual
  <2>5. CASE states'[r] = states[r]
    <3>1. /\ pc = "loop" /\ ~should_exit => clock - press <= limit
          /\ pc = "poll" => pollStart - press <= limit
          /\ pc # "done" => clock - press <= limit + timeout
      BY <1>5, <2>1, <2>5 DEF Punctual, InTime
    <3>2. SUFFICES
            /\ pc' = "loop" /\ ~should_exit' => clock' - press <= limit
            /\ pc' = "poll" => pollStart' - press <= limit
            /\ pc' # "done" => clock' - press <= limit + timeout
      BY <1>3, <2>1, <2>5 DEF InTime
    <3>3. CASE LoopTest
      BY <1>2, <2>1, <3>1, <3>3 DEF LoopTest, Continue
    <3>4. CASE PollReturns \/ ReadsDone
      BY <3>1, <3>4 DEF PollReturns, ReadsDone
    <3>5. CASE PollFails
      BY <3>5 DEF PollFails
    <3>6. CASE signal_handler
      BY <3>1, <3>6 DEF signal_handler
    <3>7. CASE Tick
      <4>1. /\ pc = "poll" /\ pc' = "poll" /\ clock' = clock + 1
            /\ pollStart' = pollStart /\ clock < pollStart + timeout
        BY <1>2, <1>5, <2>1, <3>7 DEF Tick, TimedOut, Timeout
      <4> QED
        BY <1>2, <2>1, <3>1, <4>1
    <3>8. CASE UNCHANGED <<pc, should_exit, clock, pollStart>>
      BY <3>1, <3>8
    <3>9. CASE \E i \in DOMAIN devices : ReadDevice(i)
      BY <3>1, <3>9 DEF ReadDevice
    <3>10. CASE CheckTimeouts
      <4>1. r \notin Due
        BY <1>5, <2>2, <2>5, <3>10
           DEF CheckTimeouts, check_long_press_timeouts, KeyState, Waiting
      <4>2. clock - press <= limit
        BY <1>5, <2>1, <2>5, <4>1, NotDue DEF Due, Waiting, Patient
      <4>3. pc' = "loop" /\ clock' = clock
        BY <3>10 DEF CheckTimeouts
      <4> QED
        BY <1>2, <2>1, <4>2, <4>3
    <3>11. CASE Hardware \/ Terminated \/ UNCHANGED vars
      BY <3>8, <3>11 DEF Hardware, Terminated, vars, loopVars
    <3> QED
      BY <3>3, <3>4, <3>5, <3>6, <3>7, <3>9, <3>10, <3>11 DEF Next, LoopStep
  <2>6. CASE /\ pc = "read" /\ pc' = "read" /\ clock' = clock
             /\ states'[r] = Armed
    <3>1. states'[r].press_time = clock
      BY <2>6 DEF Armed
    <3>2. clock' - states'[r].press_time <= limit + timeout
      BY <1>2, <2>1, <2>6, <3>1
    <3> QED
      BY <1>3, <2>1, <2>6, <3>2 DEF InTime
  <2>7. CASE \E i \in DOMAIN devices : ReadDevice(i)
    <3>1. pc = "read" /\ pc' = "read" /\ clock' = clock
      BY <2>7 DEF ReadDevice
    <3>2. \/ states'[r] = states[r]
          \/ states'[r] = Armed
          \/ states'[r] = Disarmed(states[r])
      BY <1>5, <2>7 DEF ReadDevice, process_event, StateAfter
    <3>3. states'[r] # Disarmed(states[r])
      BY <1>5, <2>2 DEF Disarmed, KeyState, Waiting
    <3> QED
      BY <2>5, <2>6, <3>1, <3>2, <3>3
  <2>8. CASE CheckTimeouts
    <3>1. states'[r] = states[r]
      BY <1>5, <2>2, <2>8
         DEF CheckTimeouts, check_long_press_timeouts, KeyState, Waiting
    <3> QED
      BY <2>5, <3>1
  <2> QED
    BY <2>5, <2>7, <2>8
       DEF Next, LoopStep, LoopTest, PollReturns, PollFails, ReadsDone,
           signal_handler, Tick, Hardware, Terminated, vars, loopVars
<1> QED
  BY <1>1, <1>3, <1>4, <1>5 DEF Punctual

LEMMA PunctualIsOnTime == TypeOK /\ Punctual => LongPressOnTime
BY BoundTypes DEF Punctual, Patient, Waiting, InTime, LongPressOnTime

\* In a world where the daemon is never kept from running, a hold is noticed
\* at most one poll timeout after its time has come.
THEOREM OnTime == Spec => []LongPressOnTime
<1>1. Init => TypeOK /\ Punctual
  <2>1. Init => Punctual
    BY DEF Init, Punctual, Waiting
  <2> QED
    BY <2>1, InitTypeOK
<1>2. TypeOK /\ Punctual /\ [Next]_vars => TypeOK' /\ Punctual'
  BY NextTypeOK, NextPunctual
<1>3. TypeOK /\ Punctual => LongPressOnTime
  BY PunctualIsOnTime
<1> QED
  BY <1>1, <1>2, <1>3, PTL DEF Spec

-----------------------------------------------------------------------------
(* Counting the presses of a key: unread, waiting for their time, launched. *)

Places(s, e) == {j \in DOMAIN s : s[j] = e}
Count(s, e) == Cardinality(Places(s, e))
One(b) == IF b THEN 1 ELSE 0

LEMMA CountType ==
  ASSUME NEW S, NEW s \in Seq(S), NEW e
  PROVE  IsFiniteSet(Places(s, e)) /\ Count(s, e) \in Nat
<1>1. IsFiniteSet(1..Len(s)) /\ DOMAIN s = 1..Len(s)
  BY FS_Interval
<1>2. IsFiniteSet(Places(s, e))
  BY <1>1, FS_Subset DEF Places
<1>3. QED
  BY <1>2, FS_CardinalityType DEF Count

LEMMA CountAppend ==
  ASSUME NEW S, NEW s \in Seq(S), NEW x \in S, NEW e
  PROVE  Count(Append(s, x), e) = Count(s, e) + One(x = e)
<1>1. IsFiniteSet(Places(s, e)) /\ Count(s, e) \in Nat
  BY CountType
<1>2. Len(s) + 1 \notin Places(s, e)
  BY AppendFacts DEF Places
<1>3. CASE x = e
  <2>1. Places(Append(s, x), e) = Places(s, e) \cup {Len(s) + 1}
    BY <1>3, AppendFacts DEF Places
  <2>2. QED
    BY <1>1, <1>2, <1>3, <2>1, FS_AddElement DEF Count, One
<1>4. CASE x # e
  <2>1. Places(Append(s, x), e) = Places(s, e)
    BY <1>4, AppendFacts DEF Places
  <2>2. QED
    BY <1>1, <1>4, <2>1 DEF Count, One
<1>5. QED
  BY <1>3, <1>4

\* The places of e in a tail are those in the sequence but the first, one less.
LEMMA CountTail ==
  ASSUME NEW S, NEW s \in Seq(S), s # <<>>, NEW e
  PROVE  Count(s, e) = Count(Tail(s), e) + One(Head(s) = e)
<1>1. PICK A, B : A = Places(s, e) \ {1} /\ B = Places(Tail(s), e)
  OBVIOUS
<1>2. Tail(s) \in Seq(S)
  BY TailFacts
<1>3. /\ IsFiniteSet(Places(s, e)) /\ Count(s, e) \in Nat
      /\ IsFiniteSet(B) /\ Count(Tail(s), e) \in Nat
  BY <1>1, <1>2, CountType
<1>4. ExistsBijection(B, A)
  <2>1. ASSUME NEW j \in B
        PROVE  j \in Nat /\ j > 0 /\ j + 1 \in A
    <3>1. j \in Nat /\ j > 0 /\ j + 1 \in DOMAIN s /\ s[j + 1] = e
      BY <1>1, <1>2, TailFacts DEF Places
    <3>2. QED
      BY <1>1, <3>1 DEF Places
  <2>2. ASSUME NEW m \in A
        PROVE  m - 1 \in B /\ (m - 1) + 1 = m
    <3>1. m \in DOMAIN s /\ m \in Nat /\ m > 1 /\ s[m] = e
      BY <1>1, TailFacts DEF Places
    <3>2. m - 1 \in DOMAIN Tail(s) /\ Tail(s)[m - 1] = s[(m - 1) + 1]
      BY <3>1, TailFacts
    <3>3. QED
      BY <1>1, <3>1, <3>2 DEF Places
  <2>3. PICK f : f = [j \in B |-> j + 1]
    OBVIOUS
  <2>4. f \in [B -> A] /\ \A i, j \in B : f[i] = f[j] => i = j
    BY <2>1, <2>3
  <2>5. \A m \in A : \E j \in B : f[j] = m
    BY <2>2, <2>3
  <2>6. f \in Bijection(B, A)
    BY <2>4, <2>5, Fun_IsBij
  <2>7. QED
    BY <2>6 DEF ExistsBijection
<1>5. Cardinality(A) = Count(Tail(s), e)
  BY <1>1, <1>3, <1>4, FS_Bijection DEF Count
<1>6. 1 \in Places(s, e) <=> Head(s) = e
  BY TailFacts DEF Places
<1>7. Cardinality(A) = Count(s, e) - One(Head(s) = e)
  <2>1. Cardinality(Places(s, e) \ {1})
          = IF 1 \in Places(s, e) THEN Cardinality(Places(s, e)) - 1
                                  ELSE Cardinality(Places(s, e))
    BY <1>3, FS_RemoveElement
  <2>2. QED
    BY <1>1, <1>3, <1>6, <2>1 DEF Count, One
<1>8. QED
  BY <1>3, <1>5, <1>7 DEF One

\* What is left after an overflow is the marker and the newest event.
LEMMA CountOverflow ==
  ASSUME NEW x \in Event, NEW e \in Event, e # SynDropped
  PROVE  Count(<<SynDropped, x>>, e) = One(x = e)
<1>1. SynDropped \in Event /\ <<SynDropped, x>> \in Seq(Event)
  BY DEF Event
<1>2. Count(Tail(<<SynDropped, x>>), e) \in Nat
  BY <1>1, TailFacts, CountType
<1>3. /\ Head(<<SynDropped, x>>) = SynDropped
      /\ Tail(<<SynDropped, x>>) = Append(<<>>, x) /\ <<>> \in Seq(Event)
  BY <1>1
<1>4. Count(<<SynDropped, x>>, e)
        = Count(Tail(<<SynDropped, x>>), e) + One(SynDropped = e)
  <2>1. <<SynDropped, x>> # <<>>
    OBVIOUS
  <2>2. Count(<<SynDropped, x>>, e)
          = Count(Tail(<<SynDropped, x>>), e) + One(Head(<<SynDropped, x>>) = e)
    BY <1>1, <2>1, CountTail
  <2>3. QED
    BY <1>3, <2>2
<1>5. Count(Append(<<>>, x), e) = Count(<<>>, e) + One(x = e)
  <2>1. PICK none \in Seq(Event) : none = <<>>
    BY <1>3
  <2>2. Count(Append(none, x), e) = Count(none, e) + One(x = e)
    BY CountAppend
  <2>3. QED
    BY <2>1, <2>2
<1>6. Count(<<>>, e) = 0
  <2>1. Places(<<>>, e) = {}
    BY DEF Places
  <2>2. QED
    BY <2>1, FS_EmptySet DEF Count
<1>7. QED
  BY <1>2, <1>3, <1>4, <1>5, <1>6 DEF One

LEMMA PressIsEvent ==
  ASSUME NEW k \in Key
  PROVE  PressOf(k) \in Event /\ PressOf(k) # SynDropped
BY DEF PressOf, Event, KeyEvent, SynDropped

LEMMA PendingType ==
  ASSUME TypeOK, NEW q \in Path, NEW e
  PROVE  Pending(q, e) \in Nat /\ Pending(q, e) = Count(queue[q], e)
<1>1. queue[q] \in Seq(Event)
  BY DEF TypeOK, EvdevTypeOK
<1>2. QED
  BY <1>1, CountType DEF Pending, Count, Places

\* A delivered event is counted where it goes; an overflow can only take away.
LEMMA DeliverCounts ==
  ASSUME TypeOK, TypeOK', NEW p \in Path, NEW x \in Event, Deliver(p, x),
         NEW q \in Path, NEW e \in Event, e # SynDropped
  PROVE  LET added == One(q = p /\ x = e)
         IN  /\ Pending(q, e)' <= Pending(q, e) + added
             /\ q \notin lost' => Pending(q, e)' = Pending(q, e) + added
<1>1. /\ Pending(q, e) \in Nat /\ Pending(q, e) = Count(queue[q], e)
      /\ Pending(q, e)' \in Nat /\ Pending(q, e)' = Count(queue'[q], e)
      /\ queue \in [Path -> Seq(Event)] /\ queue[p] \in Seq(Event)
  <2>1. Pending(q, e)' \in Nat /\ Pending(q, e)' = Count(queue'[q], e)
    <3>1. queue'[q] \in Seq(Event)
      BY DEF TypeOK, EvdevTypeOK
    <3>2. QED
      BY <3>1, CountType DEF Pending, Count, Places
  <2>2. QED
    BY <2>1, PendingType DEF TypeOK, EvdevTypeOK
<1>2. CASE q # p
  <2>1. queue'[q] = queue[q]
    BY <1>2, DeliverOthers
  <2>2. QED
    BY <1>1, <1>2, <2>1 DEF One
<1>3. CASE q = p /\ queue' = [queue EXCEPT ![p] = Append(queue[p], x)]
  <2>1. Count(queue'[p], e) = Count(queue[p], e) + One(x = e)
    BY <1>1, <1>3, CountAppend
  <2>2. QED
    BY <1>1, <1>3, <2>1 DEF One
<1>4. CASE q = p /\ queue' = [queue EXCEPT ![p] = <<SynDropped, x>>] /\ p \in lost'
  <2>1. Count(queue'[p], e) = One(x = e)
    BY <1>1, <1>4, CountOverflow
  <2>2. QED
    BY <1>1, <1>4, <2>1 DEF One
<1>5. QED
  BY <1>2, <1>3, <1>4 DEF Deliver

\* An event that is read is no longer counted.
LEMMA ReadCounts ==
  ASSUME TypeOK, TypeOK', NEW p \in Path, ReadEvent(p), NEW q \in Path, NEW e
  PROVE  Pending(q, e) = Pending(q, e)' + One(q = p /\ Head(queue[p]) = e)
<1>1. /\ Pending(q, e) \in Nat /\ Pending(q, e) = Count(queue[q], e)
      /\ Pending(q, e)' = Count(queue'[q], e)
  BY PendingType DEF Pending, Count, Places
<1>2. queue[p] \in Seq(Event) /\ queue[p] # <<>> /\ queue'[p] = Tail(queue[p])
  BY ReadKept
<1>3. CASE q # p
  BY <1>1, <1>3, ReadKept DEF One
<1>4. CASE q = p
  BY <1>1, <1>2, <1>4, CountTail DEF One
<1>5. QED
  BY <1>3, <1>4

\* LaunchesAccounted, rule by rule.
Unread(r) == Pending(Dev(r), PressOf(Code(r)))
Downs(r) == typed[Dev(r)][Code(r)]
InTwo(r) == One(states[r].active /\ ~states[r].long_triggered)
RuleCounted(r) ==
  /\ IsLong(r) => launches[r] + InTwo(r) + Unread(r) <= Downs(r)
  /\ configs[r].trigger = "TRIGGER_PRESS" =>
       /\ launches[r] + Unread(r) <= Downs(r)
       /\ Dev(r) \notin lost /\ ~world.forkFails
            => launches[r] + Unread(r) = Downs(r)

\* Without a failing fork every script that is due is launched.
LEMMA ExecuteAll ==
  ASSUME TypeOK, NEW F, execute_script(F), ~world.forkFails, NEW r \in Rule, r \in F
  PROVE  launches'[r] = launches[r] + 1
BY DEF execute_script

LEMMA CountedByRule ==
  LaunchesAccounted <=> \A r \in Rule : Opened(Dev(r)) => RuleCounted(r)
BY DEF LaunchesAccounted, RuleCounted, Unread, Downs, InTwo, One

LEMMA CountsType ==
  ASSUME TypeOK, NEW r \in Rule
  PROVE  /\ launches[r] \in Nat /\ Unread(r) \in Nat /\ Downs(r) \in Nat
         /\ InTwo(r) \in {0, 1}
BY RuleType, PendingType DEF Unread, Downs, InTwo, One, TypeOK, EvdevTypeOK

\* A key that goes down is an unread press, unless the buffer overflows.
LEMMA HardwareCounted ==
  ASSUME TypeOK, TypeOK', Hardware, NEW r \in Rule, RuleCounted(r)
  PROVE  RuleCounted(r)'
<1>1. PICK d \in Path, k \in Key : d = Dev(r) /\ k = Code(r)
  BY RuleType
<1>2. /\ configs' = configs /\ states' = states /\ launches' = launches
      /\ world' = world /\ Rule' = Rule
  BY DEF Hardware, loopVars, Rule
<1>3. /\ launches[r] \in Nat /\ Unread(r) \in Nat /\ Downs(r) \in Nat
      /\ InTwo(r) \in {0, 1} /\ Unread(r)' \in Nat /\ Downs(r)' \in Nat
  <2>1. queue'[d] \in Seq(Event) /\ typed'[d][k] \in Nat
    BY DEF TypeOK, EvdevTypeOK
  <2>2. Unread(r)' = Count(queue'[d], PressOf(k)) /\ Downs(r)' = typed'[d][k]
    BY <1>1, <1>2 DEF Unread, Downs, Pending, Count, Places, Dev, Code
  <2>3. QED
    BY <2>1, <2>2, CountsType, CountType
<1>4. PICK add \in {0, 1} :
         /\ Downs(r)' = Downs(r) + add
         /\ Unread(r)' <= Unread(r) + add
         /\ d \notin lost' => d \notin lost /\ Unread(r)' = Unread(r) + add
  <2>1. PICK p \in Path :
           (\E m \in Key : KeyDown(p, m) \/ KeyUp(p, m) \/ KeyRepeat(p, m))
           \/ Unplug(p)
    BY DEF Hardware
  <2>2. /\ Unread(r) = Pending(d, PressOf(k))
        /\ Unread(r)' = Pending(d, PressOf(k))'
        /\ Downs(r) = typed[d][k] /\ Downs(r)' = typed'[d][k]
    BY <1>1, <1>2 DEF Unread, Downs, Dev, Code
  <2>3. PressOf(k) \in Event /\ PressOf(k) # SynDropped
    BY PressIsEvent
  <2>4. ASSUME NEW m \in Key
        PROVE  /\ PressOf(m) \in Event /\ (PressOf(m) = PressOf(k) <=> m = k)
               /\ ReleaseOf(m) \in Event /\ ReleaseOf(m) # PressOf(k)
               /\ RepeatOf(m) \in Event /\ RepeatOf(m) # PressOf(k)
    BY DEF PressOf, ReleaseOf, RepeatOf, Event, KeyEvent
  <2>5. ASSUME NEW x \in Event, Deliver(p, x),
               Downs(r)' = Downs(r) + One(d = p /\ x = PressOf(k))
        PROVE  \E add \in {0, 1} :
                 /\ Downs(r)' = Downs(r) + add
                 /\ Unread(r)' <= Unread(r) + add
                 /\ d \notin lost' => /\ d \notin lost
                                      /\ Unread(r)' = Unread(r) + add
    <3>1. d \notin lost' => d \notin lost
      BY <2>5 DEF Deliver
    <3>2. One(d = p /\ x = PressOf(k)) \in {0, 1}
      BY DEF One
    <3>3. /\ Pending(d, PressOf(k))' <= Pending(d, PressOf(k))
                                         + One(d = p /\ x = PressOf(k))
          /\ d \notin lost' =>
               Pending(d, PressOf(k))' = Pending(d, PressOf(k))
                                         + One(d = p /\ x = PressOf(k))
      BY <2>3, <2>5, DeliverCounts
    <3>4. QED
      BY <2>2, <2>5, <3>1, <3>2, <3>3
  <2>6. ASSUME NEW m \in Key, KeyDown(p, m)
        PROVE  Downs(r)' = Downs(r) + One(d = p /\ PressOf(m) = PressOf(k))
    <3>1. typed' = [typed EXCEPT ![p][m] = @ + 1] /\ typed \in [Path -> [Key -> Nat]]
      BY <2>6 DEF KeyDown, TypeOK, EvdevTypeOK
    <3>2. typed'[d][k] = typed[d][k] + One(d = p /\ m = k)
      BY <3>1 DEF One
    <3>3. QED
      BY <2>2, <2>4, <3>2
  <2>7. ASSUME NEW m \in Key, KeyUp(p, m) \/ KeyRepeat(p, m),
               NEW x \in {ReleaseOf(m), RepeatOf(m)}
        PROVE  Downs(r)' = Downs(r) + One(d = p /\ x = PressOf(k))
    BY <1>3, <2>2, <2>4, <2>7 DEF KeyUp, KeyRepeat, One
  <2>8. CASE \E m \in Key : KeyDown(p, m)
    BY <2>4, <2>5, <2>6, <2>8 DEF KeyDown
  <2>9. CASE \E m \in Key : KeyUp(p, m) \/ KeyRepeat(p, m)
    BY <2>4, <2>5, <2>7, <2>9 DEF KeyUp, KeyRepeat
  <2>10. CASE Unplug(p)
    <3>1. Unread(r)' = Unread(r) /\ Downs(r)' = Downs(r)
      BY <2>2, <2>10 DEF Unplug, Pending
    <3>2. d \notin lost' => d \notin lost
      BY <2>10 DEF Unplug
    <3>3. QED
      BY <1>3, <3>1, <3>2
  <2>11. QED
    BY <2>1, <2>8, <2>9, <2>10
<1>5. /\ launches'[r] = launches[r] /\ InTwo(r)' = InTwo(r) /\ Dev(r)' = d
      /\ IsLong(r)' <=> IsLong(r)
      /\ configs'[r].trigger = configs[r].trigger
  BY <1>1, <1>2 DEF InTwo, Dev, IsLong
<1>6. QED
  BY <1>1, <1>2, <1>3, <1>4, <1>5 DEF RuleCounted

\* A read takes the press out of the buffer and counts it as a launch or as an
\* armed rule; a release or the timeout turns the armed rule into a launch.
LEMMA ReadCounted ==
  ASSUME TypeOK, TypeOK', NEW i \in DOMAIN devices, ReadDevice(i),
         NEW r \in Rule, RuleCounted(r)
  PROVE  RuleCounted(r)'
<1>1. PICK d \in Path, k \in Key, p \in Path :
         d = Dev(r) /\ k = Code(r) /\ p = devices[i]
  BY RuleType DEF TypeOK
<1>2. configs' = configs /\ world' = world /\ Rule' = Rule
  BY DEF ReadDevice, Rule
<1>3. /\ launches[r] \in Nat /\ Unread(r) \in Nat /\ Downs(r) \in Nat
      /\ InTwo(r) \in {0, 1}
  BY CountsType
<1>4. CASE p \notin plugged
  BY <1>1, <1>2, <1>4 DEF ReadDevice, RuleCounted, InTwo, Unread, Downs, Pending,
                          Dev, Code, IsLong, evdevVars
<1>5. CASE p \in plugged
  <2>1. PICK ev : /\ ev = Head(queue[p])
                  /\ ReadEvent(p) /\ process_event(ev, i)
    BY <1>1, <1>5 DEF ReadDevice
  <2>2. typed' = typed /\ lost' = lost /\ ev \in Event
    <3>1. queue[p] \in Seq(Event) /\ queue[p] # <<>>
      BY <2>1, ReadKept
    <3>2. QED
      BY <2>1, <3>1, TailFacts DEF ReadEvent
  <2>3. PICK read \in BOOLEAN :
          read <=> Matches(r, ev, i) /\ ev.value = 1
    OBVIOUS
  <2>4. read <=> d = p /\ ev = PressOf(k)
    BY <1>1, <2>2, <2>3 DEF Matches, PressOf, Event, KeyEvent, SynDropped
  <2>5. Unread(r)' \in Nat /\ Unread(r) = Unread(r)' + One(read)
    <3>1. Pending(d, PressOf(k)) = Pending(d, PressOf(k))'
                                   + One(d = p /\ Head(queue[p]) = PressOf(k))
      BY <2>1, ReadCounts
    <3>2. One(d = p /\ Head(queue[p]) = PressOf(k)) = One(read)
      BY <2>1, <2>4 DEF One
    <3>3. /\ Unread(r) = Pending(d, PressOf(k))
          /\ Unread(r)' = Pending(d, PressOf(k))'
      BY <1>1, <1>2 DEF Unread, Dev, Code
    <3>4. Pending(d, PressOf(k))' \in Nat
      <4>1. queue'[d] \in Seq(Event)
        BY DEF TypeOK, EvdevTypeOK
      <4>2. QED
        BY <4>1, CountType DEF Pending, Count, Places
    <3>5. QED
      BY <3>1, <3>2, <3>3, <3>4
  <2>6. /\ Downs(r)' = Downs(r) /\ Dev(r)' = Dev(r)
        /\ IsLong(r)' <=> IsLong(r)
        /\ configs'[r].trigger = configs[r].trigger
    BY <1>2, <2>2 DEF Downs, Dev, Code, IsLong
  <2> DEFINE F == {q \in Rule : Matches(q, ev, i) /\ FiresOn(q, ev)}
  <2>7. /\ launches'[r] \in {launches[r], launches[r] + 1}
        /\ r \notin F => launches'[r] = launches[r]
        /\ r \in F /\ ~world.forkFails => launches'[r] = launches[r] + 1
    BY <2>1, ExecuteOnly, ExecuteAll DEF process_event
  <2>8. states'[r] = IF Matches(r, ev, i) THEN StateAfter(r, ev) ELSE states[r]
    BY <2>1 DEF process_event
  <2>9. ASSUME IsLong(r)
        PROVE  launches'[r] + InTwo(r)' <= launches[r] + InTwo(r) + One(read)
    <3>1. states[r] \in KeyState
      BY DEF TypeOK
    <3>2. CASE read
      <4>1. InTwo(r)' = 1 /\ r \notin F
        BY <2>3, <2>8, <2>9, <3>2
           DEF InTwo, One, StateAfter, Armed, FiresOn, IsLong
      <4>2. QED
        BY <1>3, <2>7, <3>2, <4>1 DEF One
    <3>3. CASE ~read /\ r \in F
      <4>1. /\ Matches(r, ev, i) /\ ev.value = 0
            /\ states[r].active /\ ~states[r].long_triggered
        BY <2>9, <3>3 DEF FiresOn, IsLong
      <4>2. InTwo(r) = 1 /\ InTwo(r)' = 0
        BY <2>8, <2>9, <3>1, <4>1
           DEF InTwo, One, StateAfter, Disarmed, KeyState
      <4>3. QED
        BY <1>3, <2>7, <3>3, <4>2 DEF One
    <3>4. CASE ~read /\ r \notin F
      <4>1. \/ states'[r] = states[r]
            \/ states'[r] = Disarmed(states[r])
        BY <2>3, <2>8, <3>4 DEF StateAfter
      <4>2. InTwo(r)' = InTwo(r) \/ InTwo(r)' = 0
        BY <3>1, <4>1 DEF InTwo, One, Disarmed, KeyState
      <4>3. QED
        BY <1>3, <2>7, <3>4, <4>2 DEF One
    <3>5. QED
      BY <3>2, <3>3, <3>4
  <2>10. ASSUME configs[r].trigger = "TRIGGER_PRESS"
         PROVE  r \in F <=> read
    BY <2>3, <2>10 DEF FiresOn, IsLong
  <2>11. InTwo(r)' \in {0, 1}
    BY DEF InTwo, One
  <2>12. IsLong(r) =>
           launches'[r] + InTwo(r)' + Unread(r)' <= Downs(r)
    BY <1>3, <2>5, <2>7, <2>9, <2>11 DEF RuleCounted, One
  <2>13. configs[r].trigger = "TRIGGER_PRESS" =>
           /\ launches'[r] + Unread(r)' <= Downs(r)
           /\ Dev(r) \notin lost /\ ~world.forkFails
                => launches'[r] + Unread(r)' = Downs(r)
    BY <1>3, <2>5, <2>7, <2>10 DEF RuleCounted, One
  <2>14. QED
    BY <1>2, <2>2, <2>6, <2>12, <2>13 DEF RuleCounted
<1>6. QED
  BY <1>4, <1>5

LEMMA TimeoutsCounted ==
  ASSUME TypeOK, CheckTimeouts, NEW r \in Rule, RuleCounted(r)
  PROVE  RuleCounted(r)'
<1>1. UNCHANGED <<configs, world, evdevVars>>
  BY DEF CheckTimeouts
<1>2. /\ Unread(r)' = Unread(r) /\ Downs(r)' = Downs(r) /\ Dev(r)' = Dev(r)
      /\ IsLong(r)' <=> IsLong(r)
  BY <1>1 DEF Unread, Downs, Pending, Dev, Code, IsLong, evdevVars
<1>3. /\ launches[r] \in Nat /\ Unread(r) \in Nat /\ Downs(r) \in Nat
      /\ InTwo(r) \in {0, 1} /\ states[r] \in KeyState
  BY CountsType DEF TypeOK
<1>4. /\ launches'[r] \in {launches[r], launches[r] + 1}
      /\ r \notin Due => launches'[r] = launches[r]
  BY ExecuteOnly DEF CheckTimeouts, check_long_press_timeouts
<1>5. CASE r \in Due
  <2>1. IsLong(r) /\ InTwo(r) = 1
    BY <1>5 DEF Due, InTwo, One
  <2>2. InTwo(r)' = 0
    BY <1>3, <1>5
       DEF CheckTimeouts, check_long_press_timeouts, InTwo, One, KeyState
  <2>3. QED
    BY <1>1, <1>2, <1>3, <1>4, <2>1, <2>2 DEF RuleCounted, IsLong
<1>6. CASE r \notin Due
  <2>1. InTwo(r)' = InTwo(r)
    BY <1>6 DEF CheckTimeouts, check_long_press_timeouts, InTwo
  <2>2. QED
    BY <1>1, <1>2, <1>4, <1>6, <2>1 DEF RuleCounted, IsLong, evdevVars
<1>7. QED
  BY <1>5, <1>6

LEMMA NextCounted ==
  ASSUME TypeOK, LaunchesAccounted, [Next]_vars
  PROVE  LaunchesAccounted'
<1>1. TypeOK'
  BY NextTypeOK
<1>2. /\ configs' = configs /\ devices' = devices
      /\ Rule' = Rule /\ \A r : Opened(Dev(r))' <=> Opened(Dev(r))
  <2>1. configs' = configs /\ devices' = devices
    <3>1. ASSUME NEW i \in DOMAIN devices, ReadDevice(i)
          PROVE  configs' = configs /\ devices' = devices
      BY <3>1 DEF ReadDevice
    <3>2. QED
      BY <3>1 DEF Next, LoopStep, LoopTest, PollReturns, PollFails, ReadsDone,
                  CheckTimeouts, signal_handler, Tick, Hardware, Terminated, vars
  <2>2. QED
    BY <2>1 DEF Rule, Opened, Dev
<1>3. SUFFICES ASSUME NEW r \in Rule, RuleCounted(r)
               PROVE  RuleCounted(r)'
  <2>1. \A r \in Rule : Opened(Dev(r)) => RuleCounted(r)
    BY CountedByRule
  <2>2. LaunchesAccounted' <=> \A r \in Rule' : Opened(Dev(r))' => RuleCounted(r)'
    BY DEF LaunchesAccounted, RuleCounted, Unread, Downs, InTwo, One
  <2>3. QED
    BY <1>2, <1>3, <2>1, <2>2
<1>4. CASE UNCHANGED <<configs, world, states, launches, evdevVars>>
  BY <1>3, <1>4 DEF RuleCounted, Unread, Downs, InTwo, Pending, Dev, Code,
                    IsLong, evdevVars
<1>5. CASE Hardware
  BY <1>1, <1>3, <1>5, HardwareCounted
<1>6. ASSUME NEW i \in DOMAIN devices, ReadDevice(i) PROVE RuleCounted(r)'
  BY <1>1, <1>3, <1>6, ReadCounted
<1>7. CASE CheckTimeouts
  BY <1>3, <1>7, TimeoutsCounted
<1>8. QED
  BY <1>4, <1>5, <1>6, <1>7
     DEF Next, LoopStep, LoopTest, PollReturns, PollFails, ReadsDone,
         signal_handler, Tick, Terminated, vars, loopVars

\* No press is worth two launches, however the reads, releases and timeouts
\* fall, and a press rule misses none unless events were lost or a fork failed.
THEOREM LaunchesAccountedHolds == Spec => []LaunchesAccounted
<1>1. Init => TypeOK /\ LaunchesAccounted
  <2> SUFFICES ASSUME Init PROVE LaunchesAccounted
    BY InitTypeOK
  <2>1. ASSUME NEW r \in Rule PROVE RuleCounted(r)
    <3>1. PICK d \in Path, k \in Key : d = Dev(r) /\ k = Code(r)
      BY <2>1, InitTypeOK, RuleType
    <3>2. Unread(r) = 0
      <4>1. Places(queue[d], PressOf(k)) = {}
        BY DEF Init, EvdevInit, Places
      <4>2. QED
        BY <3>1, <4>1, FS_EmptySet DEF Unread, Pending, Places
    <3>3. Downs(r) = 0 /\ launches[r] = 0 /\ InTwo(r) = 0
      BY <3>1 DEF Init, EvdevInit, Downs, InTwo, One
    <3>4. QED
      BY <3>2, <3>3 DEF RuleCounted
  <2>2. QED
    BY <2>1, CountedByRule
<1>2. TypeOK /\ LaunchesAccounted /\ [Next]_vars => TypeOK' /\ LaunchesAccounted'
  BY NextTypeOK, NextCounted
<1>3. QED
  BY <1>1, <1>2, PTL DEF Spec

-----------------------------------------------------------------------------
(* The refinement of LongPress.                                            *)

\* What LongPress allows one rule to do, in the terms of the event loop.
RuleMoves(r) ==
  \/ Phase(r)' = "held" /\ Launched(r)' = Launched(r)
  \/ /\ Phase(r) = "held" /\ Phase(r)' = "fired"
     /\ Launched(r)' \in {Launched(r), Launched(r) + 1}
  \/ /\ Phase(r) = "held" /\ Phase(r)' = "idle"
     /\ Launched(r)' \in {Launched(r), Launched(r) + 1}
  \/ /\ Phase(r) = "fired" /\ Phase(r)' = "idle"
     /\ Launched(r)' = Launched(r)
  \/ Phase(r)' = Phase(r) /\ Launched(r)' = Launched(r)

LEMMA ReadMoves ==
  ASSUME TypeOK, NEW i \in DOMAIN devices, ReadDevice(i),
         NEW r \in 1..MAX_CONFIGS
  PROVE  RuleMoves(r)
<1> DEFINE ev == Head(queue[devices[i]])
<1>1. configs' = configs
  BY DEF ReadDevice
<1>2. Rule' = Rule /\ IsLong(r)' = IsLong(r)
  BY <1>1 DEF Rule, IsLong
<1>3. CASE ~(r \in Rule /\ IsLong(r))
  BY <1>2, <1>3 DEF RuleMoves, Phase, Launched
<1>4. CASE states' = states /\ launches' = launches
  BY <1>2, <1>4 DEF RuleMoves, Phase, Launched
<1>5. ASSUME r \in Rule, IsLong(r), process_event(ev, i) PROVE RuleMoves(r)
  <2>1. states[r] \in KeyState
    BY <1>5 DEF TypeOK
  <2>2. states'[r] = IF Matches(r, ev, i) THEN StateAfter(r, ev) ELSE states[r]
    BY <1>5 DEF process_event
  <2>3. /\ launches'[r] \in {launches[r], launches[r] + 1}
        /\ ~(Matches(r, ev, i) /\ FiresOn(r, ev)) => launches'[r] = launches[r]
    BY <1>5, ExecuteOnly DEF process_event
  <2>4. CASE Matches(r, ev, i) /\ ev.value = 1
    <3>1. states'[r].active /\ ~states'[r].long_triggered
      BY <1>5, <2>2, <2>4 DEF StateAfter, Armed
    <3>2. launches'[r] = launches[r]
      BY <1>5, <2>3, <2>4 DEF FiresOn, IsLong
    <3>3. QED
      BY <1>2, <1>5, <3>1, <3>2 DEF RuleMoves, Phase, Launched
  <2>5. CASE Matches(r, ev, i) /\ ev.value = 0 /\ states[r].active
    <3>1. ~states'[r].active
      BY <1>5, <2>1, <2>2, <2>5 DEF StateAfter, Disarmed, KeyState
    <3>2. states[r].long_triggered => launches'[r] = launches[r]
      BY <1>5, <2>3 DEF FiresOn, IsLong
    <3>3. QED
      BY <1>2, <1>5, <2>3, <2>5, <3>1, <3>2 DEF RuleMoves, Phase, Launched
  <2>6. CASE ~(/\ Matches(r, ev, i)
               /\ ev.value = 1 \/ (ev.value = 0 /\ states[r].active))
    <3>1. Matches(r, ev, i) => StateAfter(r, ev) = states[r]
      BY <1>5, <2>6 DEF StateAfter
    <3>2. states'[r] = states[r]
      BY <2>2, <3>1
    <3>3. launches'[r] = launches[r]
      BY <1>5, <2>3, <2>6 DEF FiresOn, IsLong
    <3>4. QED
      BY <1>2, <1>5, <3>2, <3>3 DEF RuleMoves, Phase, Launched
  <2>7. QED
    BY <2>4, <2>5, <2>6
<1>6. QED
  BY <1>3, <1>4, <1>5 DEF ReadDevice

LEMMA CheckMoves ==
  ASSUME TypeOK, CheckTimeouts, NEW r \in 1..MAX_CONFIGS
  PROVE  RuleMoves(r)
<1>1. configs' = configs
  BY DEF CheckTimeouts
<1>2. Rule' = Rule /\ IsLong(r)' = IsLong(r)
  BY <1>1 DEF Rule, IsLong
<1>3. CASE ~(r \in Rule /\ IsLong(r))
  BY <1>2, <1>3 DEF RuleMoves, Phase, Launched
<1>4. CASE r \in Rule /\ IsLong(r)
  <2>1. states[r] \in KeyState
    BY <1>4 DEF TypeOK
  <2>2. /\ launches'[r] \in {launches[r], launches[r] + 1}
        /\ r \notin Due => launches'[r] = launches[r]
    BY <1>4, ExecuteOnly DEF CheckTimeouts, check_long_press_timeouts
  <2>3. CASE r \in Due
    <3>1. states[r].active /\ ~states[r].long_triggered
      BY <2>3 DEF Due
    <3>2. states'[r].active /\ states'[r].long_triggered
      BY <1>4, <2>1, <2>3, <3>1
         DEF CheckTimeouts, check_long_press_timeouts, KeyState
    <3>3. QED
      BY <1>2, <1>4, <2>2, <3>1, <3>2 DEF RuleMoves, Phase, Launched
  <2>4. CASE r \notin Due
    <3>1. states'[r] = states[r]
      BY <1>4, <2>4 DEF CheckTimeouts, check_long_press_timeouts
    <3>2. QED
      BY <1>2, <1>4, <2>2, <2>4, <3>1 DEF RuleMoves, Phase, Launched
  <2>5. QED
    BY <2>3, <2>4
<1>5. QED
  BY <1>3, <1>4

LEMMA NextMoves ==
  ASSUME TypeOK, [Next]_vars, NEW r \in 1..MAX_CONFIGS
  PROVE  RuleMoves(r)
<1>1. CASE UNCHANGED <<configs, states, launches>>
  BY <1>1 DEF RuleMoves, Phase, Launched, Rule, IsLong
<1>2. QED
  BY <1>1, ReadMoves, CheckMoves
     DEF Next, LoopStep, LoopTest, PollReturns, PollFails, ReadsDone,
         signal_handler, Tick, Hardware, Terminated, vars, loopVars

\* Rules that move as they may make a step of LongPress.
LEMMA MovesAllowed ==
  ASSUME TypeOK', \A r \in 1..MAX_CONFIGS : RuleMoves(r)
  PROVE  LP!Next
<1>1. \A r \in 1..MAX_CONFIGS : Phase(r)' \in {"idle", "held", "fired"}
  BY DEF Phase
<1>2. \A r \in 1..MAX_CONFIGS : Launched(r)' \in Nat
  BY DEF TypeOK, Launched
<1>3. \A r \in 1..MAX_CONFIGS :
        \/ LP!Press(r) \/ LP!Hold(r) \/ LP!Release(r) \/ LP!Stay(r)
  BY DEF RuleMoves, LP!Press, LP!Hold, LP!Release, LP!Stay, LP!Launch,
         LP!NoLaunch
<1>4. QED
  BY <1>1, <1>2, <1>3 DEF LP!Next, LP!Phases

\* Every long_press rule keeps the contract of LongPress: at most one launch
\* for a hold, by the timeout check or at the release, and none outside one.
THEOREM Refinement == Spec => ImplementsLongPress
<1>1. Init => LP!Init
  BY DEF Init, LP!Init, Phase, Launched, Rule
<1>2. TypeOK /\ TypeOK' /\ [Next]_vars =>
        [LP!Next]_<<[r \in 1..MAX_CONFIGS |-> Phase(r)],
                    [r \in 1..MAX_CONFIGS |-> Launched(r)]>>
  BY NextMoves, MovesAllowed
<1>3. Init => TypeOK
  BY InitTypeOK
<1>4. TypeOK /\ [Next]_vars => TypeOK'
  BY NextTypeOK
<1>5. QED
  BY <1>1, <1>2, <1>3, <1>4, PTL DEF Spec, ImplementsLongPress, LP!Spec

=============================================================================
