-------------------------- MODULE KeyDaemonProofs --------------------------
(***************************************************************************)
(* Theorems about KeyDaemon: what KeyListenerProofs shows of the loop goes *)
(* over to the whole program, because every other step only adds an idle   *)
(* rule or an open device.                                                 *)
(***************************************************************************)
EXTENDS KeyDaemon, KeyListenerProofs, SequenceTheorems

-----------------------------------------------------------------------------
(* Types.                                                                  *)

LEMMA InitDaemonType == DaemonInit => DaemonTypeOK
<1> SUFFICES ASSUME DaemonInit PROVE DaemonTypeOK
  OBVIOUS
<1>1. EvdevTypeOK
  BY DEF DaemonInit, EvdevInit, EvdevTypeOK, Event
<1>2. TypeOK
  <2>1. Rule = {} /\ devices \in Seq(Path) /\ configs \in Seq(KeyConfig)
    BY DEF DaemonInit, Rule
  <2>2. ASSUME NEW S PROVE <<>> \in [{} -> S]
    OBVIOUS
  <2>3. states \in [Rule -> KeyState] /\ launches \in [Rule -> Nat]
    BY <2>1, <2>2 DEF DaemonInit
  <2>4. world \in World
    BY ListenerAssumption DEF DaemonInit, ListenerAssumption
  <2>5. QED
    BY <1>1, <2>1, <2>3, <2>4 DEF DaemonInit, TypeOK
<1>3. file \in Seq(Line) /\ Len(file) \in Nat
  BY DaemonAssumption DEF DaemonInit, DaemonAssumption
<1>4. Len(configs) <= MAX_CONFIGS
  <2>1. Len(configs) = 0
    BY DEF DaemonInit
  <2>2. QED
    BY <2>1, ListenerAssumption DEF ListenerAssumption
<1>5. next \in 1..Len(file) + 1 /\ stage = "start"
  BY <1>3 DEF DaemonInit
<1>6. QED
  BY <1>2, <1>3, <1>4, <1>5 DEF DaemonInit, DaemonTypeOK

\* An accepted line becomes a rule.
LEMMA RuleOfType ==
  ASSUME NEW l \in Line, NEW e, Accepted(l, e)
  PROVE  RuleOf(l) \in KeyConfig
<1>1. KeyCode(l) \in Key
  BY DaemonAssumption DEF Line, KeyCode, DaemonAssumption
<1>2. TriggerOf[l.trigger] \in Trigger
  BY DEF Accepted, TriggerOf, Trigger
<1>3. l.device \in Path /\ l.ms \in Int
  BY DEF Line
<1>4. QED
  BY <1>1, <1>2, <1>3 DEF RuleOf, KeyConfig

\* An array of known length is a sequence, and the other way round.
LEMMA ArrayIsSeq ==
  ASSUME NEW S, NEW n \in Nat, NEW s
  PROVE  s \in [1..n -> S] <=> s \in Seq(S) /\ Len(s) = n
<1>1. s \in [1..n -> S] => s \in Seq(S) /\ Len(s) = n
  BY IsASeq, LenProperties
<1>2. s \in Seq(S) /\ Len(s) = n => s \in [1..n -> S]
  BY LenProperties
<1>3. QED
  BY <1>1, <1>2

\* What Append adds.
LEMMA Appended ==
  ASSUME NEW S, NEW s \in Seq(S), NEW e \in S
  PROVE  /\ Append(s, e) \in Seq(S)
         /\ Len(Append(s, e)) = Len(s) + 1
         /\ \A j \in 1..Len(s) + 1 :
              Append(s, e)[j] = IF j \in 1..Len(s) THEN s[j] ELSE e
<1>1. Len(s) \in Nat
  BY LenProperties
<1>2. QED
  BY <1>1, AppendProperties

\* The arrays grow together by an idle rule.
LEMMA AddedRule ==
  ASSUME DaemonTypeOK, NEW c \in KeyConfig,
         configs' = Append(configs, c),
         states' = Append(states, Idle),
         launches' = Append(launches, 0)
  PROVE  /\ configs' \in Seq(KeyConfig) /\ Len(configs') = Len(configs) + 1
         /\ Rule' = 1..Len(configs) + 1
         /\ \A r \in Rule : configs'[r] = configs[r]
         /\ states' \in [Rule' -> KeyState] /\ launches' \in [Rule' -> Nat]
         /\ \A r \in Rule' : states'[r] = IF r \in Rule THEN states[r] ELSE Idle
         /\ \A r \in Rule' : launches'[r] = IF r \in Rule THEN launches[r] ELSE 0
<1>1. /\ configs \in Seq(KeyConfig) /\ Rule = 1..Len(configs)
      /\ Len(configs) \in Nat
  BY DEF DaemonTypeOK, TypeOK, Rule
<1>2. states \in [1..Len(configs) -> KeyState] /\ launches \in [1..Len(configs) -> Nat]
  BY <1>1 DEF DaemonTypeOK, TypeOK
<1>3. /\ states \in Seq(KeyState) /\ Len(states) = Len(configs)
      /\ launches \in Seq(Nat) /\ Len(launches) = Len(configs)
  BY <1>1, <1>2, ArrayIsSeq
<1>4. Idle \in KeyState /\ 0 \in Nat
  BY DEF Idle, KeyState
<1>5. /\ configs' \in Seq(KeyConfig) /\ Len(configs') = Len(configs) + 1
      /\ \A r \in Rule : configs'[r] = configs[r]
  BY <1>1
<1>6. Rule' = 1..Len(configs) + 1 /\ Len(configs) + 1 \in Nat
  BY <1>1, <1>5 DEF Rule
<1>7. /\ Append(states, Idle) \in Seq(KeyState)
      /\ Len(Append(states, Idle)) = Len(configs) + 1
      /\ \A r \in 1..Len(configs) + 1 :
           Append(states, Idle)[r] = IF r \in 1..Len(configs) THEN states[r] ELSE Idle
  BY <1>3, <1>4, Appended
<1>8. /\ Append(launches, 0) \in Seq(Nat)
      /\ Len(Append(launches, 0)) = Len(configs) + 1
      /\ \A r \in 1..Len(configs) + 1 :
           Append(launches, 0)[r] = IF r \in 1..Len(configs) THEN launches[r] ELSE 0
  BY <1>3, <1>4, Appended
<1>9. /\ Append(states, Idle) \in [1..Len(configs) + 1 -> KeyState]
      /\ Append(launches, 0) \in [1..Len(configs) + 1 -> Nat]
  BY <1>6, <1>7, <1>8, ArrayIsSeq
<1>10. QED
  BY <1>1, <1>5, <1>6, <1>7, <1>8, <1>9

\* What the steps before the loop leave alone keeps its type.
LEMMA RestType ==
  ASSUME DaemonTypeOK, UNCHANGED loopOnly, StartStep
  PROVE  /\ EvdevTypeOK' /\ world' \in World /\ should_exit' \in BOOLEAN
         /\ pollStart' \in Nat /\ clock' \in Nat /\ file' \in Seq(Line)
         /\ pc' \in {"loop", "poll", "read", "check", "done"}
<1>1. pc' \in {pc, "done"}
  BY DEF StartStep, Begin, ParseLine, Overrun, Parsed, open_device,
         DevicesOpened, Exit, Enter
<1>2. QED
  BY <1>1 DEF DaemonTypeOK, TypeOK, EvdevTypeOK, loopOnly, evdevVars

LEMMA StartStepType ==
  ASSUME DaemonTypeOK, StartStep PROVE DaemonTypeOK'
<1>1. UNCHANGED loopOnly
  BY DEF StartStep, Begin, ParseLine, Overrun, Parsed, open_device,
         DevicesOpened
<1>2. /\ EvdevTypeOK' /\ world' \in World /\ should_exit' \in BOOLEAN
      /\ pollStart' \in Nat /\ clock' \in Nat /\ file' \in Seq(Line)
      /\ pc' \in {"loop", "poll", "read", "check", "done"}
  BY <1>1, RestType
<1>3. /\ configs \in Seq(KeyConfig) /\ Len(configs) \in Nat
      /\ file' = file /\ file \in Seq(Line) /\ Len(file) \in Nat
      /\ devices \in Seq(Path) /\ revents' \subseteq DOMAIN devices
      /\ Len(configs) <= MAX_CONFIGS
      /\ states \in [Rule -> KeyState] /\ launches \in [Rule -> Nat]
  BY <1>1 DEF DaemonTypeOK, TypeOK, loopOnly
<1>4. ASSUME UNCHANGED <<configs, devices, states, launches>>
      PROVE  TypeOK' /\ Len(configs') <= MAX_CONFIGS
  BY <1>2, <1>3, <1>4 DEF TypeOK, Rule
<1>5. CASE Begin
  BY <1>2, <1>3, <1>4, <1>5 DEF Begin, DaemonTypeOK, Exit, Enter
<1>6. CASE ParseLine
  <2>1. /\ stage = "parse" /\ stage' = stage /\ refused' = refused
        /\ next \in 1..Len(file) /\ next' = next + 1 /\ errno' \in {"EINVAL", "other"}
    <3>1. \A e \in ErrnoAfter(file[next]) : e \in {"EINVAL", "other"}
      BY DEF ErrnoAfter, DaemonTypeOK
    <3>2. QED
      BY <1>3, <1>6, <3>1 DEF ParseLine, DaemonTypeOK
  <2>2. CASE UNCHANGED <<configs, states, launches>>
    BY <1>2, <1>3, <1>4, <1>6, <2>1, <2>2 DEF ParseLine, DaemonTypeOK
  <2>3. CASE ~UNCHANGED <<configs, states, launches>>
    <3>1. PICK e : /\ Accepted(file[next], e)
                   /\ Len(configs) < MAX_CONFIGS
                   /\ configs' = Append(configs, RuleOf(file[next]))
                   /\ states' = Append(states, Idle)
                   /\ launches' = Append(launches, 0)
      BY <1>6, <2>3 DEF ParseLine
    <3>2. file[next] \in Line
      BY <1>3, <2>1
    <3>3. RuleOf(file[next]) \in KeyConfig
      BY <3>1, <3>2, RuleOfType
    <3>4. /\ configs' \in Seq(KeyConfig) /\ Len(configs') = Len(configs) + 1
          /\ states' \in [Rule' -> KeyState] /\ launches' \in [Rule' -> Nat]
      BY <3>1, <3>3, AddedRule
    <3>5. Len(configs') <= MAX_CONFIGS
      BY <1>3, <3>1, <3>4, ListenerAssumption DEF ListenerAssumption
    <3>6. TypeOK'
      BY <1>2, <1>3, <1>6, <3>4 DEF ParseLine, TypeOK
    <3>7. QED
      BY <1>2, <1>3, <2>1, <3>5, <3>6 DEF DaemonTypeOK
  <2>4. QED
    BY <2>2, <2>3
<1>7. CASE Overrun
  BY <1>2, <1>3, <1>4, <1>7 DEF Overrun, DaemonTypeOK
<1>8. CASE Parsed
  <2>1. next' \in 1..(IF stage' \in {"open", "run"} THEN Len(configs')
                      ELSE Len(file')) + 1
    BY <1>3, <1>8 DEF Parsed, DaemonTypeOK, Exit, Enter, FirstRule
  <2>2. QED
    BY <1>2, <1>4, <1>8, <2>1 DEF Parsed, DaemonTypeOK, Exit, Enter
<1>9. CASE open_device
  <2>1. Dev(next) \in Path
    <3>1. next \in Rule
      BY <1>3, <1>9 DEF open_device, DaemonTypeOK, Rule
    <3>2. QED
      BY <3>1, RuleType DEF DaemonTypeOK
  <2>2. /\ devices' \in Seq(Path) /\ DOMAIN devices \subseteq DOMAIN devices'
        /\ refused' \subseteq Path
    <3>1. refused \subseteq Path
      BY DEF DaemonTypeOK
    <3>2. /\ devices' \in {devices, Append(devices, Dev(next))}
          /\ refused' \in {refused, refused \cup {Dev(next)}}
      BY <1>9 DEF open_device
    <3>3. /\ Append(devices, Dev(next)) \in Seq(Path)
          /\ DOMAIN devices \subseteq DOMAIN Append(devices, Dev(next))
      BY <1>3, <2>1, AppendFacts
    <3>4. QED
      BY <1>3, <2>1, <3>1, <3>2, <3>3
  <2>3. TypeOK'
    BY <1>2, <1>3, <1>9, <2>2 DEF open_device, TypeOK, Rule
  <2>4. next' \in 1..Len(configs') + 1 /\ stage' = "open"
    BY <1>3, <1>9 DEF open_device, DaemonTypeOK
  <2>5. QED
    BY <1>2, <1>3, <1>9, <2>2, <2>3, <2>4 DEF open_device, DaemonTypeOK
<1>10. CASE DevicesOpened
  <2>1. next' \in 1..(IF stage' \in {"open", "run"} THEN Len(configs')
                      ELSE Len(file')) + 1
    BY <1>3, <1>10 DEF DevicesOpened, DaemonTypeOK, Exit, Enter
  <2>2. QED
    BY <1>2, <1>4, <1>10, <2>1 DEF DevicesOpened, DaemonTypeOK, Exit, Enter
<1>11. QED
  BY <1>5, <1>6, <1>7, <1>8, <1>9, <1>10 DEF StartStep

\* Every other step is a step of KeyListener.
LEMMA OtherSteps ==
  ASSUME [DaemonNext]_allVars, ~StartStep
  PROVE  [Next]_vars /\ UNCHANGED startVars
BY DEF DaemonNext, InLoop, Signal, Input, Next, allVars

LEMMA DaemonType == DaemonTypeOK /\ [DaemonNext]_allVars => DaemonTypeOK'
<1> SUFFICES ASSUME DaemonTypeOK, [DaemonNext]_allVars PROVE DaemonTypeOK'
  OBVIOUS
<1>1. CASE StartStep
  BY <1>1, StartStepType
<1>2. CASE ~StartStep
  <2>1. [Next]_vars /\ UNCHANGED startVars
    BY <1>2, OtherSteps
  <2>2. TypeOK'
    BY <2>1, NextTypeOK DEF DaemonTypeOK
  <2>3. configs' = configs
    BY <2>1 DEF Next, LoopStep, LoopTest, PollReturns, PollFails, ReadDevice,
                ReadsDone, CheckTimeouts, signal_handler, Tick, Hardware,
                Terminated, vars
  <2>4. QED
    BY <2>1, <2>2, <2>3 DEF DaemonTypeOK, startVars
<1>3. QED
  BY <1>1, <1>2

\* The arrays of the rules always have an element for each rule, and the
\* indices of main stay within the file and the rules, for every file and in
\* whatever order lines, devices, events and signals come.
THEOREM DaemonTypeCorrect == DaemonSpec => []DaemonTypeOK
BY InitDaemonType, DaemonType, PTL DEF DaemonSpec

-----------------------------------------------------------------------------
(* The hand-over to the loop.  Before it no rule is armed, and the table   *)
(* of the devices comes from an increasing choice of the rules so far.     *)

OpenedBy(f) ==
  \A i, j \in DOMAIN devices : /\ devices[i] = Dev(f[i])
                               /\ i < j => f[i] < f[j] /\ devices[i] # devices[j]

StartInv ==
  stage # "run" =>
    /\ states = [r \in Rule |-> Idle] /\ launches = [r \in Rule |-> 0]
    /\ revents = {} /\ pollStart = 0 /\ clock = 0
    /\ pc \in {"loop", "done"}
    /\ IF stage = "open"
       THEN /\ configs # <<>>
            /\ Len(devices) < next
            /\ \E f \in [DOMAIN devices -> 1..next - 1] : OpenedBy(f)
       ELSE devices = <<>>

LEMMA StartInvInit == DaemonInit => StartInv
BY DEF DaemonInit, StartInv, Rule

LEMMA StartInvOther ==
  ASSUME DaemonTypeOK, StartInv, [DaemonNext]_allVars, ~StartStep
  PROVE  StartInv'
<1>1. UNCHANGED startVars
  BY OtherSteps
<1>2. SUFFICES ASSUME stage # "run" PROVE StartInv'
  BY <1>1 DEF StartInv, startVars
<1>3. /\ UNCHANGED <<configs, devices, states, revents, pollStart, clock, launches>>
      /\ pc' = pc
  BY <1>2 DEF DaemonNext, InLoop, Signal, Input, allVars, vars, loopVars,
              signal_handler, Hardware, Terminated, StartInv
<1>4. /\ DOMAIN devices' = DOMAIN devices /\ Rule' = Rule
      /\ \A f : OpenedBy(f)' <=> OpenedBy(f)
  BY <1>3 DEF OpenedBy, Dev, Rule
<1>5. QED
  BY <1>1, <1>2, <1>3, <1>4 DEF StartInv, startVars

\* A device that is opened is the one of the rule it is opened for.
LEMMA OpenedNext ==
  ASSUME DaemonTypeOK, StartInv, open_device, StartStep
  PROVE  StartInv'
<1>1. /\ stage = "open" /\ stage' = "open" /\ next \in Nat /\ next' = next + 1
      /\ next \in 1..Len(configs) /\ Len(configs) \in Nat
      /\ configs' = configs /\ Rule' = Rule /\ configs # <<>>
      /\ devices \in Seq(Path) /\ Len(devices) < next
  BY DEF open_device, DaemonTypeOK, TypeOK, StartInv, Rule
<1>2. /\ states' = [r \in Rule' |-> Idle] /\ launches' = [r \in Rule' |-> 0]
      /\ revents' = {} /\ pollStart' = 0 /\ clock' = 0
      /\ pc' \in {"loop", "done"}
  BY <1>1 DEF open_device, StartInv, loopOnly
<1>3. PICK f \in [DOMAIN devices -> 1..next - 1] : OpenedBy(f)
  BY <1>1 DEF StartInv
<1>4. CASE devices' = devices
  <2>1. f \in [DOMAIN devices' -> 1..next' - 1] /\ OpenedBy(f)'
    BY <1>1, <1>3, <1>4 DEF OpenedBy, Dev
  <2>2. QED
    BY <1>1, <1>2, <1>4, <2>1 DEF StartInv
<1>5. CASE devices' = Append(devices, Dev(next)) /\ ~AlreadyOpen(Dev(next))
  <2> DEFINE n == Len(devices)
  <2>0. PICK g : g = [i \in 1..n + 1 |-> IF i = n + 1 THEN next ELSE f[i]]
    OBVIOUS
  <2>1. n \in Nat /\ DOMAIN devices = 1..n
    BY <1>1
  <2>2. Dev(next) \in Path
    BY <1>1, RuleType DEF DaemonTypeOK, Rule
  <2>3. /\ DOMAIN devices' = 1..n + 1 /\ Len(devices') = n + 1
        /\ \A i \in 1..n : devices'[i] = devices[i]
        /\ devices'[n + 1] = Dev(next)
    BY <1>1, <1>5, <2>2
  <2>4. g \in [DOMAIN devices' -> 1..next' - 1]
    BY <1>1, <1>3, <2>0, <2>1, <2>3
  <2>5. \A i \in 1..n : devices[i] # Dev(next)
    BY <1>5, <2>1 DEF AlreadyOpen, Opened
  <2>6. \A i, j \in 1..n + 1 :
          /\ devices'[i] = Dev(g[i])
          /\ i < j => g[i] < g[j] /\ devices'[i] # devices'[j]
    <3> SUFFICES ASSUME NEW i \in 1..n + 1, NEW j \in 1..n + 1
                 PROVE  /\ devices'[i] = Dev(g[i])
                        /\ i < j => g[i] < g[j] /\ devices'[i] # devices'[j]
      OBVIOUS
    <3>1. \A k \in 1..n : f[k] \in 1..next - 1 /\ devices[k] = Dev(f[k])
      BY <1>3, <2>1 DEF OpenedBy
    <3>2. devices'[i] = Dev(g[i])
      BY <2>0, <2>1, <2>3, <3>1
    <3>3. ASSUME i < j PROVE g[i] < g[j] /\ devices'[i] # devices'[j]
      <4>1. i \in 1..n
        BY <2>1, <3>3
      <4>2. CASE j = n + 1
        BY <1>1, <2>0, <2>1, <2>3, <2>5, <3>1, <4>1, <4>2
      <4>3. CASE j \in 1..n
        BY <1>3, <2>0, <2>1, <2>3, <3>3, <4>1, <4>3 DEF OpenedBy
      <4>4. QED
        BY <2>1, <4>2, <4>3
    <3>4. QED
      BY <3>2, <3>3
  <2>7. OpenedBy(g)'
    <3>1. \A r : Dev(r)' = Dev(r)
      BY <1>1 DEF Dev
    <3>2. QED
      BY <2>3, <2>6, <3>1 DEF OpenedBy
  <2>8. Len(devices') < next'
    BY <1>1, <2>1, <2>3
  <2>9. QED
    BY <1>1, <1>2, <2>4, <2>7, <2>8 DEF StartInv
<1>6. QED
  BY <1>4, <1>5 DEF open_device

LEMMA StartInvStep ==
  ASSUME DaemonTypeOK, StartInv, StartStep
  PROVE  StartInv'
<1>1. CASE Begin
  BY <1>1 DEF Begin, Exit, Enter, StartInv, loopOnly, Rule
<1>2. CASE ParseLine
  <2>1. /\ stage = "parse" /\ stage' = "parse" /\ devices' = <<>>
        /\ revents' = {} /\ pollStart' = 0 /\ clock' = 0
        /\ pc' \in {"loop", "done"}
    BY <1>2 DEF ParseLine, StartInv, loopOnly
  <2>2. states = [r \in Rule |-> Idle] /\ launches = [r \in Rule |-> 0]
    BY <2>1 DEF StartInv
  <2>3. CASE UNCHANGED <<configs, states, launches>>
    BY <2>1, <2>2, <2>3 DEF StartInv, Rule
  <2>4. CASE ~UNCHANGED <<configs, states, launches>>
    <3>1. PICK e : /\ Accepted(file[next], e)
                   /\ configs' = Append(configs, RuleOf(file[next]))
                   /\ states' = Append(states, Idle)
                   /\ launches' = Append(launches, 0)
      BY <1>2, <2>4 DEF ParseLine
    <3>2. file[next] \in Line
      BY <1>2 DEF ParseLine, DaemonTypeOK
    <3>3. RuleOf(file[next]) \in KeyConfig
      BY <3>1, <3>2, RuleOfType
    <3>4. /\ states' \in [Rule' -> KeyState] /\ launches' \in [Rule' -> Nat]
          /\ \A r \in Rule' : states'[r] = IF r \in Rule THEN states[r] ELSE Idle
          /\ \A r \in Rule' : launches'[r] = IF r \in Rule THEN launches[r] ELSE 0
      BY <3>1, <3>3, AddedRule
    <3>5. states' = [r \in Rule' |-> Idle] /\ launches' = [r \in Rule' |-> 0]
      BY <2>2, <3>4
    <3>6. QED
      BY <2>1, <3>5 DEF StartInv
  <2>5. QED
    BY <2>3, <2>4
<1>3. CASE Overrun
  BY <1>3 DEF Overrun, StartInv, loopOnly, Rule
<1>4. CASE Parsed
  <2>1. /\ stage = "parse" /\ devices' = <<>>
        /\ configs' = configs /\ Rule' = Rule
    BY <1>4 DEF Parsed, StartInv, Rule
  <2>2. /\ states' = [r \in Rule' |-> Idle] /\ launches' = [r \in Rule' |-> 0]
        /\ revents' = {} /\ pollStart' = 0 /\ clock' = 0
        /\ pc' \in {"loop", "done"}
    BY <1>4, <2>1 DEF Parsed, StartInv, loopOnly, Exit, Enter
  <2>3. CASE stage' = "open"
    <3>1. configs' # <<>> /\ next' = 1
      BY <1>4, <2>1, <2>3 DEF Parsed, Exit, Enter, FirstRule
    <3>2. DOMAIN devices' = {} /\ Len(devices') = 0
      BY <2>1
    <3>3. PICK f : f = [i \in {} |-> 1]
      OBVIOUS
    <3>4. f \in [DOMAIN devices' -> 1..next' - 1] /\ OpenedBy(f)'
      BY <3>2, <3>3 DEF OpenedBy
    <3>5. Len(devices') < next'
      BY <3>1, <3>2
    <3>6. \E g \in [DOMAIN devices' -> 1..next' - 1] : OpenedBy(g)'
      BY <3>4
    <3>7. QED
      BY <2>2, <2>3, <3>1, <3>5, <3>6 DEF StartInv
  <2>4. CASE stage' # "open"
    BY <2>1, <2>2, <2>4 DEF StartInv
  <2>5. QED
    BY <2>3, <2>4
<1>5. CASE open_device
  BY <1>5, OpenedNext
<1>6. CASE DevicesOpened
  <2>1. CASE stage' = "run"
    BY <2>1 DEF StartInv
  <2>2. CASE stage' # "run"
    BY <1>6, <2>2
       DEF DevicesOpened, Exit, Enter, StartInv, OpenedBy, Dev, loopOnly, Rule
  <2>3. QED
    BY <2>1, <2>2
<1>7. QED
  BY <1>1, <1>2, <1>3, <1>4, <1>5, <1>6 DEF StartStep

\* The loop is always entered in a state KeyListener starts from: whatever the
\* file says and whichever opens fail, every rule is idle and the table holds
\* each open device once, in the order of the rules.
THEOREM HandsOverHolds == DaemonSpec => HandsOver
<1> DEFINE I == DaemonTypeOK /\ StartInv
<1>1. DaemonInit => I
  BY InitDaemonType, StartInvInit
<1>2. I /\ [DaemonNext]_allVars => I'
  BY DaemonType, StartInvStep, StartInvOther
<1>3. I /\ I' /\ [DaemonNext]_allVars =>
        [stage # "run" /\ stage' = "run" => LoopEntry']_allVars
  <2> SUFFICES ASSUME I, I', [DaemonNext]_allVars, stage # "run", stage' = "run"
               PROVE  LoopEntry'
    OBVIOUS
  <2>1. DevicesOpened /\ pc # "done"
    BY OtherSteps
       DEF startVars, StartStep, Begin, ParseLine, Overrun, Parsed,
           open_device, Exit, Enter
  <2>2. /\ stage = "open" /\ next = Len(configs) + 1 /\ devices # <<>>
        /\ UNCHANGED <<configs, devices, states, launches>>
        /\ pc' = "loop" /\ revents' = {} /\ pollStart' = 0 /\ clock' = 0
    BY <2>1 DEF DevicesOpened, Exit, Enter, DaemonTypeOK, TypeOK, StartInv,
                loopOnly, StartStep
  <2>3. /\ configs \in Seq(KeyConfig) /\ configs # <<>>
        /\ Len(configs) \in 1..MAX_CONFIGS
        /\ Len(devices) \in 1..Len(configs)
        /\ devices \in [1..Len(devices) -> Path]
    <3>1. /\ configs \in Seq(KeyConfig) /\ configs # <<>>
          /\ Len(configs) <= MAX_CONFIGS /\ MAX_CONFIGS \in Nat
          /\ devices \in Seq(Path) /\ Len(devices) < next
      BY <2>2, ListenerAssumption
         DEF DaemonTypeOK, TypeOK, StartInv, ListenerAssumption
    <3>2. QED
      BY <2>2, <3>1
  <2>4. devices \in DeviceTables(configs)
    <3>1. PICK f \in [DOMAIN devices -> 1..next - 1] : OpenedBy(f)
      BY <2>2 DEF StartInv
    <3>2. f \in [DOMAIN devices -> DOMAIN configs]
      BY <2>2, <2>3, <3>1
    <3>3. \A i, j \in DOMAIN devices :
            /\ devices[i] = configs[f[i]].device_path
            /\ i < j => f[i] < f[j] /\ devices[i] # devices[j]
      BY <3>1 DEF OpenedBy, Dev
    <3>4. QED
      BY <2>3, <3>2, <3>3 DEF DeviceTables
  <2>5. states' = [r \in Rule' |-> Idle] /\ launches' = [r \in Rule' |-> 0]
    BY <2>2 DEF StartInv, Rule
  <2>6. QED
    BY <2>2, <2>3, <2>4, <2>5 DEF LoopEntry
<1>4. QED
  BY <1>1, <1>2, <1>3, PTL DEF DaemonSpec, HandsOver

-----------------------------------------------------------------------------
(* What was shown of the loop holds of the whole program.                  *)

\* Before the loop rules are only added, and nothing happens to the others.
LEMMA StartKeeps ==
  ASSUME DaemonTypeOK, StartStep
  PROVE  /\ UNCHANGED evdevVars
         /\ Rule \subseteq Rule'
         /\ \A r \in Rule : /\ configs'[r] = configs[r]
                            /\ states'[r] = states[r]
                            /\ launches'[r] = launches[r]
         /\ \A r \in Rule' \ Rule : states'[r] = Idle /\ launches'[r] = 0
<1>1. UNCHANGED evdevVars
  BY DEF StartStep, Begin, ParseLine, Overrun, Parsed, open_device,
         DevicesOpened, loopOnly
<1>2. CASE UNCHANGED <<configs, states, launches>>
  BY <1>1, <1>2 DEF Rule
<1>3. CASE ~UNCHANGED <<configs, states, launches>>
  <2>1. ParseLine
    BY <1>3 DEF StartStep, Begin, Overrun, Parsed, open_device, DevicesOpened
  <2>2. PICK e : /\ Accepted(file[next], e)
                 /\ configs' = Append(configs, RuleOf(file[next]))
                 /\ states' = Append(states, Idle)
                 /\ launches' = Append(launches, 0)
    BY <1>3, <2>1 DEF ParseLine
  <2>3. file[next] \in Line
    BY <2>1 DEF ParseLine, DaemonTypeOK
  <2>4. RuleOf(file[next]) \in KeyConfig
    BY <2>2, <2>3, RuleOfType
  <2>5. /\ Rule' = 1..Len(configs) + 1
        /\ \A r \in Rule : configs'[r] = configs[r]
        /\ \A r \in Rule' : states'[r] = IF r \in Rule THEN states[r] ELSE Idle
        /\ \A r \in Rule' : launches'[r] = IF r \in Rule THEN launches[r] ELSE 0
    BY <2>2, <2>4, AddedRule
  <2>6. Rule \subseteq Rule'
    BY <2>5 DEF Rule, DaemonTypeOK, TypeOK
  <2>7. QED
    BY <1>1, <2>5, <2>6
<1>4. QED
  BY <1>2, <1>3

DaemonIInv == DaemonTypeOK /\ PressesClosed /\ ArmedMeansHeld

LEMMA DaemonIInvNext == DaemonIInv /\ [DaemonNext]_allVars => DaemonIInv'
<1> SUFFICES ASSUME DaemonIInv, [DaemonNext]_allVars PROVE DaemonIInv'
  OBVIOUS
<1> USE DEF DaemonIInv
<1>1. DaemonTypeOK'
  BY DaemonType
<1>2. CASE StartStep
  <2>1. PressesClosed'
    BY <1>2, StartKeeps DEF PressesClosed, ReleasePending, evdevVars
  <2>2. SUFFICES ASSUME NEW r \in Rule', IsLong(r)', states'[r].active
                 PROVE  Dev(r)' \notin lost' =>
                          \/ Code(r)' \in down'[Dev(r)']
                          \/ ReleasePending(Dev(r), Code(r), 0)'
    BY <1>1, <2>1 DEF ArmedMeansHeld
  <2>3. r \in Rule /\ states[r].active
    BY <1>2, <2>2, StartKeeps DEF Idle
  <2>4. /\ Dev(r)' = Dev(r) /\ Code(r)' = Code(r) /\ IsLong(r)
        /\ UNCHANGED evdevVars
    BY <1>2, <2>2, <2>3, StartKeeps DEF Dev, Code, IsLong
  <2>5. QED
    BY <2>3, <2>4 DEF ArmedMeansHeld, ReleasePending, evdevVars
<1>3. CASE ~StartStep
  <2>1. [Next]_vars /\ IInv
    BY <1>3, OtherSteps DEF IInv, DaemonTypeOK
  <2>2. QED
    BY <1>1, <2>1, NextIInv DEF IInv
<1>4. QED
  BY <1>2, <1>3

LEMMA DaemonMoves ==
  ASSUME DaemonTypeOK, [DaemonNext]_allVars, NEW r \in 1..MAX_CONFIGS
  PROVE  RuleMoves(r)
<1>1. CASE StartStep
  <2>1. CASE r \in Rule
    BY <1>1, <2>1, StartKeeps DEF RuleMoves, Phase, Launched, IsLong
  <2>2. CASE r \notin Rule
    BY <1>1, <2>2, StartKeeps DEF RuleMoves, Phase, Launched, Idle
  <2>3. QED
    BY <2>1, <2>2
<1>2. CASE ~StartStep
  BY <1>2, OtherSteps, NextMoves DEF DaemonTypeOK
<1>3. QED
  BY <1>1, <1>2

\* Until the loop begins no rule waits, so none can be late.
LEMMA StartPunctual ==
  ASSUME DaemonTypeOK, StartInv, StartStep
  PROVE  Punctual'
<1>1. stage # "run" /\ pc = "loop"
  BY DEF StartStep, StartInv, Begin, ParseLine, Overrun, Parsed, open_device,
         DevicesOpened
<1>2. pc' \in {"loop", "done"}
  BY <1>1 DEF StartStep, Begin, ParseLine, Overrun, Parsed, open_device,
              DevicesOpened, Exit, Enter
<1>3. ASSUME NEW r \in Rule' PROVE states'[r] = Idle
  BY <1>1, StartKeeps DEF StartInv
<1>4. QED
  BY <1>2, <1>3 DEF Punctual, Waiting, Idle

\* A device that is not open has told nothing and counted nothing.
Unheard ==
  \A p \in Path : ~Opened(p) => /\ queue[p] = <<>>
                                /\ \A k \in Key : typed[p][k] = 0

LEMMA UnheardNext ==
  ASSUME DaemonTypeOK, Unheard, [DaemonNext]_allVars
  PROVE  Unheard'
<1>1. SUFFICES ASSUME NEW p \in Path, ~Opened(p)'
               PROVE  queue'[p] = <<>> /\ \A k \in Key : typed'[p][k] = 0
  BY DEF Unheard
<1>2. CASE StartStep
  <2>1. ~Opened(p)
    <3>1. CASE devices' = devices
      BY <1>1, <3>1 DEF Opened
    <3>2. CASE open_device /\ devices' # devices
      <4>1. devices \in Seq(Path) /\ devices' = Append(devices, Dev(next))
        BY <3>2 DEF open_device, DaemonTypeOK, TypeOK
      <4>2. \A j \in DOMAIN devices : j \in DOMAIN devices' /\ devices'[j] = devices[j]
        BY <4>1
      <4>3. QED
        BY <1>1, <4>2 DEF Opened
    <3>3. QED
      BY <1>2, <3>1, <3>2
         DEF StartStep, Begin, ParseLine, Overrun, Parsed, DevicesOpened
  <2>2. QED
    BY <1>2, <2>1, StartKeeps DEF Unheard, evdevVars
<1>3. CASE ~StartStep
  <2>1. [Next]_vars /\ TypeOK
    BY <1>3, OtherSteps DEF DaemonTypeOK
  <2>2. CASE UNCHANGED <<devices, evdevVars>>
    BY <1>1, <2>2 DEF Unheard, Opened, evdevVars
  <2>3. ASSUME NEW i \in DOMAIN devices, ReadDevice(i)
        PROVE  queue'[p] = queue[p] /\ typed' = typed /\ ~Opened(p)
    <3>1. devices' = devices /\ ~Opened(p) /\ devices[i] # p /\ devices[i] \in Path
      BY <1>1, <2>1, <2>3 DEF ReadDevice, Opened, TypeOK
    <3>2. QED
      BY <2>1, <2>3, <3>1, ReadKept DEF ReadDevice, ReadEvent, evdevVars
  <2>4. CASE Hardware
    <3>1. PICK q \in Path :
             /\ Opened(q)
             /\ \/ \E k \in Key : KeyDown(q, k) \/ KeyUp(q, k) \/ KeyRepeat(q, k)
                \/ Unplug(q)
      BY <2>4 DEF Hardware
    <3>2. ~Opened(p) /\ p # q
      BY <1>1, <2>4, <3>1 DEF Hardware, Opened
    <3>3. queue'[p] = queue[p] /\ typed'[p] = typed[p]
      BY <2>1, <3>1, <3>2
         DEF KeyDown, KeyUp, KeyRepeat, Unplug, Deliver, TypeOK, EvdevTypeOK
    <3>4. QED
      BY <3>2, <3>3 DEF Unheard
  <2>5. QED
    BY <2>1, <2>2, <2>3, <2>4
       DEF Unheard, Next, LoopStep, LoopTest, PollReturns, PollFails, ReadsDone,
           CheckTimeouts, signal_handler, Tick, Terminated, vars, loopVars
<1>4. QED
  BY <1>2, <1>3

\* A device that is opened starts with nothing to count for its rules.
LEMMA StartCounted ==
  ASSUME DaemonTypeOK, DaemonTypeOK', StartInv, Unheard, LaunchesAccounted, StartStep
  PROVE  LaunchesAccounted'
<1>1. SUFFICES ASSUME NEW r \in Rule', Opened(Dev(r))' PROVE RuleCounted(r)'
  BY DEF LaunchesAccounted, RuleCounted, Unread, Downs, InTwo, One
<1>2. stage # "run" /\ world' = world
  BY DEF StartStep, StartInv, Begin, ParseLine, Overrun, Parsed, open_device,
         DevicesOpened, loopOnly
<1>3. r \in Rule
  <2>1. SUFFICES ASSUME r \notin Rule PROVE FALSE
    OBVIOUS
  <2>2. ParseLine
    BY <1>1, <2>1 DEF StartStep, Begin, Overrun, Parsed, open_device,
                      DevicesOpened, Rule
  <2>3. devices' = <<>>
    BY <2>2 DEF ParseLine, StartInv
  <2>4. QED
    BY <1>1, <2>3 DEF Opened
<1>4. /\ configs'[r] = configs[r] /\ states'[r] = states[r]
      /\ launches'[r] = launches[r] /\ UNCHANGED evdevVars
  BY <1>3, StartKeeps
<1>5. CASE Opened(Dev(r))
  <2>1. RuleCounted(r)
    BY <1>3, <1>5, CountedByRule
  <2>2. QED
    BY <1>2, <1>4, <2>1 DEF RuleCounted, Unread, Downs, InTwo, Pending, Dev, Code,
                            IsLong, evdevVars
<1>6. CASE ~Opened(Dev(r))
  <2>1. PICK d \in Path, k \in Key : d = Dev(r) /\ k = Code(r)
    BY <1>3, RuleType DEF DaemonTypeOK
  <2>2. /\ d = Dev(r)' /\ k = Code(r)' /\ queue'[d] = <<>> /\ typed'[d][k] = 0
    BY <1>4, <1>6, <2>1 DEF Unheard, Dev, Code, evdevVars
  <2>3. Unread(r)' = 0
    <3>1. Places(queue'[d], PressOf(k)) = {}
      BY <2>2 DEF Places
    <3>2. QED
      BY <2>2, <3>1, FS_EmptySet DEF Unread, Pending, Places
  <2>4. Downs(r)' = 0 /\ launches'[r] = 0 /\ InTwo(r)' = 0
    BY <1>2, <1>3, <1>4, <2>2 DEF Downs, InTwo, One, StartInv, Idle
  <2>5. QED
    BY <2>3, <2>4 DEF RuleCounted
<1>7. QED
  BY <1>5, <1>6

Counts == Unheard /\ LaunchesAccounted

\* Started with any file, the daemon never waits for a release that cannot
\* come, runs no long_press script before its time has passed since the press was
\* read, none too late or twice for a hold, and counts every press once.
THEOREM DaemonKeepsLoop ==
  DaemonSpec => /\ [](ArmedMeansHeld /\ LongPressOnTime /\ LaunchesAccounted)
                /\ NotBeforeTime
                /\ ImplementsLongPress
<1>1. DaemonInit => DaemonIInv /\ StartInv /\ Punctual /\ Counts /\ LP!Init
  <2> SUFFICES ASSUME DaemonInit
               PROVE  DaemonIInv /\ StartInv /\ Punctual /\ Counts /\ LP!Init
    OBVIOUS
  <2>1. DaemonTypeOK
    BY InitDaemonType
  <2>2. PressesClosed /\ ArmedMeansHeld
    BY DEF DaemonInit, EvdevInit, PressesClosed, ArmedMeansHeld, Rule
  <2>3. LP!Init
    BY DEF DaemonInit, LP!Init, Phase, Launched, Rule
  <2>4. Punctual
    BY DEF DaemonInit, Punctual, Rule
  <2>5. Counts
    BY DEF DaemonInit, EvdevInit, Counts, Unheard, LaunchesAccounted, Rule
  <2>6. QED
    BY <2>1, <2>2, <2>3, <2>4, <2>5, StartInvInit DEF DaemonIInv
<1>2. DaemonIInv /\ StartInv /\ Punctual /\ Counts /\ [DaemonNext]_allVars
        => DaemonIInv' /\ StartInv' /\ Punctual' /\ Counts'
  <2> SUFFICES ASSUME DaemonIInv, StartInv, Punctual, Counts, [DaemonNext]_allVars
               PROVE  DaemonIInv' /\ StartInv' /\ Punctual' /\ Counts'
    OBVIOUS
  <2>1. DaemonIInv' /\ DaemonTypeOK /\ TypeOK
    BY DaemonIInvNext DEF DaemonIInv, DaemonTypeOK
  <2>2. StartInv'
    BY <2>1, StartInvStep, StartInvOther
  <2>3. Punctual'
    BY <2>1, StartPunctual, OtherSteps, NextPunctual
  <2>4. Counts'
    BY <2>1, UnheardNext, StartCounted, OtherSteps, NextCounted
       DEF Counts, DaemonIInv
  <2>5. QED
    BY <2>1, <2>2, <2>3, <2>4
<1>3. DaemonIInv /\ Punctual /\ Counts
        => ArmedMeansHeld /\ LongPressOnTime /\ LaunchesAccounted
  BY PunctualIsOnTime DEF DaemonIInv, DaemonTypeOK, Counts
<1>4. DaemonIInv /\ [DaemonNext]_allVars =>
        [\A r \in Rule : IsLong(r) /\ launches'[r] > launches[r]
           => TimeOver(r, states[r].press_time)]_vars
  <2> SUFFICES ASSUME DaemonIInv, [DaemonNext]_allVars,
                      NEW r \in Rule, IsLong(r), launches'[r] > launches[r]
               PROVE  TimeOver(r, states[r].press_time)
    OBVIOUS
  <2>1. TypeOK /\ launches[r] \in Nat
    BY DEF DaemonIInv, DaemonTypeOK, TypeOK
  <2>2. ~StartStep
    BY <2>1, StartKeeps DEF DaemonIInv
  <2>3. QED
    BY <2>1, <2>2, OtherSteps, LaunchIsLate
<1>5. DaemonIInv /\ DaemonIInv' /\ [DaemonNext]_allVars =>
        [LP!Next]_<<[r \in 1..MAX_CONFIGS |-> Phase(r)],
                    [r \in 1..MAX_CONFIGS |-> Launched(r)]>>
  BY DaemonMoves, MovesAllowed DEF DaemonIInv, DaemonTypeOK
<1>6. QED
  BY <1>1, <1>2, <1>3, <1>4, <1>5, PTL
     DEF DaemonSpec, NotBeforeTime, ImplementsLongPress, LP!Spec

-----------------------------------------------------------------------------
(* Rules without a device.                                                 *)

Explained(p) == \/ Opened(p)
                \/ p \in refused
                \/ Len(devices) = MAX_DEVICES

\* The rules open_device has seen so far.
Tried ==
  /\ Len(devices) <= MAX_DEVICES
  /\ stage \in {"start", "parse"} => devices = <<>>
  /\ stage = "open" => \A r \in 1..next - 1 : Explained(Dev(r))
  /\ DeadRulesExplained

LEMMA OpenDeviceTried ==
  ASSUME DaemonTypeOK, Tried, open_device
  PROVE  Tried'
<1>1. /\ stage = "open" /\ stage' = "open" /\ next \in Nat /\ next' = next + 1
      /\ configs' = configs /\ devices \in Seq(Path) /\ MAX_DEVICES \in Nat
      /\ Len(devices) <= MAX_DEVICES
      /\ \A r \in 1..next - 1 : Explained(Dev(r))
  BY DaemonAssumption
     DEF open_device, DaemonTypeOK, TypeOK, Tried, DaemonAssumption
<1>2. \A r \in 1..next' - 1 : r \in 1..next - 1 \/ r = next
  BY <1>1
<1>3. CASE /\ AlreadyOpen(Dev(next)) \/ ~HasRoom
           /\ UNCHANGED <<devices, refused>>
  <2>1. Explained(Dev(next))
    BY <1>1, <1>3 DEF AlreadyOpen, HasRoom, Explained
  <2>2. \A r \in 1..next' - 1 : Explained(Dev(r))'
    BY <1>1, <1>2, <1>3, <2>1 DEF Explained, Opened, Dev
  <2>3. QED
    BY <1>1, <1>3, <2>2 DEF Tried, DeadRulesExplained
<1>4. CASE HasRoom /\ devices' = Append(devices, Dev(next)) /\ refused' = refused
  <2>1. Dev(next) \in Path
    <3>1. next \in Rule
      BY <1>1 DEF open_device, DaemonTypeOK, TypeOK, Rule
    <3>2. QED
      BY <3>1, RuleType DEF DaemonTypeOK
  <2>2. /\ Len(devices') = Len(devices) + 1 /\ Len(devices) < MAX_DEVICES
        /\ \A i \in DOMAIN devices :
             i \in DOMAIN devices' /\ devices'[i] = devices[i]
        /\ Len(devices') \in DOMAIN devices'
        /\ devices'[Len(devices')] = Dev(next)
    <3>1. /\ devices' \in Seq(Path) /\ Len(devices') = Len(devices) + 1
          /\ \A j \in 1..Len(devices) + 1 :
               devices'[j] = IF j \in 1..Len(devices) THEN devices[j] ELSE Dev(next)
      BY <1>1, <1>4, <2>1, Appended
    <3>2. /\ Len(devices) \in Nat /\ DOMAIN devices = 1..Len(devices)
          /\ DOMAIN devices' = 1..Len(devices) + 1
      BY <1>1, <3>1, LenProperties
    <3>3. QED
      BY <1>4, <3>1, <3>2 DEF HasRoom
  <2>3. \A r \in 1..next' - 1 : Explained(Dev(r))'
    <3>1. \A p : Opened(p) => \E i \in DOMAIN devices' : devices'[i] = p
      BY <2>2 DEF Opened
    <3>2. \E i \in DOMAIN devices' : devices'[i] = Dev(next)
      BY <2>2
    <3>3. \A r \in 1..next - 1 : Opened(Dev(r)) \/ Dev(r) \in refused
      BY <1>1, <2>2 DEF Explained
    <3>4. \A r \in 1..next' - 1 :
            \/ \E i \in DOMAIN devices' : devices'[i] = Dev(r)
            \/ Dev(r) \in refused
      BY <1>2, <3>1, <3>2, <3>3
    <3>5. QED
      BY <1>1, <1>4, <3>4 DEF Explained, Opened, Dev
  <2>4. QED
    BY <1>1, <2>2, <2>3 DEF Tried, DeadRulesExplained
<1>5. CASE refused' = refused \cup {Dev(next)} /\ UNCHANGED devices
  <2>1. \A r \in 1..next' - 1 : Explained(Dev(r))'
    BY <1>1, <1>2, <1>5 DEF Explained, Opened, Dev
  <2>2. QED
    BY <1>1, <1>5, <2>1 DEF Tried, DeadRulesExplained
<1>6. QED
  BY <1>3, <1>4, <1>5 DEF open_device

LEMMA TriedNext ==
  ASSUME DaemonTypeOK, Tried, [DaemonNext]_allVars
  PROVE  Tried'
<1>1. CASE Begin \/ ParseLine \/ Overrun
  BY <1>1 DEF Begin, ParseLine, Overrun, Enter, Exit, Tried, DeadRulesExplained
<1>2. CASE Parsed
  <2>1. stage = "parse" /\ UNCHANGED <<devices, configs>>
        /\ (stage' = "open" => next' = 1) /\ stage' \in {"parse", "open"}
    BY <1>2 DEF Parsed, Enter, Exit, FirstRule
  <2>2. QED
    BY <2>1 DEF Tried, DeadRulesExplained
<1>3. CASE open_device
  BY <1>3, OpenDeviceTried
<1>4. CASE DevicesOpened
  <2>1. /\ stage = "open" /\ stage' \in {"open", "run"}
        /\ UNCHANGED <<devices, configs, next, refused>>
        /\ next > Len(configs) /\ next \in Nat /\ Rule = 1..Len(configs)
        /\ Len(configs) \in Nat
    BY <1>4 DEF DevicesOpened, Enter, Exit, DaemonTypeOK, TypeOK, Rule
  <2>2. \A r \in Rule : r \in 1..next - 1
    BY <2>1
  <2>3. QED
    BY <2>1, <2>2 DEF Tried, DeadRulesExplained, Explained, Opened, Dev, Rule
<1>5. CASE ~StartStep
  <2>1. UNCHANGED startVars
    BY <1>5, OtherSteps
  <2>2. UNCHANGED <<configs, devices>>
    BY <1>5 DEF DaemonNext, InLoop, Signal, Input, Hardware, Terminated,
       signal_handler, allVars, vars, LoopStep, LoopTest, PollReturns,
       ReadDevice, ReadsDone, CheckTimeouts, PollFails, Tick
  <2>3. QED
    BY <2>1, <2>2 DEF startVars, Tried, DeadRulesExplained, Explained, Opened,
       Dev, Rule
<1>6. QED
  BY <1>1, <1>2, <1>3, <1>4, <1>5 DEF StartStep

\* A rule whose device is not open has met a failing open or a full table,
\* whichever rules share a device and however many devices there is room for.
THEOREM DeadRulesExplainedHolds == DaemonSpec => []DeadRulesExplained
<1>1. DaemonInit => Tried
  BY DaemonAssumption
     DEF DaemonInit, Tried, DeadRulesExplained, DaemonAssumption
<1>2. Tried => DeadRulesExplained
  BY DEF Tried
<1>3. QED
  BY InitDaemonType, DaemonType, <1>1, TriedNext, <1>2, PTL DEF DaemonSpec

-----------------------------------------------------------------------------
(* The rules of the file.                                                  *)

\* The lines parse_config has seen so far.
Lines == IF stage \in {"start", "parse"} THEN next - 1 ELSE Len(file)

TooMany ==
  Cardinality({i \in DOMAIN file : Acceptable(file[i])}) > MAX_CONFIGS

RulesSoFar ==
  /\ stage # "overrun" =>
       \E origin \in [Rule -> 1..Lines] : MadeOf(origin, Lines)
  /\ stage = "overrun" => TooMany

\* What parse_config takes for a rule, and what it does not.
LEMMA LineTaken ==
  ASSUME NEW l \in Line, NEW e \in {"EINVAL", "other"}
  PROVE  /\ Accepted(l, e) /\ RuleOf(l).keycode # KEY_RESERVED => WellFormed(l)
         /\ WellFormed(l) /\ l.code # KEY_RESERVED => Accepted(l, e)
<1>1. RuleOf(l).keycode = KeyCode(l)
  BY DEF RuleOf
<1> QED
  BY <1>1 DEF Accepted, WellFormed, KeyCode, CodeRefused

\* A line that becomes a rule is later than the lines of the rules so far.
LEMMA LineAdded ==
  ASSUME DaemonTypeOK, RulesSoFar, stage = "parse", next <= Len(file),
         NEW e \in {"EINVAL", "other"}, Accepted(file[next], e),
         configs' = Append(configs, RuleOf(file[next])),
         UNCHANGED <<stage, file>>, next' = next + 1
  PROVE  RulesSoFar'
<1>1. /\ next \in Nat \ {0} /\ next \in DOMAIN file /\ file[next] \in Line
      /\ configs \in Seq(KeyConfig) /\ Len(configs) \in Nat
      /\ Rule = 1..Len(configs)
  BY DEF DaemonTypeOK, TypeOK, Rule
<1>0. PICK n, m, rule : /\ n = Len(configs) /\ m = next
                        /\ rule = RuleOf(file[next])
  OBVIOUS
<1>2. PICK origin \in [1..n -> 1..m - 1] : MadeOf(origin, m - 1)
  BY <1>0, <1>1 DEF RulesSoFar, Lines
<1>3. rule \in KeyConfig
  BY <1>0, <1>1, RuleOfType
<1>4. /\ Rule' = 1..n + 1
      /\ \A r \in 1..n + 1 :
           configs'[r] = IF r \in Rule THEN configs[r] ELSE rule
  <2>1. /\ configs' \in Seq(KeyConfig) /\ Len(configs') = n + 1
        /\ \A r \in 1..n + 1 :
             configs'[r] = IF r \in 1..n THEN configs[r] ELSE rule
    BY <1>0, <1>1, <1>3, Appended
  <2> QED
    BY <1>0, <1>1, <2>1, LenProperties DEF Rule
<1>a. PICK o : o = [r \in 1..n + 1 |-> IF r \in 1..n THEN origin[r] ELSE m]
  OBVIOUS
<1>5. /\ o \in [1..n + 1 -> 1..m] /\ o[n + 1] = m
      /\ \A r \in Rule : r \in 1..n + 1 /\ o[r] = origin[r] /\ origin[r] \in 1..m - 1
  <2>1. n \in Nat /\ m \in Nat \ {0} /\ Rule = 1..n /\ n + 1 \notin 1..n
    BY <1>0, <1>1
  <2>2. /\ o[n + 1] = m
        /\ \A r \in 1..n : r \in 1..n + 1 /\ o[r] = origin[r] /\ origin[r] \in 1..m - 1
    BY <1>2, <1>a, <2>1
  <2>3. \A r \in 1..n + 1 : o[r] \in 1..m
    BY <2>1, <2>2
  <2> QED
    BY <1>a, <2>1, <2>2, <2>3
<1>6. n \in Nat /\ m \in Nat \ {0} /\ \A r \in 1..n + 1 : r \in Rule \/ r = n + 1
  BY <1>0, <1>1
<1>7. \A r, q \in 1..n + 1 : r < q => o[r] < o[q]
  <2> SUFFICES ASSUME NEW r \in 1..n + 1, NEW q \in 1..n + 1, r < q
               PROVE  o[r] < o[q]
    OBVIOUS
  <2>1. r \in Rule
    BY <1>0, <1>1
  <2>2. CASE q \in Rule
    BY <1>2, <1>5, <2>1, <2>2 DEF MadeOf
  <2>3. CASE q = n + 1
    BY <1>5, <1>6, <2>1, <2>3
  <2> QED
    BY <1>6, <2>2, <2>3
<1>8. ASSUME NEW r \in 1..n + 1
      PROVE  /\ Acceptable(file[o[r]])
             /\ configs'[r] = RuleOf(file[o[r]])
             /\ configs'[r].keycode # KEY_RESERVED => WellFormed(file[o[r]])
  <2>1. CASE r \in Rule
    BY <1>2, <1>4, <1>5, <2>1 DEF MadeOf
  <2>2. CASE r = n + 1
    <3>1. o[r] = m /\ configs'[r] = rule
      BY <1>0, <1>1, <1>4, <1>5, <2>2
    <3> QED
      BY <1>0, <1>1, <3>1, LineTaken DEF Acceptable
  <2> QED
    BY <1>6, <2>1, <2>2
<1>9. ASSUME NEW i \in 1..m, WellFormed(file[i]), file[i].code # KEY_RESERVED
      PROVE  \E r \in 1..n + 1 : o[r] = i
  <2>1. CASE i = m
    BY <1>5, <1>6, <2>1
  <2>2. CASE i # m
    <3>1. i \in 1..m - 1
      BY <1>6, <2>2
    <3>2. PICK r \in Rule : origin[r] = i
      BY <1>2, <1>9, <3>1 DEF MadeOf
    <3> QED
      BY <1>5, <3>2
  <2> QED
    BY <2>1, <2>2
<1>10. stage' = "parse" /\ Lines' = m /\ file' = file
  BY <1>0, <1>1 DEF Lines
<1>11. MadeOf(o, m)'
  BY <1>4, <1>7, <1>8, <1>9, <1>10 DEF MadeOf
<1> QED
  BY <1>4, <1>5, <1>10, <1>11 DEF RulesSoFar

\* Full arrays and one more line that is taken: the file has too many.
LEMMA OverrunExplained ==
  ASSUME DaemonTypeOK, RulesSoFar, stage = "parse", next <= Len(file),
         Acceptable(file[next]), Len(configs) >= MAX_CONFIGS
  PROVE  TooMany
<1> DEFINE n == Len(configs)
           m == next
           S == {i \in DOMAIN file : Acceptable(file[i])}
<1>1. /\ m \in Nat \ {0} /\ m <= Len(file) /\ Len(file) \in Nat
      /\ DOMAIN file = 1..Len(file)
      /\ n \in Nat /\ Rule = 1..n /\ MAX_CONFIGS \in Nat
  BY ListenerAssumption DEF DaemonTypeOK, TypeOK, Rule, ListenerAssumption
<1>2. PICK origin \in [Rule -> 1..m - 1] : MadeOf(origin, m - 1)
  BY DEF RulesSoFar, Lines
<1> DEFINE o == [r \in 1..n + 1 |-> IF r \in Rule THEN origin[r] ELSE m]
<1>3. /\ o[n + 1] = m /\ \A r \in 1..n : o[r] = origin[r] /\ origin[r] \in 1..m - 1
      /\ DOMAIN o = 1..n + 1 /\ \A r \in 1..n + 1 : r \in 1..n \/ r = n + 1
  BY <1>1, <1>2
<1>4. \A r \in 1..n + 1 : o[r] \in S
  <2>1. \A r \in 1..n : origin[r] \in S
    BY <1>1, <1>2, <1>3 DEF MadeOf
  <2>2. m \in S
    BY <1>1
  <2> QED
    BY <1>3, <2>1, <2>2
<1>5. o \in [1..n + 1 -> S]
  BY <1>4
<1> HIDE DEF o, S
<1>6. ASSUME NEW r \in 1..n + 1, NEW q \in 1..n + 1, o[r] = o[q] PROVE r = q
  <2>1. \A k \in 1..n : o[k] \in Nat /\ o[k] < m
    BY <1>1, <1>3
  <2>2. \A j, k \in 1..n : j < k => o[j] < o[k]
    BY <1>1, <1>2, <1>3 DEF MadeOf
  <2>3. CASE r \in 1..n /\ q \in 1..n
    <3>1. r < q \/ q < r \/ r = q
      BY <1>1, <2>3
    <3> QED
      BY <1>6, <2>1, <2>2, <2>3, <3>1
  <2>4. CASE r = n + 1 \/ q = n + 1
    BY <1>1, <1>3, <1>6, <2>1, <2>4
  <2> QED
    BY <1>3, <2>3, <2>4
<1>7. o \in Injection(1..n + 1, S)
  BY <1>5, <1>6 DEF Injection, IsInjective
<1>8. IsFiniteSet(S)
  <2>1. IsFiniteSet(1..Len(file)) /\ S \in SUBSET (1..Len(file))
    BY <1>1, FS_Interval DEF S
  <2> QED
    BY <2>1, FS_Subset
<1>9. Cardinality(1..n + 1) = n + 1
  <2>1. n + 1 \in Int /\ ~(1 > n + 1) /\ n + 1 - 1 + 1 = n + 1
    BY <1>1
  <2> QED
    BY <2>1, FS_Interval
<1>10. Cardinality(S) \in Nat /\ n + 1 <= Cardinality(S)
  BY <1>7, <1>8, <1>9, FS_Injection, FS_CardinalityType
<1>11. Cardinality(S) > MAX_CONFIGS
  BY <1>1, <1>10
<1> QED
  BY <1>11 DEF S, TooMany

LEMMA RulesSoFarNext ==
  ASSUME DaemonTypeOK, RulesSoFar, [DaemonNext]_allVars
  PROVE  RulesSoFar'
<1>1. ASSUME UNCHANGED <<configs, file>>, Lines' = Lines,
             stage # "overrun", stage' # "overrun"
      PROVE  RulesSoFar'
  <2>1. \A o : MadeOf(o, Lines)' <=> MadeOf(o, Lines)
    BY <1>1 DEF MadeOf, Rule
  <2>2. Rule' = Rule
    BY <1>1 DEF Rule
  <2> QED
    BY <1>1, <2>1, <2>2 DEF RulesSoFar
<1>2. CASE Begin
  BY <1>1, <1>2 DEF Begin, Enter, Exit, loopOnly, Lines
<1>3. CASE ParseLine
  <2>1. PICK e \in ErrnoAfter(file[next]) :
          \/ /\ Accepted(file[next], e)
             /\ configs' = Append(configs, RuleOf(file[next]))
          \/ ~Accepted(file[next], e) /\ configs' = configs
    BY <1>3 DEF ParseLine
  <2>2. /\ e \in {"EINVAL", "other"} /\ stage = "parse" /\ next <= Len(file)
        /\ UNCHANGED <<stage, file>> /\ next' = next + 1
        /\ next \in Nat \ {0} /\ file[next] \in Line
    BY <1>3 DEF ParseLine, loopOnly, ErrnoAfter, DaemonTypeOK
  <2>3. CASE Accepted(file[next], e) /\ configs' = Append(configs, RuleOf(file[next]))
    BY <2>2, <2>3, LineAdded
  <2>4. CASE ~Accepted(file[next], e) /\ configs' = configs
    <3>1. PICK m : m = next
      OBVIOUS
    <3>2. PICK origin \in [Rule -> 1..m - 1] : MadeOf(origin, m - 1)
      BY <2>2, <3>1 DEF RulesSoFar, Lines
    <3>3. ~(WellFormed(file[m]) /\ file[m].code # KEY_RESERVED)
      BY <2>2, <2>4, <3>1, LineTaken
    <3>4. m \in Nat /\ \A i \in 1..m : i \in 1..m - 1 \/ i = m
      BY <2>2, <3>1
    <3>5. MadeOf(origin, m)' /\ Rule' = Rule
      BY <2>2, <2>4, <3>2, <3>3, <3>4 DEF MadeOf, Rule
    <3>6. origin \in [Rule' -> 1..m] /\ Lines' = m
      BY <2>2, <3>1, <3>2, <3>4, <3>5 DEF Lines
    <3> QED
      BY <2>2, <3>5, <3>6 DEF RulesSoFar
  <2> QED
    BY <2>1, <2>3, <2>4
<1>4. CASE Overrun
  <2>1. Acceptable(file[next])
    BY <1>4 DEF Overrun, ErrnoAfter, Acceptable, DaemonTypeOK
  <2>2. TooMany
    BY <1>4, <2>1, OverrunExplained DEF Overrun
  <2> QED
    BY <1>4, <2>2 DEF Overrun, loopOnly, RulesSoFar, TooMany
<1>5. CASE Parsed
  <2>1. /\ stage = "parse" /\ next \in Nat /\ Len(file) \in Nat
        /\ next > Len(file) /\ next <= Len(file) + 1
    BY <1>5 DEF Parsed, DaemonTypeOK
  <2>2. Lines = Len(file)
    BY <2>1 DEF Lines
  <2> QED
    BY <1>1, <1>5, <2>1, <2>2 DEF Parsed, Enter, Exit, loopOnly, Lines
<1>6. CASE open_device
  BY <1>1, <1>6 DEF open_device, loopOnly, Lines
<1>7. CASE DevicesOpened
  BY <1>1, <1>7 DEF DevicesOpened, Enter, Exit, loopOnly, Lines
<1>8. CASE ~StartStep
  <2>1. UNCHANGED startVars
    BY <1>8, OtherSteps
  <2>2. UNCHANGED configs
    BY <1>8 DEF DaemonNext, InLoop, Signal, Input, Hardware, Terminated,
       signal_handler, allVars, vars, LoopStep, LoopTest, PollReturns,
       ReadDevice, ReadsDone, CheckTimeouts, PollFails, Tick
  <2>3. CASE stage = "overrun"
    BY <2>1, <2>2, <2>3 DEF startVars, RulesSoFar, TooMany
  <2> QED
    BY <1>1, <2>1, <2>2, <2>3 DEF startVars, Lines
<1> QED
  BY <1>2, <1>3, <1>4, <1>5, <1>6, <1>7, <1>8 DEF StartStep

\* The rules that can match are the well-formed lines of the file in their
\* order, for every file, whatever errno says when a line is parsed; only a
\* file with more rules than the arrays have places overruns them.
THEOREM RulesOfFileHolds == DaemonSpec => []RulesOfFile
<1>1. DaemonInit => RulesSoFar
  <2> SUFFICES ASSUME DaemonInit PROVE RulesSoFar
    OBVIOUS
  <2>1. Rule = {} /\ Lines = 0 /\ stage = "start"
    BY DEF DaemonInit, Rule, Lines
  <2>2. PICK o : o \in [Rule -> 1..Lines]
    <3>1. [x \in {} |-> x] \in [{} -> 1..Lines]
      OBVIOUS
    <3> QED
      BY <2>1, <3>1
  <2>3. MadeOf(o, Lines)
    BY <2>1 DEF MadeOf
  <2> QED
    BY <2>1, <2>2, <2>3 DEF RulesSoFar
<1>2. DaemonTypeOK /\ RulesSoFar => RulesOfFile
  BY DEF DaemonTypeOK, RulesSoFar, RulesOfFile, Lines, TooMany
<1>3. QED
  BY InitDaemonType, DaemonType, <1>1, RulesSoFarNext, <1>2, PTL DEF DaemonSpec

=============================================================================
