---------------------------- MODULE KeyListener ----------------------------
(***************************************************************************)
(* The event loop of key_listener/jni/keylistener.c: poll the open input   *)
(* devices, handle at most one event per readable device, then look for    *)
(* long presses whose time has come, until a signal asks to stop.          *)
(*                                                                         *)
(* configs and devices are what parse_config and open_device left behind.  *)
(* Rules are the indices of configs, device i is devices[i] and its file   *)
(* descriptor is i.  The script a rule runs is identified with the rule.   *)
(***************************************************************************)
EXTENDS Integers, Sequences, FiniteSets, CTime, Evdev

CONSTANTS
  MAX_CONFIGS,      \* 64 in the code
  ConfigSet,        \* the rule arrays to start from
  POLL_TIMEOUT_MS,  \* 100 in the code
  Worlds,           \* what the system around the daemon may be like
  MaxClock          \* bound on the clock, in ticks

VARIABLES
  configs,      \* the rules, never changed by the loop
  devices,      \* the paths of the open devices, never changed by the loop
  world,        \* the system around the daemon, never changed at all
  states,       \* run-time state of each rule
  should_exit,  \* set by the signal handler
  pc,           \* where the loop is
  revents,      \* devices reported POLLIN by poll and not yet read
  pollStart,    \* when poll was entered
  clock,        \* CLOCK_MONOTONIC
  launches      \* history: scripts forked for each rule

loopVars == <<states, should_exit, pc, revents, pollStart, clock, launches>>
vars == <<configs, devices, world, loopVars, evdevVars>>

Trigger == {"TRIGGER_PRESS", "TRIGGER_RELEASE", "TRIGGER_LONG_PRESS"}
KeyConfig == [device_path : Path, keycode : Key, trigger : Trigger,
              long_press_ms : Int]
KeyState == [active : BOOLEAN, press_time : Nat, long_triggered : BOOLEAN]

\* prompt: time passes only while the daemon sleeps in poll, it is never kept
\* from running; forkFails: fork() can return -1.
World == [prompt : BOOLEAN, forkFails : BOOLEAN]

Rule == DOMAIN configs
IsLong(r) == configs[r].trigger = "TRIGGER_LONG_PRESS"
Dev(r) == configs[r].device_path
Code(r) == configs[r].keycode
Opened(p) == \E i \in DOMAIN devices : devices[i] = p

ListenerAssumption ==
  /\ MAX_CONFIGS \in Nat
  /\ \A c \in ConfigSet : c \in Seq(KeyConfig) /\ Len(c) <= MAX_CONFIGS
  /\ POLL_TIMEOUT_MS \in Nat \ {0}
  /\ MaxClock \in Nat
  /\ Worlds \subseteq World
ASSUME ListenerAssumption

TypeOK ==
  /\ EvdevTypeOK
  /\ configs \in Seq(KeyConfig)
  /\ devices \in Seq(Path)
  /\ world \in World
  /\ states \in [Rule -> KeyState]
  /\ should_exit \in BOOLEAN
  /\ pc \in {"loop", "poll", "read", "check", "done"}
  /\ revents \subseteq DOMAIN devices
  /\ pollStart \in Nat
  /\ clock \in Nat
  /\ launches \in [Rule -> Nat]

-----------------------------------------------------------------------------
(* main opens the path of every rule in turn, unless it is open already;   *)
(* an open that fails leaves it to a later rule with that path to try.     *)
DeviceTables(c) ==
  {d \in UNION {[1..n -> Path] : n \in 1..Len(c)} :
     \E f \in [DOMAIN d -> DOMAIN c] :
        \A i, j \in DOMAIN d : /\ d[i] = c[f[i]].device_path
                               /\ i < j => f[i] < f[j] /\ d[i] # d[j]}

Init ==
  /\ EvdevInit
  /\ configs \in ConfigSet
  /\ devices \in DeviceTables(configs)
  /\ world \in Worlds
  /\ states = [r \in Rule |-> [active |-> FALSE, press_time |-> 0,
                               long_triggered |-> FALSE]]
  /\ should_exit \in BOOLEAN
  /\ pc = "loop"
  /\ revents = {}
  /\ pollStart = 0
  /\ clock = 0
  /\ launches = [r \in Rule |-> 0]

-----------------------------------------------------------------------------
(* execute_script for each rule of F: a fork that fails is only reported.  *)
execute_script(F) ==
  \E ok \in IF world.forkFails THEN SUBSET F ELSE {F} :
    launches' = [r \in Rule |-> IF r \in ok THEN launches[r] + 1
                                            ELSE launches[r]]

\* The threshold test, on the clock as it is when the test is made.
LongEnough(r) ==
  ElapsedMs(clock, states[r].press_time) >= configs[r].long_press_ms

-----------------------------------------------------------------------------
(* process_event, for an event ev read from device i.                      *)
\* Mutant of Matches: the device of the event is not looked at.
Matches_AnyDevice(r, ev, i) == ev.type = "EV_KEY" /\ Code(r) = ev.code

Matches(r, ev, i) ==
  /\ ev.type = "EV_KEY"
  /\ Dev(r) = devices[i]
  /\ Code(r) = ev.code

Armed == [active |-> TRUE, press_time |-> clock, long_triggered |-> FALSE]

\* Mutant of Disarmed: the press time is marked as unknown.
Disarmed_NoTime(s) ==
  [s EXCEPT !.active = FALSE, !.long_triggered = FALSE, !.press_time = -1]

\* Mutant of Disarmed: the rule is left armed when its key is released.
Disarmed_StaysArmed(s) == [s EXCEPT !.long_triggered = FALSE]

Disarmed(s) == [s EXCEPT !.active = FALSE, !.long_triggered = FALSE]

\* Mutant of StateAfter: the release of a key whose script has run already
\* does not disarm the rule.
StateAfter_StaysFired(r, ev) ==
  IF IsLong(r) /\ ev.value = 1 THEN Armed
  ELSE IF /\ IsLong(r) /\ ev.value = 0
          /\ states[r].active /\ ~states[r].long_triggered
       THEN Disarmed(states[r])
  ELSE states[r]

\* The state of rule r after a matching event.
StateAfter(r, ev) ==
  IF ~IsLong(r) THEN states[r]
  ELSE IF ev.value = 1 THEN Armed
  ELSE IF ev.value = 0 /\ states[r].active THEN Disarmed(states[r])
  ELSE states[r]

\* Mutant of FiresOn: a release does not look at long_triggered.
FiresOn_Again(r, ev) ==
  \/ configs[r].trigger = "TRIGGER_PRESS" /\ ev.value = 1
  \/ configs[r].trigger = "TRIGGER_RELEASE" /\ ev.value = 0
  \/ IsLong(r) /\ ev.value = 0 /\ states[r].active /\ LongEnough(r)

\* Does a matching event make rule r run its script?
FiresOn(r, ev) ==
  \/ configs[r].trigger = "TRIGGER_PRESS" /\ ev.value = 1
  \/ configs[r].trigger = "TRIGGER_RELEASE" /\ ev.value = 0
  \/ /\ IsLong(r)
     /\ ev.value = 0
     /\ states[r].active
     /\ ~states[r].long_triggered
     /\ LongEnough(r)

process_event(ev, i) ==
  /\ states' = [r \in Rule |-> IF Matches(r, ev, i) THEN StateAfter(r, ev)
                                                    ELSE states[r]]
  /\ execute_script({r \in Rule : Matches(r, ev, i) /\ FiresOn(r, ev)})

\* Mutant of Due: long presses are looked for only at the release.
Due_None == {}

(* check_long_press_timeouts: the rules still armed whose time has come.   *)
Due == {r \in Rule : /\ IsLong(r)
                     /\ states[r].active
                     /\ ~states[r].long_triggered
                     /\ LongEnough(r)}

check_long_press_timeouts ==
  /\ states' = [r \in Rule |-> IF r \in Due
                               THEN [states[r] EXCEPT !.long_triggered = TRUE]
                               ELSE states[r]]
  /\ execute_script(Due)

-----------------------------------------------------------------------------
(* The loop.                                                               *)
\* Mutant of Readable: only the first device that has something is reported.
Readable_First ==
  {i \in DOMAIN devices : /\ queue[devices[i]] # <<>>
                          /\ \A j \in 1..i - 1 : queue[devices[j]] = <<>>}

Readable == {i \in DOMAIN devices : queue[devices[i]] # <<>>}
HungUp == {i \in DOMAIN devices : devices[i] \notin plugged}
\* Mutant of TimedOut: poll waits for ever.
TimedOut_Never == clock >= MaxClock

\* At the end of the modelled time a timeout is immediate.
TimedOut == \/ clock >= pollStart + POLL_TIMEOUT_MS * NS_PER_MS
            \/ clock >= MaxClock
PollReady == Readable # {} \/ HungUp # {} \/ TimedOut

\* Mutant of Continue: while (1).
Continue_Always == TRUE

\* while (!should_exit)
Continue == ~should_exit

\* Leaving the loop closes the devices and ends main.
LoopTest ==
  /\ pc = "loop"
  /\ \/ /\ ~Continue
        /\ pc' = "done"
        /\ UNCHANGED pollStart
     \/ /\ Continue
        /\ pc' = "poll"
        /\ pollStart' = clock
  /\ UNCHANGED <<configs, devices, world, states, should_exit, revents,
                 clock, launches, evdevVars>>

\* poll returns: revents is a snapshot, later events are not in it.
PollReturns ==
  /\ pc = "poll"
  /\ PollReady
  /\ revents' = Readable
  /\ pc' = "read"
  /\ UNCHANGED <<configs, devices, world, states, should_exit, pollStart,
                 clock, launches, evdevVars>>

\* poll fails with an error other than EINTR: the loop is left.
PollFails ==
  /\ pc = "poll"
  /\ pc' = "done"
  /\ UNCHANGED <<configs, devices, world, states, should_exit, revents,
                 pollStart, clock, launches, evdevVars>>

\* One read from the next reported device, and the handling of its event.
ReadDevice(i) ==
  /\ pc = "read"
  /\ i \in revents
  /\ \A j \in revents : i <= j
  /\ revents' = revents \ {i}
  /\ \/ /\ devices[i] \in plugged
        /\ ReadEvent(devices[i])
        /\ process_event(Head(queue[devices[i]]), i)
     \/ /\ devices[i] \notin plugged
        /\ UNCHANGED <<states, launches, evdevVars>>
  /\ UNCHANGED <<configs, devices, world, should_exit, pc, pollStart, clock>>

ReadsDone ==
  /\ pc = "read"
  /\ revents = {}
  /\ pc' = "check"
  /\ UNCHANGED <<configs, devices, world, states, should_exit, revents,
                 pollStart, clock, launches, evdevVars>>

CheckTimeouts ==
  /\ pc = "check"
  /\ check_long_press_timeouts
  /\ pc' = "loop"
  /\ UNCHANGED <<configs, devices, world, should_exit, revents, pollStart,
                 clock, evdevVars>>

(* SIGINT or SIGTERM.  A signal that finds the daemon asleep in poll makes *)
(* it return EINTR; one that comes just before the call, or when poll has  *)
(* something to return, does not.                                          *)
signal_handler ==
  /\ pc # "done"
  /\ should_exit' = TRUE
  /\ \/ UNCHANGED pc
     \/ pc = "poll" /\ pc' = "loop"
  /\ UNCHANGED <<configs, devices, world, states, revents, pollStart,
                 clock, launches, evdevVars>>

LoopStep ==
  \/ LoopTest
  \/ PollReturns
  \/ \E i \in DOMAIN devices : ReadDevice(i)
  \/ ReadsDone
  \/ CheckTimeouts

-----------------------------------------------------------------------------
(* The world around the daemon.                                            *)
Tick ==
  /\ pc # "done"
  /\ clock < MaxClock
  /\ world.prompt => /\ pc = "poll"
                     /\ \A i \in Readable : devices[i] \notin plugged
                     /\ ~TimedOut
  /\ clock' = clock + 1
  /\ UNCHANGED <<configs, devices, world, states, should_exit, pc, revents,
                 pollStart, launches, evdevVars>>

Hardware ==
  /\ pc # "done"
  /\ \E p \in Path :
       /\ Opened(p)
       /\ \/ \E k \in Key : KeyDown(p, k) \/ KeyUp(p, k) \/ KeyRepeat(p, k)
          \/ Unplug(p)
  /\ UNCHANGED <<configs, devices, world, loopVars>>

Terminated == pc = "done" /\ UNCHANGED vars

Next ==
  \/ LoopStep
  \/ PollFails
  \/ signal_handler
  \/ Tick
  \/ Hardware
  \/ Terminated

Spec == Init /\ [][Next]_vars

(* The scheduler keeps running the daemon and the clock keeps ticking; in  *)
(* a prompt world it does so in poll only, which the daemon enters again   *)
(* and again, hence SF.  Nobody has to press a key, send a signal or make  *)
(* poll fail.                                                              *)
FairSpec == Spec /\ WF_vars(LoopStep) /\ SF_vars(Tick)

-----------------------------------------------------------------------------
(* Safety.                                                                 *)

ReleasePending(p, k, after) ==
  \E j \in DOMAIN queue[p] : j > after /\ queue[p][j] = ReleaseOf(k)

\* A long_press rule is armed only while its key is held or the release is
\* still to be read, on every device whose events have all been delivered:
\* the daemon never waits for a release that cannot come.
ArmedMeansHeld ==
  \A r \in Rule :
    IsLong(r) /\ states[r].active /\ Dev(r) \notin lost
      => Code(r) \in down[Dev(r)] \/ ReleasePending(Dev(r), Code(r), 0)

\* The invariant ArmedMeansHeld needs: an unread press is followed by its
\* release, or its key is still held.
PressesClosed ==
  \A p \in Path \ lost : \A j \in DOMAIN queue[p], k \in Key :
    queue[p][j] = PressOf(k) => k \in down[p] \/ ReleasePending(p, k, j)

\* The comment on KeyState.active: "whether the key is being pressed now".
\* It is read once the daemon has caught up with every event of the device.
ActiveMeansPressed ==
  \A r \in Rule :
    states[r].active /\ Dev(r) \in plugged /\ queue[Dev(r)] = <<>>
      => Code(r) \in down[Dev(r)]

Pending(p, e) == Cardinality({j \in DOMAIN queue[p] : queue[p][j] = e})

\* Every time a key goes down it is worth one launch of each press rule on it,
\* and at most one of each long_press rule: a launch made, an armed rule and an
\* unread press are never counted twice.  A press rule misses none unless
\* events were lost or a fork failed.
LaunchesAccounted ==
  \A r \in Rule : Opened(Dev(r)) =>
    LET due == Pending(Dev(r), PressOf(Code(r)))
        presses == typed[Dev(r)][Code(r)]
        armed == IF states[r].active /\ ~states[r].long_triggered
                 THEN 1 ELSE 0
    IN /\ IsLong(r) => launches[r] + armed + due <= presses
       /\ configs[r].trigger = "TRIGGER_PRESS" =>
            /\ launches[r] + due <= presses
            /\ Dev(r) \notin lost /\ ~world.forkFails
                 => launches[r] + due = presses

\* Has the time of rule r passed since t, up to the millisecond that elapsed_ms
\* can be ahead?
TimeOver(r, t) == clock - t > (configs[r].long_press_ms - 1) * NS_PER_MS

\* A long_press script never runs before its time has passed since its press
\* was read, wherever seconds and milliseconds wrap.  What this says of the
\* key itself, whose press may have been read late, is in KeyHolds.
NotBeforeTime ==
  [][\A r \in Rule : IsLong(r) /\ launches'[r] > launches[r]
       => TimeOver(r, states[r].press_time)]_vars

\* When the daemon is never kept from running, a hold is noticed at most one
\* poll timeout after its time has come, whatever else it reads meanwhile.
LongPressOnTime ==
  \A r \in Rule :
    (/\ world.prompt
     /\ pc # "done"
     /\ IsLong(r)
     /\ configs[r].long_press_ms >= 0
     /\ states[r].active
     /\ ~states[r].long_triggered)
    => clock - states[r].press_time
         <= (configs[r].long_press_ms + POLL_TIMEOUT_MS) * NS_PER_MS

-----------------------------------------------------------------------------
(* The rules implement LongPress; a rule of another kind stays idle.       *)
Phase(r) == IF ~(r \in Rule /\ IsLong(r) /\ states[r].active) THEN "idle"
            ELSE IF states[r].long_triggered THEN "fired" ELSE "held"
Launched(r) == IF r \in Rule /\ IsLong(r) THEN launches[r] ELSE 0

LP == INSTANCE LongPress WITH
        Rules    <- 1..MAX_CONFIGS,
        phase    <- [r \in 1..MAX_CONFIGS |-> Phase(r)],
        launched <- [r \in 1..MAX_CONFIGS |-> Launched(r)]

\* Whatever the other rules, devices and timeouts do, a hold is worth at most
\* one launch, and there is none outside a hold.
ImplementsLongPress == LP!Spec

-----------------------------------------------------------------------------
(* Liveness, under FairSpec.                                               *)

\* SIGINT and SIGTERM end the daemon, also when they arrive between the test
\* of should_exit and poll.
SignalEndsLoop == should_exit ~> (pc = "done")

\* A key that stays down makes its long_press rule fire, whatever else is
\* read meanwhile, as long as the modelled time is long enough.
KeyHeld(r) == /\ r \in Rule /\ IsLong(r) /\ Opened(Dev(r))
              /\ Dev(r) \notin lost
              /\ Code(r) \in down[Dev(r)]
              /\ typed[Dev(r)][Code(r)] > 0
OutOfTime(r) == states[r].active /\ clock = MaxClock /\ ~LongEnough(r)

LongHoldFires ==
  \A r \in 1..MAX_CONFIGS :
    KeyHeld(r) ~> (KeyHeld(r) => \/ states[r].long_triggered
                                 \/ OutOfTime(r)
                                 \/ pc = "done")

\* No open device is starved, also when another one has been unplugged and
\* makes poll return at once for ever.
EventsServed ==
  \A p \in Path :
    (Opened(p) /\ queue[p] # <<>>)
    ~> (queue[p] = <<>> \/ p \notin plugged \/ pc = "done")

=============================================================================
