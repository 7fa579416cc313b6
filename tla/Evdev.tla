------------------------------- MODULE Evdev -------------------------------
(***************************************************************************)
(* The part of the kernel that keylistener.c talks to: input devices with  *)
(* keys, and the client buffer of each device the daemon has open.  It is  *)
(* not code of this repository; it is modelled from how keylistener.c uses *)
(* it (open, poll, read of one struct input_event, the EV_KEY test).       *)
(*                                                                         *)
(* A buffer holds at most QueueCap events.  When one more arrives the      *)
(* kernel forgets what is unread and leaves a SYN_DROPPED marker followed  *)
(* by the newest event.  SYN_REPORT and MSC events, which the daemon reads *)
(* and skips one by one, are left out; the marker stands for the events    *)
(* whose type is not EV_KEY.                                               *)
(***************************************************************************)
EXTENDS Integers, Sequences

CONSTANTS
  Path,         \* paths of input devices
  Key,          \* the key codes of interest
  QueueCap,     \* events an unread client buffer can hold
  Unpluggable,  \* whether devices can disappear
  MaxEvents     \* bound on the number of key events

ASSUME EvdevAssumption ==
  /\ Key \subseteq Nat
  /\ QueueCap \in Nat \ {0, 1}
  /\ MaxEvents \in Nat
  /\ Unpluggable \in BOOLEAN

VARIABLES
  queue,    \* [Path -> Seq(Event)], unread events
  down,     \* [Path -> SUBSET Key], the keys physically held
  plugged,  \* the devices that exist
  lost,     \* history: devices that ever dropped events or were unplugged
  typed,    \* history: [Path -> [Key -> Nat]], how often each key went down
  produced  \* number of key events so far, for the bound

evdevVars == <<queue, down, plugged, lost, typed, produced>>

KeyEvent == [type : {"EV_KEY"}, code : Key, value : {0, 1, 2}]
SynDropped == [type |-> "EV_SYN", code |-> 3, value |-> 0]
Event == KeyEvent \cup {SynDropped}

PressOf(k)   == [type |-> "EV_KEY", code |-> k, value |-> 1]
ReleaseOf(k) == [type |-> "EV_KEY", code |-> k, value |-> 0]
RepeatOf(k)  == [type |-> "EV_KEY", code |-> k, value |-> 2]

EvdevTypeOK ==
  /\ queue \in [Path -> Seq(Event)]
  /\ down \in [Path -> SUBSET Key]
  /\ plugged \subseteq Path
  /\ lost \subseteq Path
  /\ typed \in [Path -> [Key -> Nat]]
  /\ produced \in Nat

\* The daemon may start while keys are held.
EvdevInit ==
  /\ queue = [p \in Path |-> <<>>]
  /\ down \in [Path -> SUBSET Key]
  /\ plugged = Path
  /\ lost = {}
  /\ typed = [p \in Path |-> [k \in Key |-> 0]]
  /\ produced = 0

\* Append e to the client buffer of p.
Deliver(p, e) ==
  /\ p \in plugged
  /\ produced < MaxEvents
  /\ produced' = produced + 1
  /\ \/ /\ Len(queue[p]) < QueueCap
        /\ queue' = [queue EXCEPT ![p] = Append(@, e)]
        /\ UNCHANGED lost
     \/ /\ Len(queue[p]) >= QueueCap
        /\ queue' = [queue EXCEPT ![p] = <<SynDropped, e>>]
        /\ lost' = lost \cup {p}
  /\ UNCHANGED plugged

KeyDown(p, k) ==
  /\ k \notin down[p]
  /\ down' = [down EXCEPT ![p] = @ \cup {k}]
  /\ typed' = [typed EXCEPT ![p][k] = @ + 1]
  /\ Deliver(p, PressOf(k))

KeyUp(p, k) ==
  /\ k \in down[p]
  /\ down' = [down EXCEPT ![p] = @ \ {k}]
  /\ Deliver(p, ReleaseOf(k))
  /\ UNCHANGED typed

KeyRepeat(p, k) ==
  /\ k \in down[p]
  /\ Deliver(p, RepeatOf(k))
  /\ UNCHANGED <<down, typed>>

\* From now on poll reports POLLHUP and read fails with ENODEV.
Unplug(p) ==
  /\ Unpluggable
  /\ p \in plugged
  /\ plugged' = plugged \ {p}
  /\ lost' = lost \cup {p}
  /\ down' = [down EXCEPT ![p] = {}]
  /\ UNCHANGED <<queue, typed, produced>>

\* read() of one event.
ReadEvent(p) ==
  /\ queue[p] # <<>>
  /\ queue' = [queue EXCEPT ![p] = Tail(@)]
  /\ UNCHANGED <<down, plugged, lost, typed, produced>>

=============================================================================
