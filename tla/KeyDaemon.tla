----------------------------- MODULE KeyDaemon -----------------------------
(***************************************************************************)
(* The whole of key_listener/jni/keylistener.c: main reads the rules from  *)
(* the file, opens the devices they name and enters the event loop, which  *)
(* is KeyListener.  Until then nobody reads the devices that are open      *)
(* already: their events wait in the buffers of Evdev.                     *)
(*                                                                         *)
(* A line of the file is what sscanf makes of it: the number of words, the *)
(* device, the key code (NoDigits if the word has no hexadecimal digits),  *)
(* the trigger word and the time.  Comments and blank lines have no words. *)
(* Time before the loop is left out: only differences of times are used,   *)
(* and the first one is taken in the loop.  ConfigSet is not used here.    *)
(***************************************************************************)
EXTENDS KeyListener

CONSTANTS
  Files,        \* the contents of key_config.txt
  MAX_DEVICES   \* 16 in the code

KEY_RESERVED == 0   \* the key code that no key has
NoDigits == -1      \* the key code of a word without hexadecimal digits
TriggerOf == [press |-> "TRIGGER_PRESS", release |-> "TRIGGER_RELEASE",
              long_press |-> "TRIGGER_LONG_PRESS"]
Line == [words : 0..5, device : Path, code : Key \cup {NoDigits},
         trigger : DOMAIN TriggerOf \cup {"junk"}, ms : Int]

ASSUME DaemonAssumption ==
  /\ KEY_RESERVED \in Key
  /\ Files \subseteq Seq(Line)
  /\ MAX_DEVICES \in Nat

VARIABLES
  stage,    \* how far main has come
  file,     \* the lines of the file
  next,     \* the next line to parse, then the next rule to open
  errno,    \* does it say EINVAL, whoever has set it?
  refused   \* history: the paths whose open has failed

startVars == <<stage, file, next, errno, refused>>
allVars == <<vars, startVars>>

DaemonTypeOK ==
  /\ TypeOK
  /\ stage \in {"start", "parse", "open", "run", "overrun"}
  /\ file \in Seq(Line)
  /\ next \in 1..(IF stage \in {"open", "run"} THEN Len(configs)
                  ELSE Len(file)) + 1
  /\ errno \in {"EINVAL", "other"}
  /\ refused \subseteq Path
  /\ Len(configs) <= MAX_CONFIGS

\* Keys of devices that the file does not name do not matter.
DaemonInit ==
  /\ file \in Files
  /\ EvdevInit
  /\ \A p \in Path : KEY_RESERVED \notin down[p]
  /\ \A p \in Path : down[p] # {} => \E i \in DOMAIN file : file[i].device = p
  /\ configs = <<>> /\ devices = <<>> /\ states = <<>> /\ launches = <<>>
  /\ world \in Worlds
  /\ should_exit = FALSE
  /\ pc = "loop" /\ revents = {} /\ pollStart = 0 /\ clock = 0
  /\ stage = "start"
  /\ next = 1
  /\ errno \in {"EINVAL", "other"}
  /\ refused = {}

-----------------------------------------------------------------------------
(* parse_config.                                                           *)

KeyCode(l) == IF l.code = NoDigits THEN KEY_RESERVED ELSE l.code

\* strtol may set EINVAL when it finds no digits; no C library has to, and
\* none clears errno.
ErrnoAfter(l) ==
  IF l.words >= 4 /\ l.code = NoDigits THEN {errno, "EINVAL"} ELSE {errno}

\* Mutant of CodeRefused: only errno is looked at.
CodeRefused_Errno(l, e) == e = "EINVAL"
CodeRefused(l, e) == KeyCode(l) = KEY_RESERVED /\ e = "EINVAL"

Accepted(l, e) ==
  /\ l.words >= 4
  /\ ~CodeRefused(l, e)
  /\ l.trigger \in DOMAIN TriggerOf
  /\ l.trigger = "long_press" => l.words = 5

RuleOf(l) == [device_path |-> l.device, keycode |-> KeyCode(l),
              trigger |-> TriggerOf[l.trigger],
              long_press_ms |-> IF l.words = 5 THEN l.ms ELSE 0]

Idle == [active |-> FALSE, press_time |-> 0, long_triggered |-> FALSE]

\* Nothing of this changes before the loop, except by the world outside.
loopOnly == <<world, should_exit, revents, pollStart, clock, evdevVars, file>>

\* One line.  Reporting it may set errno to something else.
ParseLine ==
  /\ stage = "parse" /\ next <= Len(file)
  /\ \E e \in ErrnoAfter(file[next]) :
       /\ errno' \in {e, "other"}
       /\ \/ /\ Accepted(file[next], e)
             /\ Len(configs) < MAX_CONFIGS
             /\ configs' = Append(configs, RuleOf(file[next]))
             /\ states' = Append(states, Idle)
             /\ launches' = Append(launches, 0)
          \/ /\ ~Accepted(file[next], e)
             /\ UNCHANGED <<configs, states, launches>>
  /\ next' = next + 1
  /\ UNCHANGED <<devices, pc, stage, refused, loopOnly>>

\* A rule too many is written past the end of configs and states: from there
\* on the program is undefined, and the model ends.
Overrun ==
  /\ stage = "parse" /\ next <= Len(file)
  /\ \E e \in ErrnoAfter(file[next]) : Accepted(file[next], e)
  /\ Len(configs) >= MAX_CONFIGS
  /\ stage' = "overrun" /\ pc' = "done"
  /\ UNCHANGED <<configs, devices, states, launches, next, errno, refused,
                 loopOnly>>

-----------------------------------------------------------------------------
(* main.                                                                   *)

Exit == pc' = "done" /\ UNCHANGED stage
Enter(s) == stage' = s /\ UNCHANGED pc

\* getuid and fopen.  No handler is installed yet: a signal kills.
Begin ==
  /\ stage = "start"
  /\ Enter("parse") \/ Exit
  /\ UNCHANGED <<configs, devices, states, launches, next, errno, refused,
                 loopOnly>>

\* Mutant of FirstRule: the index of the loop before is not reset.
FirstRule_Carried == next
FirstRule == 1

\* The end of the file; without a rule main gives up.  Nobody looks at errno
\* from here on.
Parsed ==
  /\ stage = "parse" /\ next > Len(file)
  /\ IF configs = <<>> THEN Exit /\ UNCHANGED next
                       ELSE Enter("open") /\ next' = FirstRule
  /\ errno' = "other"
  /\ UNCHANGED <<configs, devices, states, launches, refused, loopOnly>>

\* Mutants: every rule opens its device; the last place of the table is left
\* free.
AlreadyOpen_Never(p) == FALSE
HasRoom_Less == Len(devices) < MAX_DEVICES - 1

AlreadyOpen(p) == Opened(p)
HasRoom == Len(devices) < MAX_DEVICES

\* The device of the next rule.  Any open can fail; that of a device that has
\* been unplugged is one of them.
open_device ==
  /\ stage = "open" /\ next <= Len(configs)
  /\ LET path == Dev(next)
     IN  \/ /\ AlreadyOpen(path) \/ ~HasRoom
            /\ UNCHANGED <<devices, refused>>
         \/ /\ ~AlreadyOpen(path) /\ HasRoom
            /\ \/ devices' = Append(devices, path) /\ UNCHANGED refused
               \/ refused' = refused \cup {path} /\ UNCHANGED devices
  /\ next' = next + 1
  /\ UNCHANGED <<configs, states, launches, pc, stage, errno, loopOnly>>

\* Without a device main gives up; malloc may fail too.
DevicesOpened ==
  /\ stage = "open" /\ next > Len(configs)
  /\ Exit \/ (devices # <<>> /\ Enter("run"))
  /\ UNCHANGED <<configs, devices, states, launches, next, errno, refused,
                 loopOnly>>

StartStep == /\ pc # "done"
             /\ \/ Begin \/ ParseLine \/ Overrun \/ Parsed
                \/ open_device \/ DevicesOpened

-----------------------------------------------------------------------------
(* The world around it: no key has the reserved code.                      *)
Input == Hardware /\ \A p \in Path : KEY_RESERVED \notin down'[p]

InLoop == stage = "run" /\ (LoopStep \/ PollFails \/ Tick)
Signal == stage \in {"parse", "open", "run"} /\ signal_handler

DaemonNext ==
  \/ StartStep
  \/ (InLoop \/ Signal \/ Input \/ Terminated) /\ UNCHANGED startVars

DaemonSpec == DaemonInit /\ [][DaemonNext]_allVars

(* As in KeyListener: the daemon is scheduled and its clock ticks.         *)
Daemon == StartStep \/ (stage = "run" /\ LoopStep /\ UNCHANGED startVars)
Clock == stage = "run" /\ Tick /\ UNCHANGED startVars
FairDaemonSpec == DaemonSpec /\ WF_allVars(Daemon) /\ SF_allVars(Clock)

-----------------------------------------------------------------------------
(* Safety.                                                                 *)

\* "device, key code, trigger, script [time]", a long_press with its time: a
\* line that keeps to the format on its own.
WellFormed(l) == /\ l.words >= 4
                 /\ l.code # NoDigits
                 /\ l.trigger \in DOMAIN TriggerOf
                 /\ l.trigger = "long_press" => l.words = 5

\* A line that is taken for a rule in one of the two cases.
Acceptable(l) == \E e \in {"EINVAL", "other"} : Accepted(l, e)

\* Rule r was made of line origin[r]; of the first n lines none that is well
\* formed and names a key is missing.
MadeOf(origin, n) ==
  /\ \A r, q \in Rule : r < q => origin[r] < origin[q]
  /\ \A r \in Rule :
       /\ Acceptable(file[origin[r]])
       /\ configs[r] = RuleOf(file[origin[r]])
       /\ configs[r].keycode # KEY_RESERVED => WellFormed(file[origin[r]])
  /\ \A i \in 1..n : WellFormed(file[i]) /\ file[i].code # KEY_RESERVED =>
                       \E r \in Rule : origin[r] = i

\* The rules that can match a key are the well-formed lines of the file, each
\* once and in their order: no line before changes, through errno or
\* otherwise, what becomes of a line.  Only a file with too many rules
\* overruns the arrays.
RulesOfFile ==
  /\ stage \in {"open", "run"} =>
       \E origin \in [Rule -> DOMAIN file] : MadeOf(origin, Len(file))
  /\ stage = "overrun" =>
       Cardinality({i \in DOMAIN file : Acceptable(file[i])}) > MAX_CONFIGS

\* A rule whose device is not open has met a failing open or a full table.
DeadRulesExplained ==
  stage = "run" =>
    \A r \in Rule : \/ Opened(Dev(r))
                    \/ Dev(r) \in refused
                    \/ Len(devices) = MAX_DEVICES

\* The loop is entered in a state that KeyListener starts from, with every
\* rule idle: each open device is in the table once, in the order of the
\* rules.  What has come in meanwhile waits in the buffers.
LoopEntry ==
  /\ configs \in Seq(KeyConfig) /\ Len(configs) \in 1..MAX_CONFIGS
  /\ devices \in DeviceTables(configs)
  /\ states = [r \in Rule |-> Idle]
  /\ launches = [r \in Rule |-> 0]
  /\ pc = "loop" /\ revents = {} /\ pollStart = 0 /\ clock = 0

HandsOver == [][stage # "run" /\ stage' = "run" => LoopEntry']_allVars

=============================================================================
