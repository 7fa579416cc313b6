---------------------------- MODULE TimeControl ----------------------------
(***************************************************************************)
(* time_control/jni/timectl.c: read a weekly schedule from a file, then    *)
(* look at the local time every CHECK_INTERVAL seconds and, inside a slot, *)
(* run a script and wait for it.                                           *)
(*                                                                         *)
(* The local time is the second of the week, counted from Sunday midnight; *)
(* it can be set.  sleep and the script take time of their own.  A word of *)
(* the file is what sscanf makes of it: four integers or junk.  Days are   *)
(* written 1..7 for Mon..Sun, the indices of schedule shifted by one.      *)
(***************************************************************************)
EXTENDS Integers, Sequences, FiniteSets

CONSTANTS
  HOURS, MINS, SECS,  \* per day, hour and minute: 24, 60 and 60
  CHECK_INTERVAL,     \* 20 in the code
  MAX_TIME_SLOTS,     \* 20 in the code
  Files,              \* the configuration files to start from
  SetTo,              \* the local times the clock may be set to
  ForkMayFail,        \* whether fork() can return -1
  Sigchlds            \* the dispositions of SIGCHLD the process may inherit

Days == <<"Mon", "Tue", "Wed", "Thu", "Fri", "Sat", "Sun">>
Numbers == [sh : Int, sm : Int, eh : Int, em : Int]
Word == {"junk"} \X {<<>>} \cup {"slot"} \X Numbers
Line == [day : {Days[d] : d \in 1..7} \cup {"blank", "bad"}, words : Seq(Word)]

ASSUME ScheduleAssumption ==
  /\ HOURS \in Nat \ {0} /\ MINS \in Nat \ {0} /\ SECS \in Nat \ {0}
  /\ CHECK_INTERVAL \in Nat \ {0}
  /\ MAX_TIME_SLOTS \in Nat \ {0}
  /\ \A f \in Files : f \in Seq(Line)
  /\ SetTo \subseteq 0..7 * HOURS * MINS * SECS - 1
  /\ ForkMayFail \in BOOLEAN
  /\ Sigchlds \subseteq {"default", "ignored"}

VARIABLES
  file,        \* the lines of time_config
  sigchld,     \* the inherited disposition of SIGCHLD
  schedule,    \* the slots of each day
  line,        \* the line of the file that is read next
  word,        \* the word of the line that is looked at next
  found,       \* the slots of the line so far
  pc,          \* where the program is
  now,         \* the local time
  read_at,     \* the local time as it was read
  sleep_left,  \* seconds sleep() still has to go
  child,       \* the script: "none", "running", "exited" or "killed"
  report,      \* what was printed of the last script
  unserved     \* history: seconds in a slot without a script, see Tick

parseVars == <<schedule, line, word, found>>
loopVars == <<now, read_at, sleep_left, child, report, unserved>>
vars == <<file, sigchld, parseVars, pc, loopVars>>

DAY == HOURS * MINS * SECS
Instant == 0..7 * DAY - 1

TimeSlot == [sh : 0..HOURS - 1, sm : 0..MINS - 1, eh : 0..HOURS - 1,
             em : 0..MINS - 1]

TypeOK ==
  /\ file \in Seq(Line)
  /\ sigchld \in {"default", "ignored"}
  /\ schedule \in [1..7 -> Seq(TimeSlot)]
  /\ \A d \in 1..7 : Len(schedule[d]) <= MAX_TIME_SLOTS
  /\ line \in 1..Len(file) + 1
  /\ word \in Nat \ {0}
  /\ found \in Seq(TimeSlot) /\ Len(found) <= MAX_TIME_SLOTS
  /\ pc \in {"open", "line", "words", "check", "fork", "wait", "sleep", "failed"}
  /\ now \in Instant
  /\ read_at \in Instant
  /\ sleep_left \in 0..CHECK_INTERVAL
  /\ child \in {"none", "running", "exited", "killed"}
  /\ report \in {"nothing", "exited", "killed"}
  /\ unserved \in Nat

NoSlots == [d \in 1..7 |-> <<>>]

Init ==
  /\ file \in Files
  /\ sigchld \in Sigchlds
  /\ schedule = NoSlots
  /\ line = 1 /\ word = 1 /\ found = <<>>
  /\ pc = "open"
  /\ now \in Instant
  /\ read_at = now
  /\ sleep_left = 0
  /\ child = "none"
  /\ report = "nothing"
  /\ unserved = 0

-----------------------------------------------------------------------------
(* Reading the file.                                                       *)

\* parse_time_slot: four integers in range; start and end are not compared.
parse_time_slot(w) ==
  /\ w[1] = "slot"
  /\ w[2].sh \in 0..HOURS - 1 /\ w[2].sm \in 0..MINS - 1
  /\ w[2].eh \in 0..HOURS - 1 /\ w[2].em \in 0..MINS - 1

OpenFile ==
  /\ pc = "open"
  /\ pc' \in {"line", "failed"}
  /\ UNCHANGED <<file, sigchld, parseVars, loopVars>>

\* Mutant of NoneYet: a line adds to what an earlier line said of its day.
NoneYet_Kept(d) == schedule[d]
NoneYet(d) == <<>>

\* The day of a line; none if it is blank or no day.
DaysOf(l) == {d \in 1..7 : l.day = Days[d]}

ReadLine ==
  /\ pc = "line"
  /\ line <= Len(file)
  /\ \/ /\ \E d \in DaysOf(file[line]) : found' = NoneYet(d)
        /\ word' = 1
        /\ pc' = "words"
        /\ UNCHANGED line
     \/ /\ DaysOf(file[line]) = {}
        /\ line' = line + 1
        /\ UNCHANGED <<word, found, pc>>
  /\ UNCHANGED <<file, sigchld, schedule, loopVars>>

\* Mutant of HasRoom: the array has no end.
HasRoom_Always == TRUE
HasRoom == Len(found) < MAX_TIME_SLOTS
MoreWords == word <= Len(file[line].words) /\ HasRoom

\* A word that is no slot is only reported.  The slots are kept in schedule
\* from the start, but slot_count makes them count at the end of the line.
ReadWord ==
  /\ pc = "words"
  /\ MoreWords
  /\ LET w == file[line].words[word]
     IN found' = IF parse_time_slot(w) THEN Append(found, w[2]) ELSE found
  /\ word' = word + 1
  /\ UNCHANGED <<file, sigchld, schedule, line, pc, loopVars>>

\* The line replaces what an earlier one said of its day.
LineDone ==
  /\ pc = "words"
  /\ ~MoreWords
  /\ schedule' = [d \in 1..7 |-> IF d \in DaysOf(file[line]) THEN found
                                 ELSE schedule[d]]
  /\ line' = line + 1
  /\ pc' = "line"
  /\ UNCHANGED <<file, sigchld, word, found, loopVars>>

FileDone ==
  /\ pc = "line"
  /\ line > Len(file)
  /\ pc' = "check"
  /\ UNCHANGED <<file, sigchld, parseVars, loopVars>>

parse_config_file == OpenFile \/ ReadLine \/ ReadWord \/ LineDone \/ FileDone

-----------------------------------------------------------------------------
(* The time of day.                                                        *)

tm_wday(t) == t \div DAY
tm_hour(t) == (t % DAY) \div (MINS * SECS)
tm_min(t) == (t % (MINS * SECS)) \div SECS

\* Mutant of DayIndex: Sunday is not moved to the end.
DayIndex_NoWrap(t) == tm_wday(t)

\* tm_wday - 1, and 6 instead of -1, shifted to 1..7.
DayIndex(t) == IF tm_wday(t) - 1 < 0 THEN 7 ELSE tm_wday(t)

is_in_time_slot(d, hour, min) ==
  /\ d \in 1..7
  /\ \E i \in DOMAIN schedule[d] :
       LET slot == schedule[d][i]
           current == hour * MINS + min
       IN /\ current >= slot.sh * MINS + slot.sm
          /\ current <= slot.eh * MINS + slot.em

-----------------------------------------------------------------------------
(* main_loop.                                                              *)

Check ==
  /\ pc = "check"
  /\ read_at' = now
  /\ \/ /\ is_in_time_slot(DayIndex(now), tm_hour(now), tm_min(now))
        /\ pc' = "fork"
        /\ UNCHANGED sleep_left
     \/ /\ ~is_in_time_slot(DayIndex(now), tm_hour(now), tm_min(now))
        /\ pc' = "sleep"
        /\ sleep_left' = CHECK_INTERVAL
  /\ UNCHANGED <<file, sigchld, parseVars, now, child, report, unserved>>

\* execute_script: fork, and in the child execl.
Fork ==
  /\ pc = "fork"
  /\ \/ /\ child' = "running"
        /\ unserved' = 0
        /\ pc' = "wait"
        /\ UNCHANGED sleep_left
     \/ /\ ForkMayFail
        /\ pc' = "sleep"
        /\ sleep_left' = CHECK_INTERVAL
        /\ unserved' = 0
        /\ UNCHANGED child
  /\ UNCHANGED <<file, sigchld, parseVars, now, read_at, report>>

\* What is printed of the child: of a status that nobody has set, anything.
Status == IF sigchld = "ignored" THEN {"exited", "killed"} ELSE {child}

\* Mutant of Ended: a script that was killed is not seen.
Ended_Normally == child = "exited"
Ended == child # "running"

\* execute_script: waitpid returns once the child has ended.  If SIGCHLD is
\* ignored it fails, which is not noticed.
Wait ==
  /\ pc = "wait"
  /\ Ended
  /\ report' \in Status
  /\ child' = "none"
  /\ pc' = "sleep"
  /\ sleep_left' = CHECK_INTERVAL
  /\ UNCHANGED <<file, sigchld, parseVars, now, read_at, unserved>>

Wake ==
  /\ pc = "sleep"
  /\ sleep_left = 0
  /\ pc' = "check"
  /\ UNCHANGED <<file, sigchld, parseVars, now, read_at, sleep_left, child,
                 report, unserved>>

LoopStep == Check \/ Fork \/ Wait \/ Wake

-----------------------------------------------------------------------------
(* The file as its author reads it: a slot on a line counts on the day the *)
(* line names, unless a later line names the day again, from its first     *)
(* minute to the end of its last one.                                      *)

DayName(t) ==
  <<"Sun", "Mon", "Tue", "Wed", "Thu", "Fri", "Sat">>[tm_wday(t) + 1]

SlotCovers(s, t) ==
  LET midnight == tm_wday(t) * DAY
      begins == midnight + (s.sh * MINS + s.sm) * SECS
      ends == midnight + (s.eh * MINS + s.em + 1) * SECS
  IN begins <= t /\ t < ends

InFile(t) ==
  \E i \in DOMAIN file :
    /\ file[i].day = DayName(t)
    /\ \A j \in DOMAIN file : j > i => file[j].day # DayName(t)
    /\ \E k \in DOMAIN file[i].words :
         LET before == {m \in 1..k - 1 : parse_time_slot(file[i].words[m])}
         IN /\ parse_time_slot(file[i].words[k])
            /\ Cardinality(before) < MAX_TIME_SLOTS
            /\ SlotCovers(file[i].words[k][2], t)

-----------------------------------------------------------------------------
(* The world.                                                              *)

\* A second passes, in sleep or waitpid: the rest takes no time.  unserved
\* counts the seconds that were in a slot of the file while no script ran,
\* without interruption; an attempt to start a script, a second outside the
\* slots or the setting of the clock begins the count anew.
Tick ==
  /\ \/ pc = "sleep" /\ sleep_left > 0
     \/ pc = "wait" /\ child = "running"
  /\ now' = (now + 1) % (7 * DAY)
  /\ sleep_left' = IF pc = "sleep" /\ sleep_left > 0 THEN sleep_left - 1
                   ELSE sleep_left
  /\ unserved' = IF InFile(now) /\ child = "none" THEN unserved + 1 ELSE 0
  /\ UNCHANGED <<file, sigchld, parseVars, pc, read_at, child, report>>

\* The clock or the time zone is set, summer time begins or ends, the device
\* wakes up after a suspend.
SetClock ==
  /\ pc \notin {"open", "line", "words", "failed"}
  /\ now' \in SetTo
  /\ unserved' = 0
  /\ UNCHANGED <<file, sigchld, parseVars, pc, read_at, sleep_left, child,
                 report>>

ScriptEnds ==
  /\ child = "running"
  /\ child' \in {"exited", "killed"}
  /\ UNCHANGED <<file, sigchld, parseVars, pc, now, read_at, sleep_left,
                 report, unserved>>

Terminated == pc = "failed" /\ UNCHANGED vars

Next ==
  parse_config_file \/ LoopStep \/ Tick \/ SetClock \/ ScriptEnds \/ Terminated

Spec == Init /\ [][Next]_vars

\* The process is scheduled, the clock runs and the script comes to an end.
FairSpec == Spec /\ WF_vars(parse_config_file) /\ WF_vars(LoopStep)
                 /\ WF_vars(Tick) /\ WF_vars(ScriptEnds)

-----------------------------------------------------------------------------
(* Properties.                                                             *)

\* The script is started only when the file says so for the day and the time
\* that were read, on Sundays too, and however often a day is listed.
StartedInSlot == pc \in {"fork", "wait"} => InFile(read_at)

\* A slot is not left waiting longer than one interval while no script runs,
\* from its beginning, from the last attempt to start one, or from the moment
\* the clock was set into it.
SlotServed == unserved <= CHECK_INTERVAL

\* "validates the time": a slot that is accepted can come.
AcceptedSlotsCome ==
  \A d \in 1..7 : \A i \in DOMAIN schedule[d] :
    \E t \in Instant : DayIndex(t) = d /\ SlotCovers(schedule[d][i], t)

\* The time is looked at again and again, however the scripts end and however
\* often the clock is set; under FairSpec.
LoopGoesOn == []<>(pc \in {"check", "failed"})

=============================================================================
