# nativetools, in TLA+

The repository holds small native programs for rooted Android devices: two
daemons (`key_listener`, `time_control`), a program that shows a picture through
DRM (`drm_displaybmp`), a launcher that changes credentials
(`uid-gid-con-cap_switcher`) and a set of file tools (`hextool_basetools`).
They share no code. They meet only in the system around them: a script started
by `key_listener` may start `time_control` or the picture program, and what it
inherits (ignored SIGCHLD, open devices) matters to the program it starts.

Paths below are relative to `src/`.

## Inventory

### key_listener (`key_listener/jni/keylistener.c`)

State: the rules (`configs`) with their run-time state (`states`: `active`,
`press_time`, `long_triggered`), the open devices, `should_exit`.
Operations: `parse_config`, `open_device`, `event_loop` with `process_event` and
`check_long_press_timeouts`, `execute_script`, `signal_handler`.
It interacts with the kernel's input devices (one client buffer per open
device), with the clock, with signals, and with the scripts it forks.

Hard: a long press can be noticed at the release or by the timeout check;
buffers overflow and devices vanish; events are timed when they are read, one
per device and round; a signal may come between the test of the flag and
`poll`. Correct means: one launch per hold and none without one, not early and
not late, no rule waiting for a release that cannot come, no device starved,
and every signal ends it.

### time_control (`time_control/jni/timectl.c`)

State: `schedule`, up to 20 slots per day. Operations: `parse_config_file`,
`is_in_time_slot`, `execute_script` (fork, exec, wait), `main_loop`.
It interacts with the wall clock, the sleeping system, and its script.

Hard: Sunday comes first in `tm_wday` and last in `schedule`; the clock may be
set; the script takes its own time; a day may be listed twice, a line may hold
too many slots. Correct means: a script starts only in a slot of the file, no
slot is passed over, and the loop goes on however a script ends.

### drm_displaybmp (`drm_displaybmp/jni/drm_useADDFB.cpp`)

State: `g_running`; the file descriptor, the dumb buffer with its mapping and
framebuffer, owned by an object that is moved twice; the saved CRTC.
Operations: `load_bmp`, `find_connected_connector`, `DumbBuffer::create`, the
move operations and `cleanup`, `CrtcSaver::save`, show, wait, restore.
It interacts with the kernel's mode setting and with signals.

Hard: every call can fail and each failure has to undo just what was done;
monitors come and go between two calls; a signal may come between the test of
`g_running` and `pause`. Correct means: one owner per resource, all released,
once; the image on the screen has its buffer; the display is put back.

### switcher (`uid-gid-con-cap_switcher/jni/switcher.c`)

State: none but the credentials of the process. Operations: the seven steps of
`main` (environment, context, KEEPCAPS, groups, gid, uid, capabilities) and
`execv`. It interacts with the kernel's credentials, which each step changes
for the later ones.

Hard: the order; every step that fails is skipped; leaving root empties the
effective set; what the program's own check accepts and what the kernel accepts
are two things. Correct means: the target has the identity and the capabilities
that were asked for and no others.

### hextool_basetools (`hextool_basetools/jni/`)

`hextool` transforms a file in place, block by block, and may be run again on
what is left; `create_bmp` writes the pictures that `drm_displaybmp` shows, maybe
while one is being loaded; `dump_self` copies its own memory, reading
`/proc/self/maps` meanwhile; `print_all_hex`, `randomhex2ascii_16Byte` and
`_test` are a few lines each. Hard: a transformation that is interrupted leaves
a file that is neither old nor new; the row padding of `create_bmp` has to agree
with `load_bmp`, which may meet half a file. Correct means: success of `hextool`
is a whole transformation and a stop leaves a prefix; what is shown is a whole
picture.

Vendored: SELinux headers and prebuilt libraries, of which only `setcon` is
called.

## Modules

| Module | Models |
| --- | --- |
| `CTime` | the subtraction of two `struct timespec`, C division included |
| `Evdev` | external: input devices, client buffers that overflow, unplugging |
| `KeyListener` | the event loop of `keylistener.c`; extends `CTime` and `Evdev` |
| `KeyHolds` | `KeyListener` with a history of when the keys themselves go down and up |
| `KeyDaemon` | the rest of `keylistener.c`: `parse_config`, `open_device`, `main`; extends `KeyListener` |
| `LongPress` | what the long_press rules promise, abstractly |
| `KeyListenerProofs`, `KeyDaemonProofs` | the theorems about them and about `CTime` |
| `Kms` | external: CRTCs, connectors, framebuffers of the kernel |
| `DrmDisplay` | `drm_useADDFB.cpp`; extends `Kms` |
| `DrmProofs` | the theorems about it |
| `Creds` | external: credentials and the calls that change them |
| `Switcher` | `switcher.c`; extends `Creds` |
| `SwitcherProofs` | the theorems about it |
| `TimeControl` | `timectl.c` |
| `TimeProofs` | the theorems about it |
| `HexModes` | the eight byte functions of `hextool.c`, and what the help text calls them |
| `HexTool` | its command line and its in-place loop; extends `HexModes` |
| `HexToolProofs` | the theorems about both |
| `CreateBmp` | `create_bmp.c` with what stdio holds or loses |
| `Picture` | `load_bmp` and the copy in `drm_useADDFB.cpp`; extends `CreateBmp`, which writes the same file |
| `PictureProofs` | the theorems about both |
| `DumpSelf` | `dump_self.c`, with mappings that change under it |
| `DumpProofs` | the theorems about it |
| `MC...` | the small instances TLC checks |

An operator `X_Something` stands before the definition `X` it varies: it is `X`
with a plausible mistake in it. Replacing `X` by it must violate the property
it is listed with in `PROJECT.json`.

### KeyListener and the code

`configs` and `devices` are what `parse_config` and `open_device` leave; `Init`
allows every table of open devices that failing `open` calls can produce. The
script of a rule is identified with the rule. `pc` is the place in
`event_loop`: `LoopTest` is the `while` and the entry of `poll`, `PollReturns`
takes the snapshot `revents`, each `ReadDevice` is one `read` with the whole of
`process_event`, `CheckTimeouts` is `check_long_press_timeouts`. Between any two
of them events arrive, signals are handled and, unless the world is prompt, time
passes. Both loops over the rules are one step, because nothing in them waits;
`clock_gettime` is the variable `clock`. A signal that finds the daemon in `poll`
may make it return `EINTR` (the `continue`, which skips the timeout check) or
may come just before the call and interrupt nothing. `poll` may fail otherwise
(`PollFails`), which ends the loop. `launches`, `typed` and `lost` are history.

A *world* says how the daemon is treated: `prompt` worlds let time pass only
while it sleeps in `poll`; in the others it may be late by any amount.

The daemon times a press when it reads it (:242), not when the key goes down, so
what it measures and what happened to the key are two things. `NotBeforeTime` is
about the first, in every world. `KeyHolds` records the second: `since` is when a
key that is down went down, `ended` holds the beginnings of the holds that ended
at this instant. `NoEarlyLongPress` compares the launch with that record. It is
stated for prompt worlds and devices that lost no events; without these conditions
it is false, as the section on disagreements says. The record is kept only of keys
with a long_press rule and only in prompt worlds; it changes no step of `KeyListener`.

Left out: SYN_REPORT and MSC events
(read and skipped), and the exit of a forked child whose `execl` fails.

### KeyDaemon and the code

`KeyDaemon` is the whole program: `stage` says how far `main` has come, and once
it is `"run"` the steps are those of `KeyListener`, whose variables `KeyDaemon`
fills before. `ParseLine` is one turn of the loop in `parse_config`: it takes the
line, or refuses it with one of the four messages. A line is the number of words
that `sscanf` found with what they say; `NoDigits` is a word for which `strtol`
returns nought, and `ErrnoAfter` lets the C library set `EINVAL` for it or not,
as both are allowed; `errno` is whatever an earlier call or line left.
`open_device` is one turn of the loop in `main`. Events arrive from the moment
a device is open, and a signal may come as soon as the handlers are installed.
`HandsOver` says that the loop begins in a state that `KeyListener` starts from,
so what `key_rules` checks of the loop is not about states of its own making.

A rule beyond `MAX_CONFIGS` is written past the end of two arrays (:187); the
model ends there (`Overrun`) and `RulesOfFile` says that nothing else leads to
it. `MadeOf` states what the rules are by the line each of them was made of,
`origin`: later rules come from later lines, and no line that counts is left out.
The key code nought is KEY_RESERVED, which no key has (`Input`): a line that
is taken with it by mistake is a dead rule, and `RulesOfFile` compares the others.

Left out: the time before the loop, as only differences of times are used; words
longer than their arrays (`%s` has no width) and lines longer than the buffer,
which `fgets` cuts in two; the exit status (a failing `poll` also ends with
"程序正常退出" and 0).

### TimeControl and the code

A line of the file is a day (or blank, or no day at all) with words that are
slots or junk. `parse_config_file` is five steps: `OpenFile`, then for each line
`ReadLine`, which finds its day or passes it over, one `ReadWord` for each word
while there is room, and `LineDone`; `FileDone` at the end. The code stores the
slots of a line in `schedule` as it reads them, but they count only once
`slot_count` is written at the end of the line: `found` is what is stored and does
not count yet. `now` is the second of the week. `Check` reads the clock and
decides; `Fork` and `Wait` are `execute_script`; `Wake` ends `sleep`. Time
passes in `sleep` and `waitpid` only. `SetClock` moves `now` at any moment:
somebody sets it, summer time begins, or the device wakes from a suspend. The
status of a `waitpid` that fails is never written, so `report` is then anything:
the properties say what the loop does next, not what it prints.

### DrmDisplay and the code

One action per system call. `objects` says which resources the fields of the
three `DumbBuffer` objects refer to: `buf` in `create`, `opt` in the returned
optional, `dumb` in `main`. `Release` is `cleanup` or the explicit calls in the
failure paths of `create`; what is released without existing goes to `faults`.
`Return` begins the way out: `Destroy` runs the destructors one by one, then
`Close` closes the device, where the kernel takes back what is left. `orig` of
`CrtcSaver` is indeterminate until `GETCRTC` has succeeded. Pixels are left out,
and so is a device without any CRTC.

### Switcher and the code

One action per step of `main`, in its order (`NextStep`). A call is made,
refused by the kernel or fails for another reason, and the program goes on in
each case, as the code does. Words of the command line are numbers, junk or
blanks, which is all `strtoul` can tell. A number may be larger than an id or
negative: `strtoul` saturates at the width of `unsigned long` and counts negative
numbers from the end, and the result is cut to the width of an id (:301, :318,
:329). `Application.mk` builds for armeabi-v7a and arm64-v8a, where `unsigned long`
has 32 and 64 bits: `ulong` is the largest one plus one. `Creds` lets the kernel refuse the id
-1 in `setuid`, `setgid` and anywhere in the list of `setgroups`.

`IdentityAsAsked` compares the credentials of the target with the numbers that are
spelled on the command line, and not with what the code reads from them: a number
that is an id is asked for (`AsksForId`), -1 and what no `unsigned long` holds is
`Impossible` and must leave the caller's. A step that failed costs only that step. The environment
is left out.

### HexTool and the code

`ReadBlock` is `fread` with the loop over the buffer, `WriteBlock` is `fseek`,
`fwrite` and `fflush`, `SeekOn` the second `fseek`. `fread` may return less than
a block. `WriteStops` leaves any part of the block on the disk, by an error or by
a kill; a write past the end would extend the file (`LengthAfter`), and that none
does is part of `TypeOK`. `Stop` is a failure or a kill anywhere else. `RunAgain` runs the tool on
what is left. `HexModes` defines C's operators on a byte through its bits: `Bit`
takes one out and `FromBits` puts eight together, so that `&` and `^` are what
they do to each bit, shifts are multiplication and division, and `UChar` cuts the
result to eight bits. `Named` says of each bit of the result what the help text
says of the mode, without the steps of the code.
A command line that is not `Accepted` (an unknown option, a mode out of range, no
file, help) ends in `refused` without opening the file.

### DumpSelf and the code

An address is a page, a mapping a range of them. `Fill` is the part of `fgets`
that reads: the kernel lists some more of the mappings that end after the last
one it has listed, as they are at that moment, and the lines wait in stdio's
buffer. `Unreadable`, `Skip` and `dump_region` are the three ways through the
loop. Each call that prints, opens or closes goes through malloc: `Remapped` lets
it add a mapping, let one of its own grow or return one. A dump stops at a page
that is no longer there, has nothing behind it (`Faulting`), or for want of
space; what stdio still holds is lost when `fclose` fails, which is not looked at.
The last part of a region that does not fill stdio's buffer is copied by the process
itself, and a page that cannot be read then kills it (`Killed`).
Every file may be there already, from an earlier run. The address space starts as
any set of mappings that do not overlap (`AddressSpace`).

Left out: what the pages hold (the program's own memory changes while it is
copied), lines of the list longer than the buffer, and failures to print.

### CreateBmp, Picture and the code

A byte is a pair of a colour and a place in the pixel, so that a byte in the wrong
place is seen. `pending` is what stdio holds: `Flush` writes part of a chunk and
loses the rest, at any time. Bytes that follow a lost header are no header, and
the loader refuses both, so a file of pixels only has `NoHeader`. In `Picture`
`ReadHeader`, `ReadRow` and `ReadFails` are the calls of `read`; the conversion
belongs to the last `ReadRow`. A negative height (a picture stored from the top)
makes the constructor of the vector throw, which ends the program (`aborted`).
`Create` is any step of `create_bmp`. `clean` says that it did not truncate the
file in the middle of the load; if it did, what is loaded is a mixture. Foreign
files come with the picture that the format says they hold (`Holds`, from the
format's own description of a row, `Stride`, and not from the program's).

Left out: read errors other than the end of the file, pictures without rows or
columns, products beyond the range of `int`, and arguments that `create_bmp`
refuses.

## What is checked

| Run | Shows |
| --- | --- |
| `key_rules` | with 3 key events, buffers of 2 and thresholds of 0 to 2 ms on one or two devices: `ArmedMeansHeld`, `LaunchesAccounted` (a launch, an armed rule and an unread press are never counted twice), `NotBeforeTime` (not before the time of the rule has passed since the press was read), `NoEarlyLongPress` (prompt worlds: the key itself has been down that long), `LongPressOnTime` (prompt worlds), and that the rules implement `LongPress` |
| `key_daemon` | five files with good, bad, repeated and too many lines, from the file to the end of the loop: `RulesOfFile` (the rules are the well-formed lines, whatever `errno` says), `DeadRulesExplained`, `HandsOver`, and the liveness of the whole program: `SignalEndsLoop`, `LongHoldFires`, `EventsServed`, also next to an unplugged device that makes `poll` return at once for ever |
| `key_overflow` | refuted: "`active`: whether the key is being pressed now" |
| `drm_display` | with 2 CRTCs, 2 connectors, any call failing: ownership, release, the image, restoring, and which signals end the program |
| `drm_lost_wakeup` | refuted: "Press Ctrl+C to exit" |
| `switcher_target` | `IdentityAsAsked`: the ids and groups that are spelled on the command line, in both builds, whichever steps fail or are refused; no capability that was not asked for, ambient capabilities when the check passed, and that the kernel accepts what the check accepts unless the permitted set would grow |
| `switcher_usage` | refuted: capabilities reach a target that is not root |
| `time_week` | a week of short days, twice listed days, too many slots: `StartedInSlot`, `SlotServed`, `LoopGoesOn` |
| `hex_file` | every byte alone in every mode, and files of up to two and a half blocks: `AsNamed` (each mode, bit by bit, is what the help says), `UndoneByRerun` (which modes undo themselves), `PrefixTransformed`, `SuccessMeansAll` |
| `dump_self` | two address spaces with a heap, a mapping that is too big and a guard page: `EachReportedOnce`, `FilesAsReported`, `ListEnds` |
| `picture_load` | created and foreign files, 24 and 32 bits, padded rows, screens larger and smaller than the picture: `LoadedIsPicture`, `ShownIsPicture`, `CompleteIsLoaded` |
| `time_overnight` | refuted: what is accepted as a valid slot can come |

The type invariants of `DrmDisplay` and `Switcher` are proved and not run again.

Bounds. `KeyListener`: `MaxEvents`, `MaxClock`, `QueueCap`; three events are
press, release, press or an overflow of a buffer of two; a second of two
milliseconds and a millisecond of two ticks make both fields of a timespec wrap
and the division truncate; five ticks exceed the longest threshold that can be
late. `KeyDaemon`: up to four lines for three rules and three paths for two
devices pass both limits; two events, two ticks and prompt worlds only, because
the behaviour of the loop is the matter of `key_rules`. `TimeControl`: days of 2
hours of 2 minutes of 3 seconds with an interval of 2 seconds keep an interval
shorter than a minute and a slot longer than an interval, as 20 s and 60 s are;
`SetTo` lies at and around the ends of slots and days and at both ends of the
week. `DrmDisplay` has no counters; two CRTCs and two connectors are the fewest
for which they can be mismatched, and `MaxModes` 2 lets a second call find more or
fewer modes than the first. `Switcher` is finite; four ids are root, two users and
the refused one, `Builds` are an `unsigned long` as wide as an id and one of twice
its bits (numbers below 4 and below 16), the words go up to 17, which neither holds, and
include 6, which only the wide one does, and -1; `GROUPS_MAX` is 2, and the callers have no ambient capabilities
or one, which may or may not be asked for. `HexTool`: blocks of 2 bytes and files
of 0, 1, 3, 4 and 5 bytes end before, at and after a block; `MaxRuns` 2 is a run
and its repetition. `Picture`: widths 1 to 3 have rows that need padding and rows
that do not, `Chunk` 6 cuts inside rows and pixels, `MaxRuns` 2 lets a second run
truncate what the first one wrote. `DumpSelf`: seven pages, of which a heap of one
may take two more and another mapping has three, the limit.

Fairness. `WF(LoopStep)` and `WF(Step)`: the scheduler runs the process; in
`key_listener` (`KeyDaemon`, where `Daemon` includes the start-up) also
`SF(Clock)`, because a clock does not stop, while in prompt worlds `Clock` is
enabled in `poll` only, which the daemon enters again and again. In `time_control`
scripts come to an end (`WF(ScriptEnds)`); a script that does not blocks the loop
for good. In `dump_self` it is the scheduler again; nothing has to fail. `HexTool`,
`Switcher`, `CreateBmp` and `Picture` need no fairness, their properties are
safety. Nobody has to press a key or send a signal.

## Disagreements with comments and messages

Four are runs of their own (above, and `findings` in `PROJECT.json`). Others met
while modelling, which the properties leave out by a stated condition:

- `keylistener.c:187` never compares `config_count` with `MAX_CONFIGS`, "最大规则数"
  (:28), the greatest number of rules: `RulesOfFile` says when the arrays overrun.
- `keylistener.c:257` computes "按下持续时间", how long the key was down, from the
  times at which press and release were read. A daemon that is delayed after it has
  read a press measures its own delay: press and release of a short tap may both be
  waiting, and the long_press script runs. One that reads the press late runs it too
  late or not at all. `NoEarlyLongPress` and `LongPressOnTime` speak of prompt worlds.
- `keylistener.c:162` looks at `errno` without clearing it. Whether a word without
  digits is refused as "键码无效" (:163) depends on the C library and on earlier
  lines; a good line is never lost (`RulesOfFile`).
- `drm_useADDFB.cpp:138`: when MAP_DUMB, `mmap` or ADDFB fails, `create` releases
  by hand what `buf` still refers to, and the destructor of `buf` releases it
  again, by then perhaps somebody else's handle or address, in a class meant to
  manage resources (:54). `ReleasedOnceUnlessHalfway` excludes these failures.
- `dump_self.c:27` ignores the result of `fclose`, so a file is listed although
  its tail is lost; a mapping that grows between two pieces of the list is dumped
  twice, and a `dump_n.bin` of an earlier run stays when the new one is skipped or
  cannot be opened. `FilesAsReported` speaks of the files that are listed.
- `drm_useADDFB.cpp:422` restores from `orig` although `GETCRTC` may have failed
  and `orig` was never written; `saved` is only used for a warning (:398).
  `RestoresOwnPair` assumes that `GETCRTC` succeeded.
- `drm_useADDFB.cpp:424` restores to the one connector that was used, and a CRTC
  that lost its connector is not restored. `RestoresOwnPair` assumes that the
  pair was together before.
- `switcher.c:142` lets a caller with CAP_SETPCAP enlarge its permitted set and
  reports success (:159); the kernel never allows it. `FeasibleIsAllowed`
  assumes that it is not enlarged.
- `switcher.c:302` takes a word of blanks for group 0, although words that are
  not numbers are said to be skipped (:303): a list with one gives root's group to a
  target that nobody asked it for. In the same way a number that `unsigned long`
  holds and an id does not (4294967296 on arm64-v8a, where armeabi-v7a refuses it),
  or a negative one other than -1, becomes an id nobody asked for (:301, :318, :329).
  `IdentityAsAsked` leaves out options and lists with such words (`Clear`).
- `timectl.c:165` ignores the result of `waitpid`; under an inherited SIG_IGN of
  SIGCHLD, which the scripts of `key_listener` have (`keylistener.c:365`), the
  status is indeterminate and what is printed is arbitrary. No property speaks of it.
- `dump_self.c:22` warns of a dump that stops halfway, but a page that cannot be read
  may also kill the program (`Killed`), and the list ends there. `FilesAsReported`
  and `EachReportedOnce` hold all the same.
- `timectl.c:248` announces a check every 20 seconds, but none is made while the
  script runs. `SlotServed` counts only while no script runs.
- `create_bmp.c:118` says "Generated" although no result of `fwrite` or `fclose`
  was looked at. `CompleteIsLoaded` speaks of files that are complete.

## What is proved

`KeyListenerProofs`, for every set of rules and devices, every bound, every
world:

- `ElapsedMsBounds`: for any two instants in order the elapsed milliseconds are
  less than one millisecond from the truth. It rests on the bounds of Euclidean and
  of C's division.
- `TypeCorrect`: `Spec => []TypeOK`.
- `ArmedMeansHeldHolds`: `Spec => []ArmedMeansHeld`. It is not inductive: reading
  a press arms a rule, so one has to know that the key is still down or that the
  release is further back in the buffer. `PressesClosed` says so of every unread
  press, and `TypeOK /\ PressesClosed /\ ArmedMeansHeld` is inductive.
- `OnTime`: `Spec => []LongPressOnTime`. A bound on the time that passes in `poll`
  says nothing of the rules that are checked afterwards; `Punctual` gives each place
  of the loop its own bound: none is late when `poll` is entered, and `poll` adds
  one timeout.
- `LaunchesAccountedHolds`: `Spec => []LaunchesAccounted`, which is inductive with
  `TypeOK`. Reading an event takes one from the count of the unread presses
  (`CountTail`), a new one adds one to both sides (`CountAppend`).
- `NotBeforeTimeHolds`: `Spec => NotBeforeTime`, from `TypeOK`, the fact that
  `press_time` is never in the future, and `ElapsedMsBounds`.
- `NeverEarly`: `HoldsSpec => NoEarlyLongPress`. The invariant `PressTimesReal` says
  that in a prompt world an unread press was made at this very instant and that an
  armed rule has the time at which its key went down, in a hold that still goes on
  or has just ended with its release still unread (`BeganAt`). Time passes only
  while the daemon sleeps in `poll`, when nothing is waiting to be read (`TickReal`); reading an event
  keeps it because a rule is disarmed by the release that ends its hold (`ReadReal`).
- `Refinement`: `Spec => ImplementsLongPress`. Each step is split by rule: a rule
  that matches the event presses or releases, one that is due holds, the others
  stay.

`KeyDaemonProofs`, for every file and every limit:

- `DaemonTypeCorrect`: the arrays of the rules grow together (`AddedRule`), and
  the indices of `main` stay inside the file and the rules.
- `HandsOverHolds`: `DaemonSpec => HandsOver`. `StartInv` says that before the loop
  every rule is idle and that the table of devices comes from an increasing choice
  among the rules so far, with distinct paths; `open_device` extends the choice.
- `DaemonKeepsLoop`: `ArmedMeansHeld`, `NotBeforeTime` and the refinement of
  `LongPress`, and with them `LongPressOnTime` and `LaunchesAccounted`, hold of the
  whole program. Before the loop nothing happens to a rule but that it is added,
  idle (`StartKeeps`, `StartPunctual`, `StartCounted`); every other step is one of
  `KeyListener`, whose lemmas apply. A device counts from when it is opened: until
  then nothing of it is in a buffer or among the presses (`Unheard`).
- `DeadRulesExplainedHolds`: `Tried` says of each rule that `open_device` has seen
  that its device is open, has refused, or found the table full.
- `RulesOfFileHolds`: `RulesSoFar` is the property for the lines read so far
  (`Lines`). A line that is taken extends `origin` by its own number, which is larger
  than all before (`LineAdded`); one that is refused is not well formed, whatever
  `errno` was (`LineTaken`). When the arrays overrun, the lines of the rules and the
  one in hand are more acceptable lines than there is room for (`OverrunExplained`).

`HexToolProofs`, for every file, every block size and every number of runs:

- `TypeCorrect`: besides the types, the position and the block in hand lie inside
  the file, so no write extends it.
- `PrefixTransformedHolds`, `SuccessMeansAllHolds`. The invariant `IInv` adds `Progress` to the properties: between two blocks the file is
  transformed exactly up to `pos`, and while a block is in hand the buffer holds
  the images of the bytes it is about to replace. `OverwrittenIsPart` carries a
  partial write over: k bytes of the buffer move the border by k.
- `AsNamedHolds`: for each mode, every bit of the result is what the help says
  of it. A byte is determined by its bits and each operator is what it does to
  them, so each mode is eight equations. `UndoneByRerunHolds` follows, with
  `History`: if both of two runs succeeded, the second began on the whole image of the
  file, since a run that did not succeed cannot be made up for later.

`DrmProofs`, for every set of CRTCs and connectors and every display to start from:

- `TypeCorrect`, `OneOwnerHolds`, `NothingLeakedHolds`, `ImageBackedHolds`,
  `ReleasedOnceHolds`, `FailureLeavesDisplayHolds`, `RestoresOwnPairHolds`, all from
  one invariant `IInv`. `Owners` says for each place in the program which object
  holds what, and what is then left to release; `Releases` that nothing was released
  in vain; `Before` and `Screen` what is on the display before and after the image
  is shown; `Returns` that only the first CRTC differs from the start, when it and
  the connector belonged together. On the way out `scope` determines what the
  destructors still have to release.

`SwitcherProofs`, for every command line, every `GROUPS_MAX`, every width of `unsigned long`
that is at least an id's, and all credentials the
kernel may have given the caller:

- `TypeCorrect`, `IdentityAsAskedHolds`, `OnlyWantedHolds`,
  `AmbientReachesTargetHolds`, `FeasibleIsAllowedHolds`. `Permissions`: until `setuid` the caller has the
  permissions it began with, and afterwards the permitted set is the old one or
  empty; `Identity`: what has been set by each step is what the code read, whatever
  the later ones do; `Conversion`, `OptionConverted` and `GroupsConverted`: what it reads
  is what is spelled, for words that are `Clear`, and -1 for those that are impossible; `Ambient`: the ambient set grows by wanted capabilities only and
  loses what it had when the process leaves root; `Check` and `Raised`: the answer of
  the check holds of the credentials that `capset` meets, and from there on the sets
  are those that were asked for.

`TimeProofs`, for every file, every length of day, hour, minute and interval, and
every setting of the clock:

- `TypeCorrect`, in particular no day has more slots than its array.
- `StartedInSlotHolds` and `SlotServedHolds`. `Reading` says of the line in hand that
  `found` holds exactly the valid words so far that have fewer than `MAX_TIME_SLOTS`
  valid ones before them, and that there are as many of those as slots in `found`;
  `Table`, that each day has what the last line naming it says, among the lines that
  were read. The arithmetic (`MinuteOfDay`, `SlotTest`, `DayOf`) shows that comparing
  minutes is comparing instants. From both, `InTable`: the program's test is what the
  file says. `Waited` bounds the time without a script in each place of the loop.

`PictureProofs`: `RowSizesAgree`, for every width both programs compute the same
row size; `RowSizeLeast`, it is the least multiple of four that is enough.
For every size, colour, screen and padding, every chunk of stdio and every foreign file:

- `CopiesInside`: no pixel is read or written outside `src_data`, `bmp.data` or the
  dumb buffer. `Shape` says what the arrays' sizes are at each place, and that the
  header in hand is one that `load_bmp` accepts, whatever `create_bmp` does to the file
  meanwhile; `RowOf` and `RowInside` turn an offset into a row and a place in it and
  back.
- `LoadedIsPictureHolds`, `ShownIsPictureHolds`, `CompleteIsLoadedHolds`, from one
  invariant `Loaded`. Its part `Creating` is about the writer: what is in the file and
  what stdio holds is together never more than the rows made so far, and when it is as
  much, every byte is in its place (`AllThere`). A byte that is lost makes the sum
  smaller for good, so a file as long as its header says has lost nothing
  (`WholeHolds`), although nobody looked at the results of `fwrite`. Its part `Viewing`
  is about the reader: the rows read so far are those of the file (`RowsRead`), which
  only grows while it is not truncated (`OnlyGrows`); the last row is the end of the
  file (`LastRowLoads`). `ConvertedPixel` and `CopyShows` follow one pixel through the
  conversion and the copy; that no two of them meet in one place of the buffer is
  `RowUnique`.

`DumpProofs`, for every address space to start from, every limit and all pages that
may fault:

- `TypeCorrect`: the mappings never overlap, whatever malloc does (`RemappedSpace`),
  and the numbers of the dumps do not run out: each line moves the kernel on by at
  least one address (`LinesFit`).
- `EachReportedOnceHolds`. `Once` says of a mapping that has not changed that it is
  still to be listed, or waits in stdio's buffer, or has been reported, and each of
  that once. A piece of the list takes the mappings after the last address in their
  order; that the order exists is shown by counting the mappings up to each one.
- `FilesAsReportedHolds`: the names are numbered (`Numbered`), so no later dump
  overwrites one that is reported.

Assumptions: those named in the modules (`TimeAssumption`, `EvdevAssumption`,
`ListenerAssumption`, `DaemonAssumption`, `KmsAssumption`, `DisplayAssumption`,
`CredsAssumption`, `SwitcherAssumption`, `ScheduleAssumption`, `HexAssumption`,
`CreateAssumption`, `ScreenAssumption`, `ForeignAssumption`, `DumpAssumption`),
nothing else. TLC evaluates each of them. `ForeignAssumption` says of the files that
are there before that their pictures are what the format says they hold.

Model-checked only: the liveness properties, as neither fairness nor ENABLED is
within the prover's reach: `SignalEndsLoop`, `LongHoldFires` and `EventsServed` of
`key_listener`, `SignalOutsideWindow` of `drm_displaybmp`, `LoopGoesOn` of
`time_control` and `ListEnds` of `dump_self`. Every invariant and every action
property that a run checks is also proved.

## Plan

Done: the modules and theorems above. Every component with a state of its own is
modelled, and every safety property is proved. Left: what the liveness
properties rest on can be proved as invariants, in particular that each loop has a
measure that its steps decrease (the addresses not yet listed in `dump_self`, the
events not yet read in `key_listener`).

## Not modelled

- `get_time_ms` (never called), `print_schedule`, `print_cap_names`, usage texts: they
  have no state and nothing depends on them.
- `sanitize_environment`: a fixed list of `unsetenv` calls without a branch.
- `print_all_hex`, `randomhex2ascii_16Byte`, `_test`: a few lines each that print.
- The vendored SELinux headers and libraries, of which only `setcon` is called, and
  the build files. The headers declare and define nothing that runs.
- Products of sizes that leave the range of `int` (`drm_useADDFB.cpp:260`): what the
  build makes of them is undefined, and the model's sizes are far from it.
