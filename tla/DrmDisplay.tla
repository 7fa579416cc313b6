----------------------------- MODULE DrmDisplay -----------------------------
(***************************************************************************)
(* drm_displaybmp/jni/drm_useADDFB.cpp: find a connected connector, make a *)
(* dumb buffer with a framebuffer on it, show it on the first CRTC, sleep  *)
(* until a signal, put the CRTC back and release everything on the way out.*)
(*                                                                         *)
(* One action per system call, because signals and monitors come and go    *)
(* between them.  The three DumbBuffer objects of a run are buf, in        *)
(* create(), opt, the optional it returns, and dumb, in main; an object is *)
(* the set of resources its fields refer to.  The pixels are left out.     *)
(***************************************************************************)
EXTENDS Sequences, Kms

CONSTANTS
  CrtcIds,        \* the CRTCs in the order of MODE_GETRESOURCES
  ConnectorIds,   \* the connectors in that order
  MayFail         \* the calls that can fail

Call == {"load_bmp", "open", "GETRESOURCES", "GETCONNECTOR", "CREATE_DUMB",
         "MAP_DUMB", "mmap", "ADDFB", "GETCRTC", "SETCRTC", "RESTORE"}

ASSUME DisplayAssumption ==
  /\ CrtcIds \in Seq(Crtc) /\ CrtcIds # <<>>
  /\ ConnectorIds \in Seq(Conn)
  /\ MayFail \subseteq Call

VARIABLES
  pc,          \* the call that comes next
  g_running,
  cursor,      \* find_connected_connector: index into ConnectorIds
  count,       \* find_connected_connector: count_modes of the first call
  conn_id,     \* the connector that was found
  mode,        \* the mode that was found, or "zero" when it was not filled in
  objects,     \* what each DumbBuffer refers to
  scope,       \* objects still to be destroyed on the way out
  saver,       \* CrtcSaver; orig is indeterminate until GETCRTC succeeds
  faults,      \* history: resources released although they did not exist
  shown,       \* history: the image has been on the screen
  failed,      \* history: the calls that have failed
  crtc0        \* history: the display at the start

progVars == <<cursor, count, conn_id, mode, objects, scope, saver, faults,
              shown, failed, crtc0>>
vars == <<pc, g_running, progVars, kmsVars>>

Obj == {"buf", "opt", "dumb"}
Orig == [fb : Fb, mode_valid : BOOLEAN]
crtc_id == CrtcIds[1]

Setup == {"load_bmp", "open", "resources", "resources2", "connector",
          "connector2", "create", "map_dumb", "mmap", "addfb", "return",
          "return2", "move", "getcrtc", "setcrtc"}

TypeOK ==
  /\ KmsTypeOK
  /\ pc \in Setup \cup {"while", "pause", "asleep", "restore", "unwind",
                        "close", "done"}
  /\ g_running \in BOOLEAN
  /\ cursor \in 1..Len(ConnectorIds) + 1
  /\ count \in Nat
  /\ conn_id \in Conn \cup {"none"}
  /\ mode \in {"zero", "preferred"}
  /\ objects \in [Obj -> SUBSET Resource]
  /\ scope \in Seq(Obj)
  /\ saver \in [orig : Orig, saved : BOOLEAN]
  /\ faults \subseteq Resource
  /\ shown \in BOOLEAN
  /\ failed \subseteq Call
  /\ crtc0 \in [Crtc -> CrtcState]

\* What indeterminate memory holds is anybody's guess.
Init ==
  /\ KmsInit
  /\ pc = "load_bmp"
  /\ g_running = TRUE
  /\ cursor = 1 /\ count = 0
  /\ conn_id = "none" /\ mode = "zero"
  /\ objects = [o \in Obj |-> {}]
  /\ scope = <<>>
  /\ saver \in [orig : Orig, saved : {FALSE}]
  /\ faults = {} /\ failed = {}
  /\ shown = FALSE
  /\ crtc0 = crtc

-----------------------------------------------------------------------------
(* Building blocks.                                                        *)

Goto(l) == pc' = l

Fails(call) == call \in MayFail /\ failed' = failed \cup {call}

\* Mutant of Return: exit() instead, which runs no destructors.
Return_Exit(s) == scope' = <<>> /\ Goto("unwind")

\* return from main: the objects of s are destroyed, innermost first.
Return(s) == scope' = s /\ Goto("unwind")

\* The destructor of an object that refers to the resources R, or the explicit
\* calls that release R.
Release(R) ==
  /\ live' = live \ R
  /\ faults' = faults \cup (R \ live)
  /\ crtc' = IF "fb" \in R \cap live THEN RmFb(crtc) ELSE crtc

\* Mutants of Moved: the old object keeps its fields; the new one gets none.
Moved_Copied(from, to) == [objects EXCEPT ![to] = objects[from]]
Moved_Lost(from, to) == [objects EXCEPT ![from] = {}]

\* The move constructor: the new object takes over, the old one is emptied.
Moved(from, to) == [objects EXCEPT ![to] = objects[from], ![from] = {}]

\* The next round of the loop over the connectors.
Advance == cursor' = cursor + 1

Create(r) == /\ live' = live \cup {r}
             /\ objects' = [objects EXCEPT !["buf"] = @ \cup {r}]

-----------------------------------------------------------------------------
(* main up to the connector.                                               *)

load_bmp ==
  /\ pc = "load_bmp"
  /\ \/ UNCHANGED failed /\ Goto("open")
     \/ Fails("load_bmp") /\ Goto("done")
  /\ UNCHANGED <<g_running, cursor, count, conn_id, mode, objects, scope,
                 saver, faults, shown, crtc0, kmsVars>>

DrmFd ==
  /\ pc = "open"
  /\ \/ UNCHANGED failed /\ Goto("resources")
     \/ Fails("open") /\ Goto("done")
  /\ UNCHANGED <<g_running, cursor, count, conn_id, mode, objects, scope,
                 saver, faults, shown, crtc0, kmsVars>>

\* Two calls, the first for the counts and the second for the lists.
GetResources ==
  /\ pc \in {"resources", "resources2"}
  /\ \/ /\ UNCHANGED <<failed, scope>>
        /\ Goto(IF pc = "resources" THEN "resources2" ELSE "connector")
     \/ Fails("GETRESOURCES") /\ Return(<<>>)
  /\ UNCHANGED <<g_running, cursor, count, conn_id, mode, objects, saver,
                 faults, shown, crtc0, kmsVars>>

\* find_connected_connector, first call for one connector.
FirstGetConnector ==
  /\ pc = "connector"
  /\ cursor <= Len(ConnectorIds)
  /\ \/ /\ modes[ConnectorIds[cursor]] > 0
        /\ count' = modes[ConnectorIds[cursor]]
        /\ Goto("connector2")
        /\ UNCHANGED <<cursor, failed>>
     \/ /\ \/ modes[ConnectorIds[cursor]] = 0 /\ UNCHANGED failed
           \/ Fails("GETCONNECTOR")
        /\ Advance
        /\ UNCHANGED <<pc, count>>
  /\ UNCHANGED <<g_running, conn_id, mode, objects, scope, saver, faults,
                 shown, crtc0, kmsVars>>

\* Second call: the kernel fills in the modes only when there are some and the
\* array, sized by the first call, has room for them; modes[0] is used anyway.
SecondGetConnector ==
  /\ pc = "connector2"
  /\ \/ /\ conn_id' = ConnectorIds[cursor]
        /\ mode' = IF modes[ConnectorIds[cursor]] \in 1..count
                   THEN "preferred" ELSE "zero"
        /\ Goto("create")
        /\ UNCHANGED <<cursor, failed>>
     \/ /\ Fails("GETCONNECTOR")
        /\ Advance
        /\ Goto("connector")
        /\ UNCHANGED <<conn_id, mode>>
  /\ UNCHANGED <<g_running, count, objects, scope, saver, faults, shown,
                 crtc0, kmsVars>>

NoConnector ==
  /\ pc = "connector"
  /\ cursor > Len(ConnectorIds)
  /\ Return(<<>>)
  /\ UNCHANGED <<g_running, cursor, count, conn_id, mode, objects, saver,
                 faults, shown, failed, crtc0, kmsVars>>

-----------------------------------------------------------------------------
(* DumbBuffer::create.                                                     *)

\* A buffer of no size is refused.
CreateDumb ==
  /\ pc = "create"
  /\ \/ /\ mode = "preferred"
        /\ Create("handle")
        /\ Goto("map_dumb")
        /\ UNCHANGED <<failed, scope>>
     \/ /\ \/ mode = "zero" /\ UNCHANGED failed
           \/ Fails("CREATE_DUMB")
        /\ Return(<<"buf">>)
        /\ UNCHANGED <<live, objects>>
  /\ UNCHANGED <<g_running, cursor, count, conn_id, mode, saver, faults,
                 shown, crtc0, crtc, modes>>

\* On failure the buffer is destroyed, and buf still refers to it.
MapDumb ==
  /\ pc = "map_dumb"
  /\ \/ /\ Goto("mmap")
        /\ UNCHANGED <<failed, scope, live, faults, crtc>>
     \/ /\ Fails("MAP_DUMB")
        /\ Release({"handle"})
        /\ Return(<<"buf">>)
  /\ UNCHANGED <<g_running, cursor, count, conn_id, mode, objects, saver,
                 shown, crtc0, modes>>

Mmap ==
  /\ pc = "mmap"
  /\ \/ /\ Create("map")
        /\ Goto("addfb")
        /\ UNCHANGED <<failed, scope, faults, crtc>>
     \/ /\ Fails("mmap")
        /\ Release({"handle"})
        /\ Return(<<"buf">>)
        /\ UNCHANGED objects
  /\ UNCHANGED <<g_running, cursor, count, conn_id, mode, saver, shown,
                 crtc0, modes>>

AddFb ==
  /\ pc = "addfb"
  /\ \/ /\ Create("fb")
        /\ Goto("return")
        /\ UNCHANGED <<failed, scope, faults, crtc>>
     \/ /\ Fails("ADDFB")
        /\ Release({"map", "handle"})
        /\ Return(<<"buf">>)
        /\ UNCHANGED objects
  /\ UNCHANGED <<g_running, cursor, count, conn_id, mode, saver, shown,
                 crtc0, modes>>

\* return buf: the optional is made from buf, then buf is destroyed.
ReturnBuf ==
  /\ \/ /\ pc = "return"
        /\ objects' = Moved("buf", "opt")
        /\ Goto("return2")
        /\ UNCHANGED <<live, faults, crtc>>
     \/ /\ pc = "return2"
        /\ Release(objects["buf"])
        /\ Goto("move")
        /\ UNCHANGED objects
  /\ UNCHANGED <<g_running, cursor, count, conn_id, mode, scope, saver,
                 shown, failed, crtc0, modes>>

-----------------------------------------------------------------------------
(* main from the buffer to the screen and back.                            *)

\* dumb = std::move(*dumb_opt); the pixels are copied through its mapping.
MoveToMain ==
  /\ pc = "move"
  /\ objects' = Moved("opt", "dumb")
  /\ Goto("getcrtc")
  /\ UNCHANGED <<g_running, cursor, count, conn_id, mode, scope, saver,
                 faults, shown, failed, crtc0, kmsVars>>

\* CrtcSaver::save; when it fails main only warns.
SaveCrtc ==
  /\ pc = "getcrtc"
  /\ \/ /\ saver' = [orig |-> [fb |-> crtc[crtc_id].fb,
                               mode_valid |-> crtc[crtc_id].conns # {}],
                     saved |-> TRUE]
        /\ UNCHANGED failed
     \/ Fails("GETCRTC") /\ UNCHANGED saver
  /\ Goto("setcrtc")
  /\ UNCHANGED <<g_running, cursor, count, conn_id, mode, objects, scope,
                 faults, shown, crtc0, kmsVars>>

\* Mutant of ShowImage: a failure goes through the restoring code.
ShowImage_Cleanup ==
  /\ pc = "setcrtc"
  /\ \/ /\ crtc' = SetCrtc(crtc, crtc_id, "own", conn_id)
        /\ shown' = TRUE
        /\ Goto("while")
        /\ UNCHANGED failed
     \/ /\ Fails("SETCRTC")
        /\ Goto("restore")
        /\ UNCHANGED <<crtc, shown>>
  /\ UNCHANGED <<g_running, cursor, count, conn_id, mode, objects, scope,
                 saver, faults, crtc0, modes, live>>

ShowImage ==
  /\ pc = "setcrtc"
  /\ \/ /\ crtc' = SetCrtc(crtc, crtc_id, "own", conn_id)
        /\ shown' = TRUE
        /\ Goto("while")
        /\ UNCHANGED <<failed, scope>>
     \/ /\ Fails("SETCRTC")
        /\ Return(<<"dumb", "opt">>)
        /\ UNCHANGED <<crtc, shown>>
  /\ UNCHANGED <<g_running, cursor, count, conn_id, mode, objects, saver,
                 faults, crtc0, modes, live>>

\* Mutant of WhileTest: the flag, not volatile, is read only once.
WhileTest_Cached ==
  pc = "while" /\ Goto("pause") /\ UNCHANGED <<g_running, progVars, kmsVars>>

\* while (g_running)
WhileTest ==
  /\ pc = "while"
  /\ Goto(IF g_running THEN "pause" ELSE "restore")
  /\ UNCHANGED <<g_running, progVars, kmsVars>>

\* pause(): from here to the next signal nothing happens.
Pause ==
  /\ pc = "pause"
  /\ Goto("asleep")
  /\ UNCHANGED <<g_running, progVars, kmsVars>>

\* Mutant of RestoreCrtc: main just returns.
RestoreCrtc_Skipped ==
  /\ pc = "restore"
  /\ Return(<<"dumb", "opt">>)
  /\ UNCHANGED <<g_running, cursor, count, conn_id, mode, objects, saver,
                 faults, shown, failed, crtc0, kmsVars>>

\* A CRTC whose mode was valid is set to its framebuffer again, on the one
\* connector main knows; the result is ignored.
RestoreCrtc ==
  /\ pc = "restore"
  /\ Return(<<"dumb", "opt">>)
  /\ \/ /\ saver.orig.mode_valid
        /\ saver.orig.fb # "none"
        /\ crtc' = SetCrtc(crtc, crtc_id, saver.orig.fb, conn_id)
        /\ UNCHANGED failed
     \/ /\ saver.orig.mode_valid
        /\ Fails("RESTORE")
        /\ UNCHANGED crtc
     \/ /\ ~saver.orig.mode_valid \/ saver.orig.fb = "none"
        /\ UNCHANGED <<crtc, failed>>
  /\ UNCHANGED <<g_running, cursor, count, conn_id, mode, objects, saver,
                 faults, shown, crtc0, modes, live>>

-----------------------------------------------------------------------------
(* The way out.                                                            *)

\* The destructor of the next object in scope: RMFB, munmap, DESTROY_DUMB.
Destroy ==
  /\ pc = "unwind"
  /\ scope # <<>>
  /\ Release(objects[Head(scope)])
  /\ objects' = [objects EXCEPT ![Head(scope)] = {}]
  /\ scope' = Tail(scope)
  /\ UNCHANGED <<pc, g_running, cursor, count, conn_id, mode, saver, shown,
                 failed, crtc0, modes>>

Unwound ==
  /\ pc = "unwind"
  /\ scope = <<>>
  /\ Goto("close")
  /\ UNCHANGED <<g_running, progVars, kmsVars>>

\* ~DrmFd and the end of the process: the kernel takes back what is left.
Close ==
  /\ pc = "close"
  /\ Goto("done")
  /\ live' = {}
  /\ crtc' = IF "fb" \in live THEN RmFb(crtc) ELSE crtc
  /\ UNCHANGED <<g_running, progVars, modes>>

-----------------------------------------------------------------------------
\* SIGINT or SIGTERM; pause returns only when it was asleep.
signal_handler ==
  /\ pc # "done"
  /\ g_running' = FALSE
  /\ Goto(IF pc = "asleep" THEN "while" ELSE pc)
  /\ UNCHANGED <<progVars, kmsVars>>

Monitor == pc # "done" /\ HotPlug /\ UNCHANGED <<pc, g_running, progVars>>

Terminated == pc = "done" /\ UNCHANGED vars

Step ==
  \/ load_bmp \/ DrmFd \/ GetResources
  \/ FirstGetConnector \/ SecondGetConnector \/ NoConnector
  \/ CreateDumb \/ MapDumb \/ Mmap \/ AddFb \/ ReturnBuf
  \/ MoveToMain \/ SaveCrtc \/ ShowImage
  \/ WhileTest \/ Pause \/ RestoreCrtc
  \/ Destroy \/ Unwound \/ Close

Next == Step \/ signal_handler \/ Monitor \/ Terminated

Spec == Init /\ [][Next]_vars

\* The process is scheduled; nobody has to send a signal.
FairSpec == Spec /\ WF_vars(Step)

-----------------------------------------------------------------------------
(* Safety.                                                                 *)

\* Every resource that exists is in the hands of exactly one DumbBuffer, also
\* while it moves from create() to main, on every path that main returns from.
OneOwner ==
  /\ \A r \in live : \E o \in Obj : r \in objects[o]
  /\ \A o, p \in Obj : o # p => objects[o] \cap objects[p] = {}

\* When the device is closed nothing is left for the kernel to clean up,
\* whichever call failed.
NothingLeaked == pc = "close" => live = {}

\* The image that is on the screen has its buffer, and stays there until the
\* program leaves the loop.
ImageBacked ==
  pc \in {"while", "pause", "asleep", "restore"} =>
    /\ live = Resource
    /\ crtc[crtc_id] = [fb |-> "own", conns |-> {conn_id}]

\* "RAII resource management": what was created is released once, in the runs
\* in which create() did not fail halfway.
ReleasedOnceUnlessHalfway ==
  failed \cap {"MAP_DUMB", "mmap", "ADDFB"} = {} => faults = {}

\* A run that never got to show its image leaves the display as it was.
FailureLeavesDisplay == pc = "done" /\ ~shown => crtc = crtc0

\* A run that ends normally puts the display back, provided the saving and the
\* restoring succeeded and the first CRTC and the connector belonged together.
RestoresOwnPair ==
  (/\ pc = "done"
   /\ shown
   /\ failed \cap {"GETCRTC", "RESTORE"} = {}
   /\ crtc0[crtc_id].conns \subseteq {conn_id}
   /\ \A c \in Crtc \ {crtc_id} : conn_id \notin crtc0[c].conns)
  => crtc = crtc0

-----------------------------------------------------------------------------
(* Liveness.                                                               *)

\* "Press Ctrl+C to exit", under FairSpec.
SignalEndsDisplay == (~g_running) ~> (pc = "done")

\* A signal that comes before the test of g_running, however early, or that
\* wakes the program, is not lost; under FairSpec.
SignalOutsideWindow ==
  (~g_running /\ pc \notin {"pause", "asleep"}) ~> (pc = "done")

=============================================================================
