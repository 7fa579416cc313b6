----------------------------- MODULE DrmProofs -----------------------------
(***************************************************************************)
(* For every device, every set of calls that may fail and every bound on   *)
(* the modes: each resource has one owner on every way through the         *)
(* program, nothing is left at the end, and the display is put back.       *)
(***************************************************************************)
EXTENDS DrmDisplay, SequenceTheorems, TLAPS

\* The object o refers to the resources R, the others to none.
Only(o, R) == objects = [x \in Obj |-> IF x = o THEN R ELSE {}]
Held(o, R) == live = R /\ Only(o, R)

Displaying == {"while", "pause", "asleep", "restore"}

\* Who holds what, for each place in the program.  After a failure halfway
\* through create(), buf still refers to what has been released by hand.
Owners ==
  /\ pc \in {"load_bmp", "open", "resources", "resources2", "connector",
             "connector2", "create"} => Held("buf", {})
  /\ pc \in {"map_dumb", "mmap"} => Held("buf", {"handle"})
  /\ pc = "addfb" => Held("buf", {"handle", "map"})
  /\ pc = "return" => Held("buf", Resource)
  /\ pc \in {"return2", "move"} => Held("opt", Resource)
  /\ pc \in {"getcrtc", "setcrtc"} \cup Displaying => Held("dumb", Resource)
  /\ pc = "unwind" =>
       \/ scope = <<"buf">> /\ live = {} /\ Only("buf", objects["buf"])
       \/ scope = <<"dumb", "opt">> /\ Held("dumb", Resource)
       \/ scope \in {<<"opt">>, <<>>} /\ Held("buf", {})
  /\ pc \in {"close", "done"} => Held("buf", {})

\* Nothing is released twice unless create() fails halfway.
Halfway == failed \cap {"MAP_DUMB", "mmap", "ADDFB"} # {}
Releases ==
  \/ Halfway
  \/ faults = {} /\ (pc = "unwind" /\ scope = <<"buf">> => objects["buf"] = {})

\* The display until the image is shown, and the first CRTC from then on.
Before ==
  /\ \A c \in Crtc : \/ crtc0[c] = Off
                     \/ crtc0[c].fb = "console" /\ crtc0[c].conns # {}
  /\ ~shown => crtc = crtc0
  /\ pc \in Displaying => shown
  /\ pc \in Setup => ~shown
Own == [fb |-> "own", conns |-> {conn_id}]
Screen == pc \in Displaying => crtc[crtc_id] = Own

\* The first CRTC has no other connector than the one in use, which is on no
\* other CRTC: then only the first CRTC changes, and is put back.
Pair == /\ crtc0[crtc_id].conns \subseteq {conn_id}
        /\ \A c \in Crtc \ {crtc_id} : conn_id \notin crtc0[c].conns
Replaced == crtc = [crtc0 EXCEPT ![crtc_id] = Own]
Returns ==
  /\ pc \in {"setcrtc"} \cup Displaying /\ "GETCRTC" \notin failed =>
       saver.orig = [fb |-> crtc0[crtc_id].fb,
                     mode_valid |-> crtc0[crtc_id].conns # {}]
  /\ shown /\ failed \cap {"GETCRTC", "RESTORE"} = {} /\ Pair =>
       /\ pc \in Displaying => Replaced
       /\ pc = "unwind" =>
            \/ crtc = crtc0
            \/ Replaced /\ crtc0[crtc_id] = Off /\ live = Resource
       /\ pc \in {"close", "done"} => crtc = crtc0

\* A connector is looked at twice while it is one of the list, and one has
\* been found when the buffer is made.
Found ==
  /\ pc = "connector2" => cursor <= Len(ConnectorIds)
  /\ pc \in {"create", "map_dumb", "mmap", "addfb", "return", "return2", "move",
            "getcrtc", "setcrtc"} \cup Displaying => conn_id \in Conn

IInv == TypeOK /\ Found /\ Owners /\ Releases /\ Before /\ Screen /\ Returns

-----------------------------------------------------------------------------
(* Types.                                                                  *)

\* The first CRTC is one of the device.
LEMMA FirstCrtc == crtc_id \in Crtc
BY DisplayAssumption, ElementOfSeq, EmptySeq, LenProperties DEF crtc_id

\* MODE_SETCRTC keeps the table of the CRTCs a table.
LEMMA SetCrtcType ==
  ASSUME NEW table \in [Crtc -> CrtcState], NEW fb \in Fb, NEW k \in Conn
  PROVE  SetCrtc(table, crtc_id, fb, k) \in [Crtc -> CrtcState]
BY FirstCrtc DEF SetCrtc, CrtcState, Off, Fb

\* So does removing the framebuffer.
LEMMA RmFbType ==
  ASSUME NEW table \in [Crtc -> CrtcState]
  PROVE  RmFb(table) \in [Crtc -> CrtcState]
BY DEF RmFb, CrtcState, Off, Fb

\* Releasing keeps the types.
LEMMA ReleaseType ==
  ASSUME TypeOK, NEW R \in SUBSET Resource, Release(R)
  PROVE  /\ live' \subseteq Resource /\ faults' \subseteq Resource
         /\ crtc' \in [Crtc -> CrtcState]
BY RmFbType DEF TypeOK, KmsTypeOK, Release

\* The entries of the list are connectors.
LEMMA ConnType ==
  ASSUME NEW i \in Nat \ {0}, i <= Len(ConnectorIds)
  PROVE  ConnectorIds[i] \in Conn
BY DisplayAssumption, ElementOfSeq, LenProperties

\* The types hold at the start.
LEMMA TypeInit == Init => TypeOK /\ Found
<1> SUFFICES ASSUME Init PROVE TypeOK /\ Found
  OBVIOUS
<1>1. Len(ConnectorIds) \in Nat /\ cursor \in 1..Len(ConnectorIds) + 1
  BY DisplayAssumption, LenProperties DEF Init
<1>2. crtc \in [Crtc -> CrtcState]
  BY DEF Init, KmsInit, CrtcState, Off, Fb
<1>3. scope \in Seq(Obj)
  BY DEF Init
<1>4. objects \in [Obj -> SUBSET Resource]
  BY DEF Init
<1>5. saver \in [orig : Orig, saved : BOOLEAN]
  BY DEF Init
<1> QED
  BY <1>1, <1>2, <1>3, <1>4, <1>5
     DEF Init, KmsInit, TypeOK, KmsTypeOK, Found, Setup, Displaying, Fb

\* Each step keeps the types.
LEMMA TypeStep ==
  ASSUME TypeOK, Found, [Next]_vars
  PROVE  TypeOK' /\ Found'
<1> USE DEF Goto, Fails, Return, Setup, Displaying
<1>1. Len(ConnectorIds) \in Nat
  BY DisplayAssumption, LenProperties
<1>2. {<<>>, <<"buf">>, <<"dumb", "opt">>} \subseteq Seq(Obj)
  BY DEF Obj
<1>3. CASE load_bmp
  BY <1>3, <1>2 DEF load_bmp, TypeOK, KmsTypeOK, Found, kmsVars, Call
<1>4. CASE DrmFd
  BY <1>4, <1>2 DEF DrmFd, TypeOK, KmsTypeOK, Found, kmsVars, Call
<1>5. CASE GetResources
  BY <1>5, <1>2 DEF GetResources, TypeOK, KmsTypeOK, Found, kmsVars, Call
<1>6. CASE FirstGetConnector
  <2>1. ConnectorIds[cursor] \in Conn
    BY <1>6, <1>1, ConnType DEF FirstGetConnector, TypeOK
  <2>2. modes[ConnectorIds[cursor]] \in Nat
    BY <2>1, KmsAssumption DEF TypeOK, KmsTypeOK
  <2>3. /\ cursor' \in 1..Len(ConnectorIds) + 1
        /\ pc' = "connector2" => cursor' <= Len(ConnectorIds)
    BY <1>6, <1>1 DEF FirstGetConnector, Advance, TypeOK
  <2> QED
    BY <1>6, <2>2, <2>3
       DEF FirstGetConnector, TypeOK, KmsTypeOK, Found, kmsVars, Call
<1>7. CASE SecondGetConnector
  <2>1. ConnectorIds[cursor] \in Conn
    BY <1>7, <1>1, ConnType DEF SecondGetConnector, TypeOK, Found
  <2>2. cursor' \in 1..Len(ConnectorIds) + 1
    BY <1>7, <1>1 DEF SecondGetConnector, Advance, TypeOK, Found
  <2> QED
    BY <1>7, <2>1, <2>2
       DEF SecondGetConnector, TypeOK, KmsTypeOK, Found, kmsVars, Call
<1>8. CASE NoConnector
  BY <1>8, <1>2 DEF NoConnector, TypeOK, KmsTypeOK, Found, kmsVars
<1>9. CASE CreateDumb
  BY <1>9, <1>2, ZenonT(60)
     DEF CreateDumb, Create, TypeOK, KmsTypeOK, Found, Call, Resource, Obj
<1>10. CASE MapDumb
  <2>1. ASSUME Release({"handle"})
        PROVE  /\ live' \subseteq Resource /\ faults' \subseteq Resource
               /\ crtc' \in [Crtc -> CrtcState]
    BY <2>1, ReleaseType DEF Resource
  <2> QED
    BY <1>10, <1>2, <2>1 DEF MapDumb, TypeOK, KmsTypeOK, Found, Call
<1>11. CASE Mmap
  <2>1. ASSUME Release({"handle"})
        PROVE  /\ live' \subseteq Resource /\ faults' \subseteq Resource
               /\ crtc' \in [Crtc -> CrtcState]
    BY <2>1, ReleaseType DEF Resource
  <2>2. ASSUME Create("map")
        PROVE  /\ live' \subseteq Resource
               /\ objects' \in [Obj -> SUBSET Resource]
    BY <2>2 DEF Create, TypeOK, KmsTypeOK, Resource, Obj
  <2> QED
    BY <1>11, <1>2, <2>1, <2>2 DEF Mmap, TypeOK, KmsTypeOK, Found, Call
<1>12. CASE AddFb
  <2>1. ASSUME Release({"map", "handle"})
        PROVE  /\ live' \subseteq Resource /\ faults' \subseteq Resource
               /\ crtc' \in [Crtc -> CrtcState]
    BY <2>1, ReleaseType DEF Resource
  <2>2. ASSUME Create("fb")
        PROVE  /\ live' \subseteq Resource
               /\ objects' \in [Obj -> SUBSET Resource]
    BY <2>2 DEF Create, TypeOK, KmsTypeOK, Resource, Obj
  <2> QED
    BY <1>12, <1>2, <2>1, <2>2 DEF AddFb, TypeOK, KmsTypeOK, Found, Call
<1>13. CASE ReturnBuf
  <2>1. objects["buf"] \in SUBSET Resource
    BY DEF TypeOK, Obj
  <2>2. ASSUME Release(objects["buf"])
        PROVE  /\ live' \subseteq Resource /\ faults' \subseteq Resource
               /\ crtc' \in [Crtc -> CrtcState]
    BY <2>1, <2>2, ReleaseType
  <2>3. Moved("buf", "opt") \in [Obj -> SUBSET Resource]
    BY DEF Moved, TypeOK, Obj
  <2> QED
    BY <1>13, <2>2, <2>3 DEF ReturnBuf, TypeOK, KmsTypeOK, Found
<1>14. CASE MoveToMain
  BY <1>14 DEF MoveToMain, Moved, TypeOK, KmsTypeOK, Found, kmsVars, Obj
<1>15. CASE SaveCrtc
  <2>1. [orig |-> [fb |-> crtc[crtc_id].fb,
                   mode_valid |-> crtc[crtc_id].conns # {}],
         saved |-> TRUE] \in [orig : Orig, saved : BOOLEAN]
    BY FirstCrtc DEF TypeOK, KmsTypeOK, CrtcState, Orig
  <2> QED
    BY <1>15, <2>1 DEF SaveCrtc, TypeOK, KmsTypeOK, Found, kmsVars, Call
<1>16. CASE ShowImage
  <2>1. SetCrtc(crtc, crtc_id, "own", conn_id) \in [Crtc -> CrtcState]
    BY <1>16, SetCrtcType DEF ShowImage, TypeOK, KmsTypeOK, Found, Fb
  <2> QED
    BY <1>16, <1>2, <2>1 DEF ShowImage, TypeOK, KmsTypeOK, Found, Call
<1>17. CASE WhileTest
  BY <1>17 DEF WhileTest, TypeOK, KmsTypeOK, Found, kmsVars, progVars
<1>18. CASE Pause
  BY <1>18 DEF Pause, TypeOK, KmsTypeOK, Found, kmsVars, progVars
<1>19. CASE RestoreCrtc
  <2>1. SetCrtc(crtc, crtc_id, saver.orig.fb, conn_id) \in [Crtc -> CrtcState]
    BY <1>19, SetCrtcType DEF RestoreCrtc, TypeOK, KmsTypeOK, Found, Orig
  <2> QED
    BY <1>19, <1>2, <2>1 DEF RestoreCrtc, TypeOK, KmsTypeOK, Found, Call
<1>20. CASE Destroy
  <2>1. Head(scope) \in Obj /\ Tail(scope) \in Seq(Obj)
    BY <1>20, HeadTailProperties DEF Destroy, TypeOK
  <2>2. /\ live' \subseteq Resource /\ faults' \subseteq Resource
        /\ crtc' \in [Crtc -> CrtcState]
    BY <1>20, <2>1, ReleaseType DEF Destroy, TypeOK
  <2>3. objects' \in [Obj -> SUBSET Resource]
    BY <1>20, <2>1 DEF Destroy, TypeOK
  <2> QED
    BY <1>20, <2>1, <2>2, <2>3 DEF Destroy, TypeOK, KmsTypeOK, Found
<1>21. CASE Unwound
  BY <1>21 DEF Unwound, TypeOK, KmsTypeOK, Found, kmsVars, progVars
<1>22. CASE Close
  <2>1. crtc' \in [Crtc -> CrtcState]
    BY <1>22, RmFbType DEF Close, TypeOK, KmsTypeOK
  <2> QED
    BY <1>22, <2>1 DEF Close, TypeOK, KmsTypeOK, Found, progVars
<1>23. CASE signal_handler
  BY <1>23 DEF signal_handler, TypeOK, KmsTypeOK, Found, kmsVars, progVars
<1>24. CASE Monitor
  BY <1>24 DEF Monitor, HotPlug, TypeOK, KmsTypeOK, Found, progVars
<1>25. CASE UNCHANGED vars
  BY <1>25 DEF vars, progVars, kmsVars, TypeOK, KmsTypeOK, Found
<1> QED
  BY <1>3, <1>4, <1>5, <1>6, <1>7, <1>8, <1>9, <1>10, <1>11, <1>12, <1>13,
     <1>14, <1>15, <1>16, <1>17, <1>18, <1>19, <1>20, <1>21, <1>22, <1>23,
     <1>24, <1>25 DEF Next, Step, Terminated

-----------------------------------------------------------------------------
(* Ownership.                                                              *)

\* Nothing is held at the start.
LEMMA OwnersInit == Init => Owners
BY DEF Init, KmsInit, Owners, Held, Only, Displaying

\* Each step hands the resources on, releases what it gives up, or leaves all
\* where it is.
LEMMA OwnersStep ==
  ASSUME TypeOK, Owners, [Next]_vars
  PROVE  Owners'
<1> USE DEF Goto, Return, Displaying, Owners, Held, Only
<1>1. CASE load_bmp
  BY <1>1 DEF load_bmp, kmsVars
<1>2. CASE DrmFd
  BY <1>2 DEF DrmFd, kmsVars
<1>3. CASE GetResources
  BY <1>3 DEF GetResources, kmsVars
<1>4. CASE FirstGetConnector
  BY <1>4 DEF FirstGetConnector, kmsVars
<1>5. CASE SecondGetConnector
  BY <1>5 DEF SecondGetConnector, kmsVars
<1>6. CASE NoConnector
  BY <1>6 DEF NoConnector, kmsVars
<1>7. CASE CreateDumb
  BY <1>7 DEF CreateDumb, Create, Obj, Resource
<1>8. CASE MapDumb
  BY <1>8 DEF MapDumb, Release, Obj, Resource
<1>9. CASE Mmap
  BY <1>9 DEF Mmap, Create, Release, Obj, Resource
<1>10. CASE AddFb
  BY <1>10 DEF AddFb, Create, Release, Obj, Resource
<1>11. CASE ReturnBuf
  BY <1>11 DEF ReturnBuf, Moved, Release, Obj, Resource
<1>12. CASE MoveToMain
  BY <1>12 DEF MoveToMain, Moved, kmsVars, Obj, Resource
<1>13. CASE SaveCrtc
  BY <1>13 DEF SaveCrtc, kmsVars
<1>14. CASE ShowImage
  BY <1>14 DEF ShowImage
<1>15. CASE WhileTest
  BY <1>15 DEF WhileTest, progVars, kmsVars
<1>16. CASE Pause
  BY <1>16 DEF Pause, progVars, kmsVars
<1>17. CASE RestoreCrtc
  BY <1>17 DEF RestoreCrtc
<1>18. CASE Destroy
  <2>1. CASE scope = <<"buf">>
    <3>1. Head(scope) = "buf" /\ Tail(scope) = <<>>
      BY <2>1
    <3>2. live = {} /\ Only("buf", objects["buf"])
      BY <1>18, <2>1 DEF Destroy
    <3> QED
      BY <1>18, <3>1, <3>2 DEF Destroy, Release, Obj
  <2>2. CASE scope = <<"dumb", "opt">>
    <3>1. Head(scope) = "dumb" /\ Tail(scope) = <<"opt">>
      BY <2>2
    <3>2. Held("dumb", Resource)
      BY <1>18, <2>2 DEF Destroy
    <3> QED
      BY <1>18, <3>1, <3>2 DEF Destroy, Release, Obj
  <2>3. CASE scope = <<"opt">>
    <3>1. Head(scope) = "opt" /\ Tail(scope) = <<>>
      BY <2>3
    <3>2. Held("buf", {})
      BY <1>18, <2>3 DEF Destroy
    <3> QED
      BY <1>18, <3>1, <3>2 DEF Destroy, Release, Obj
  <2> QED
    BY <1>18, <2>1, <2>2, <2>3 DEF Destroy
<1>19. CASE Unwound
  BY <1>19 DEF Unwound, progVars, kmsVars
<1>20. CASE Close
  BY <1>20 DEF Close, progVars
<1>21. CASE signal_handler
  BY <1>21 DEF signal_handler, progVars, kmsVars
<1>22. CASE Monitor
  BY <1>22 DEF Monitor, HotPlug, progVars
<1>23. CASE UNCHANGED vars
  BY <1>23 DEF vars, progVars, kmsVars
<1> QED
  BY <1>1, <1>2, <1>3, <1>4, <1>5, <1>6, <1>7, <1>8, <1>9, <1>10, <1>11,
     <1>12, <1>13, <1>14, <1>15, <1>16, <1>17, <1>18, <1>19, <1>20, <1>21,
     <1>22, <1>23
     DEF Next, Step, Terminated

-----------------------------------------------------------------------------
(* Releases.                                                               *)

\* No step but a failure halfway through create() releases what is not live.
LEMMA ReleasesStep ==
  ASSUME TypeOK, Owners, Releases, [Next]_vars
  PROVE  Releases'
<1> USE DEF Goto, Fails, Return, Displaying, Releases, Halfway
<1>1. CASE load_bmp
  BY <1>1 DEF load_bmp, kmsVars
<1>2. CASE DrmFd
  BY <1>2 DEF DrmFd, kmsVars
<1>3. CASE GetResources
  BY <1>3 DEF GetResources, kmsVars
<1>4. CASE FirstGetConnector
  BY <1>4 DEF FirstGetConnector, kmsVars
<1>5. CASE SecondGetConnector
  BY <1>5 DEF SecondGetConnector, kmsVars
<1>6. CASE NoConnector
  BY <1>6 DEF NoConnector, kmsVars
<1>7. CASE CreateDumb
  BY <1>7 DEF CreateDumb, Create, Owners, Held, Only, Obj
<1>8. CASE MapDumb
  BY <1>8 DEF MapDumb, Release
<1>9. CASE Mmap
  BY <1>9 DEF Mmap, Create, Release
<1>10. CASE AddFb
  BY <1>10 DEF AddFb, Create, Release
<1>11. CASE ReturnBuf
  BY <1>11 DEF ReturnBuf, Moved, Release, Owners, Held, Only, Obj
<1>12. CASE MoveToMain
  BY <1>12 DEF MoveToMain, kmsVars
<1>13. CASE SaveCrtc
  BY <1>13 DEF SaveCrtc, kmsVars
<1>14. CASE ShowImage
  BY <1>14 DEF ShowImage
<1>15. CASE WhileTest
  BY <1>15 DEF WhileTest, progVars, kmsVars
<1>16. CASE Pause
  BY <1>16 DEF Pause, progVars, kmsVars
<1>17. CASE RestoreCrtc
  BY <1>17 DEF RestoreCrtc
<1>18. CASE Destroy
  BY <1>18 DEF Destroy, Release, Owners, Held, Only, Obj, Resource
<1>19. CASE Unwound
  BY <1>19 DEF Unwound, progVars, kmsVars
<1>20. CASE Close
  BY <1>20 DEF Close, progVars
<1>21. CASE signal_handler
  BY <1>21 DEF signal_handler, progVars, kmsVars
<1>22. CASE Monitor
  BY <1>22 DEF Monitor, HotPlug, progVars
<1>23. CASE UNCHANGED vars
  BY <1>23 DEF vars, progVars, kmsVars
<1> QED
  BY <1>1, <1>2, <1>3, <1>4, <1>5, <1>6, <1>7, <1>8, <1>9, <1>10, <1>11,
     <1>12, <1>13, <1>14, <1>15, <1>16, <1>17, <1>18, <1>19, <1>20, <1>21,
     <1>22, <1>23
     DEF Next, Step, Terminated

-----------------------------------------------------------------------------
(* The display.                                                            *)

\* Removing the framebuffer changes nothing while it is not on the screen.
LEMMA NothingToRemove ==
  ASSUME TypeOK, Before, ~shown
  PROVE  RmFb(crtc) = crtc
BY DEF TypeOK, KmsTypeOK, Before, RmFb, Off

\* Only ShowImage changes the display before it has been shown.
LEMMA BeforeStep ==
  ASSUME TypeOK, Before, [Next]_vars
  PROVE  Before'
<1> USE DEF Goto, Fails, Return, Displaying, Setup, Before
<1>1. CASE load_bmp
  BY <1>1 DEF load_bmp, kmsVars
<1>2. CASE DrmFd
  BY <1>2 DEF DrmFd, kmsVars
<1>3. CASE GetResources
  BY <1>3 DEF GetResources, kmsVars
<1>4. CASE FirstGetConnector
  BY <1>4 DEF FirstGetConnector, kmsVars
<1>5. CASE SecondGetConnector
  BY <1>5 DEF SecondGetConnector, kmsVars
<1>6. CASE NoConnector
  BY <1>6 DEF NoConnector, kmsVars
<1>7. CASE CreateDumb
  BY <1>7 DEF CreateDumb, Create
<1>8. CASE MapDumb
  BY <1>8, NothingToRemove DEF MapDumb, Release
<1>9. CASE Mmap
  BY <1>9, NothingToRemove DEF Mmap, Create, Release
<1>10. CASE AddFb
  BY <1>10, NothingToRemove DEF AddFb, Create, Release
<1>11. CASE ReturnBuf
  BY <1>11, NothingToRemove DEF ReturnBuf, Release
<1>12. CASE MoveToMain
  BY <1>12 DEF MoveToMain, kmsVars
<1>13. CASE SaveCrtc
  BY <1>13 DEF SaveCrtc, kmsVars
<1>14. CASE ShowImage
  BY <1>14 DEF ShowImage
<1>15. CASE WhileTest
  BY <1>15 DEF WhileTest, progVars, kmsVars
<1>16. CASE Pause
  BY <1>16 DEF Pause, progVars, kmsVars
<1>17. CASE RestoreCrtc
  BY <1>17 DEF RestoreCrtc
<1>18. CASE Destroy
  BY <1>18, NothingToRemove DEF Destroy, Release
<1>19. CASE Unwound
  BY <1>19 DEF Unwound, progVars, kmsVars
<1>20. CASE Close
  BY <1>20, NothingToRemove DEF Close, progVars
<1>21. CASE signal_handler
  BY <1>21 DEF signal_handler, progVars, kmsVars
<1>22. CASE Monitor
  BY <1>22 DEF Monitor, HotPlug, progVars
<1>23. CASE UNCHANGED vars
  BY <1>23 DEF vars, progVars, kmsVars
<1> QED
  BY <1>1, <1>2, <1>3, <1>4, <1>5, <1>6, <1>7, <1>8, <1>9, <1>10, <1>11,
     <1>12, <1>13, <1>14, <1>15, <1>16, <1>17, <1>18, <1>19, <1>20, <1>21,
     <1>22, <1>23
     DEF Next, Step, Terminated

\* From ShowImage to RestoreCrtc the first CRTC shows the image.
LEMMA ScreenStep ==
  ASSUME TypeOK, Screen, [Next]_vars
  PROVE  Screen'
<1> USE DEF Goto, Fails, Return, Displaying, Screen, Own
<1>1. CASE load_bmp
  BY <1>1 DEF load_bmp, kmsVars
<1>2. CASE DrmFd
  BY <1>2 DEF DrmFd, kmsVars
<1>3. CASE GetResources
  BY <1>3 DEF GetResources, kmsVars
<1>4. CASE FirstGetConnector
  BY <1>4 DEF FirstGetConnector, kmsVars
<1>5. CASE SecondGetConnector
  BY <1>5 DEF SecondGetConnector, kmsVars
<1>6. CASE NoConnector
  BY <1>6 DEF NoConnector, kmsVars
<1>7. CASE CreateDumb
  BY <1>7 DEF CreateDumb, Create
<1>8. CASE MapDumb
  BY <1>8 DEF MapDumb
<1>9. CASE Mmap
  BY <1>9 DEF Mmap
<1>10. CASE AddFb
  BY <1>10 DEF AddFb
<1>11. CASE ReturnBuf
  BY <1>11 DEF ReturnBuf
<1>12. CASE MoveToMain
  BY <1>12 DEF MoveToMain, kmsVars
<1>13. CASE SaveCrtc
  BY <1>13 DEF SaveCrtc, kmsVars
<1>14. CASE ShowImage
  BY <1>14, FirstCrtc DEF ShowImage, SetCrtc
<1>15. CASE WhileTest
  BY <1>15 DEF WhileTest, progVars, kmsVars
<1>16. CASE Pause
  BY <1>16 DEF Pause, progVars, kmsVars
<1>17. CASE RestoreCrtc
  BY <1>17 DEF RestoreCrtc
<1>18. CASE Destroy
  BY <1>18 DEF Destroy
<1>19. CASE Unwound
  BY <1>19 DEF Unwound, progVars, kmsVars
<1>20. CASE Close
  BY <1>20 DEF Close, progVars
<1>21. CASE signal_handler
  BY <1>21 DEF signal_handler, progVars, kmsVars
<1>22. CASE Monitor
  BY <1>22 DEF Monitor, HotPlug, progVars
<1>23. CASE UNCHANGED vars
  BY <1>23 DEF vars, progVars, kmsVars
<1> QED
  BY <1>1, <1>2, <1>3, <1>4, <1>5, <1>6, <1>7, <1>8, <1>9, <1>10, <1>11,
     <1>12, <1>13, <1>14, <1>15, <1>16, <1>17, <1>18, <1>19, <1>20, <1>21,
     <1>22, <1>23
     DEF Next, Step, Terminated

-----------------------------------------------------------------------------
(* The way back.                                                           *)

\* When the first CRTC and the connector belong together, MODE_SETCRTC
\* changes no other CRTC.
LEMMA OnlyFirst ==
  ASSUME TypeOK, Before, Pair, NEW fb \in Fb, NEW own \in CrtcState,
         NEW table, table = [crtc0 EXCEPT ![crtc_id] = own]
  PROVE  SetCrtc(table, crtc_id, fb, conn_id)
           = [crtc0 EXCEPT ![crtc_id] = [fb |-> fb, conns |-> {conn_id}]]
<1>1. crtc0 \in [Crtc -> CrtcState] /\ crtc_id \in Crtc
  BY FirstCrtc DEF TypeOK
<1>2. ASSUME NEW d \in Crtc, d # crtc_id
      PROVE  (IF table[d].conns \subseteq {conn_id} THEN Off
              ELSE [table[d] EXCEPT !.conns = @ \ {conn_id}]) = crtc0[d]
  <2>1. table[d] = crtc0[d] /\ crtc0[d] \in CrtcState
    BY <1>1, <1>2
  <2>2. conn_id \notin crtc0[d].conns
    BY <1>2 DEF Pair
  <2>3. crtc0[d].conns \subseteq {conn_id} => crtc0[d] = Off
    BY <2>2 DEF Before
  <2>4. [crtc0[d] EXCEPT !.conns = @ \ {conn_id}] = crtc0[d]
    BY <2>1, <2>2 DEF CrtcState
  <2> QED
    BY <2>1, <2>3, <2>4
<1> QED
  BY <1>1, <1>2 DEF SetCrtc

\* Removing the framebuffer from the display at the start changes nothing.
LEMMA NoneAtStart ==
  ASSUME TypeOK, Before
  PROVE  RmFb(crtc0) = crtc0
BY DEF TypeOK, Before, RmFb, Off

\* SaveCrtc keeps what RestoreCrtc, or the removal of the framebuffer, puts
\* back.
LEMMA ReturnsStep ==
  ASSUME TypeOK, Found, Owners, Before, Returns, [Next]_vars
  PROVE  Returns'
<1> USE DEF Goto, Fails, Return, Displaying, Setup, Returns, Pair, Replaced, Own
<1>1. CASE load_bmp
  BY <1>1 DEF load_bmp, kmsVars, Before
<1>2. CASE DrmFd
  BY <1>2 DEF DrmFd, kmsVars, Before
<1>3. CASE GetResources
  BY <1>3 DEF GetResources, kmsVars, Before
<1>4. CASE FirstGetConnector
  BY <1>4 DEF FirstGetConnector, kmsVars, Before
<1>5. CASE SecondGetConnector
  BY <1>5 DEF SecondGetConnector, kmsVars, Before
<1>6. CASE NoConnector
  BY <1>6 DEF NoConnector, kmsVars, Before
<1>7. CASE CreateDumb
  BY <1>7 DEF CreateDumb, Before
<1>8. CASE MapDumb
  BY <1>8 DEF MapDumb, Before
<1>9. CASE Mmap
  BY <1>9 DEF Mmap, Before
<1>10. CASE AddFb
  BY <1>10 DEF AddFb, Before
<1>11. CASE ReturnBuf
  BY <1>11 DEF ReturnBuf, Before
<1>12. CASE MoveToMain
  BY <1>12 DEF MoveToMain, kmsVars, Before
<1>13. CASE SaveCrtc
  BY <1>13 DEF SaveCrtc, Before, kmsVars
<1>14. CASE ShowImage
  <2>1. ~shown /\ crtc = crtc0 /\ conn_id' = conn_id /\ crtc0' = crtc0
    BY <1>14 DEF ShowImage, Before
  <2>2. ASSUME Pair, crtc' = SetCrtc(crtc, crtc_id, "own", conn_id)
        PROVE  Replaced'
    <3>1. crtc = [crtc0 EXCEPT ![crtc_id] = crtc0[crtc_id]]
      BY <2>1 DEF TypeOK
    <3>2. crtc0[crtc_id] \in CrtcState
      BY FirstCrtc DEF TypeOK
    <3> HIDE DEF Pair
    <3> QED
      BY <2>1, <2>2, <3>1, <3>2, OnlyFirst DEF Fb
  <2> QED
    BY <1>14, <2>1, <2>2 DEF ShowImage
<1>15. CASE WhileTest
  BY <1>15 DEF WhileTest, progVars, kmsVars, Before
<1>16. CASE Pause
  BY <1>16 DEF Pause, progVars, kmsVars, Before
<1>17. CASE RestoreCrtc
  <2> DEFINE Kept == /\ shown /\ failed' \cap {"GETCRTC", "RESTORE"} = {}
                    /\ Pair
  <2>1. /\ shown' = shown /\ conn_id' = conn_id /\ crtc0' = crtc0
        /\ pc' = "unwind" /\ live' = live /\ failed \subseteq failed'
    BY <1>17 DEF RestoreCrtc
  <2>2. live = Resource
    BY <1>17 DEF RestoreCrtc, Owners, Held
  <2>3. ASSUME Kept
        PROVE  \/ crtc' = crtc0
               \/ crtc' = crtc /\ crtc0[crtc_id] = Off
    <3>1. /\ Replaced
          /\ saver.orig = [fb |-> crtc0[crtc_id].fb,
                          mode_valid |-> crtc0[crtc_id].conns # {}]
      BY <1>17, <2>1, <2>3 DEF RestoreCrtc
    <3>2. crtc0[crtc_id] \in CrtcState /\ conn_id \in Conn
      BY <1>17, FirstCrtc DEF TypeOK, Found, RestoreCrtc
    <3> DEFINE orig == saver.orig
    <3>3. /\ orig.fb = crtc0[crtc_id].fb
          /\ orig.mode_valid <=> crtc0[crtc_id].conns # {}
      <4> DEFINE b == crtc0[crtc_id].conns # {}
      <4>1. saver.orig = [fb |-> crtc0[crtc_id].fb, mode_valid |-> b]
        BY <3>1
      <4>2. b \in BOOLEAN
        OBVIOUS
      <4> HIDE DEF b
      <4>3. orig.fb = crtc0[crtc_id].fb /\ orig.mode_valid = b
        BY <4>1
      <4>4. orig.mode_valid <=> b
        BY <4>3, Zenon
      <4> QED
        BY <4>3, <4>4 DEF b
    <3>4. \/ orig.mode_valid /\ crtc' = SetCrtc(crtc, crtc_id, orig.fb, conn_id)
          \/ "RESTORE" \in failed'
          \/ (~orig.mode_valid \/ orig.fb = "none") /\ crtc' = crtc
      BY <1>17 DEF RestoreCrtc
    <3>5. "RESTORE" \notin failed'
      BY <2>3
    <3> HIDE DEF orig
    <3>6. CASE crtc0[crtc_id].conns = {}
      <4>1. crtc0[crtc_id] = Off
        BY <3>6, FirstCrtc DEF Before
      <4>2. ~orig.mode_valid
        BY <3>6, <3>3
      <4> QED
        BY <4>1, <4>2, <3>4, <3>5
    <3>7. CASE crtc0[crtc_id].conns # {}
      <4>1. crtc0[crtc_id].conns = {conn_id}
        BY <2>3, <3>7
      <4>2. crtc0[crtc_id].fb # "none"
        BY <3>7, FirstCrtc DEF Before, Off
      <4>3. crtc' = SetCrtc(crtc, crtc_id, crtc0[crtc_id].fb, conn_id)
        BY <3>7, <3>3, <3>4, <3>5, <4>2
      <4>4. Own \in CrtcState /\ crtc0[crtc_id].fb \in Fb
        BY <3>2 DEF CrtcState, Fb
      <4>5. crtc' = [crtc0 EXCEPT ![crtc_id] = [fb |-> crtc0[crtc_id].fb,
                                                conns |-> {conn_id}]]
        <5> HIDE DEF Pair, Own
        <5> QED
          BY <2>3, <3>1, <4>3, <4>4, OnlyFirst
      <4>6. [fb |-> crtc0[crtc_id].fb, conns |-> {conn_id}] = crtc0[crtc_id]
        BY <3>2, <4>1 DEF CrtcState
      <4> QED
        BY <4>5, <4>6 DEF TypeOK
    <3> QED
      BY <3>6, <3>7
  <2>4. Kept => Replaced
    BY <1>17, <2>1 DEF RestoreCrtc
  <2> QED
    BY <2>1, <2>2, <2>3, <2>4
<1>18. CASE Destroy
  <2>1. /\ shown' = shown /\ conn_id' = conn_id /\ crtc0' = crtc0
        /\ pc = "unwind" /\ pc' = "unwind" /\ failed' = failed
    BY <1>18 DEF Destroy
  <2>2. crtc' = crtc \/ crtc' = RmFb(crtc)
    BY <1>18 DEF Destroy, Release
  <2>3. CASE crtc = crtc0
    BY <2>1, <2>2, <2>3, NoneAtStart
  <2>4. CASE Replaced /\ crtc0[crtc_id] = Off /\ live = Resource
    <3>1. scope = <<"dumb", "opt">> /\ Held("dumb", Resource)
      BY <2>1, <2>4 DEF Owners, Held, Resource
    <3>2. Head(scope) = "dumb" /\ objects["dumb"] = Resource
      BY <3>1 DEF Held, Only, Obj
    <3>3. crtc' = RmFb(crtc)
      BY <1>18, <2>4, <3>2 DEF Destroy, Release, Resource
    <3>4. ASSUME NEW d \in Crtc
          PROVE  RmFb(crtc)[d] = crtc0[d]
      BY <2>4 DEF RmFb, TypeOK, Before, Off
    <3>5. RmFb(crtc) = crtc0
      BY <3>4 DEF RmFb, TypeOK
    <3> QED
      BY <2>1, <3>3, <3>5
  <2> QED
    BY <2>1, <2>3, <2>4
<1>19. CASE Unwound
  <2>1. live # Resource
    BY <1>19 DEF Unwound, Owners, Held, Resource
  <2> QED
    BY <1>19, <2>1 DEF Unwound, progVars, kmsVars
<1>20. CASE Close
  <2>1. live = {}
    BY <1>20 DEF Close, Owners, Held
  <2> QED
    BY <1>20, <2>1 DEF Close, progVars
<1>21. CASE signal_handler
  BY <1>21 DEF signal_handler, progVars, kmsVars, Before
<1>22. CASE Monitor
  BY <1>22 DEF Monitor, HotPlug, progVars, Before
<1>23. CASE UNCHANGED vars
  BY <1>23 DEF vars, progVars, kmsVars
<1> QED
  BY <1>1, <1>2, <1>3, <1>4, <1>5, <1>6, <1>7, <1>8, <1>9, <1>10, <1>11,
     <1>12, <1>13, <1>14, <1>15, <1>16, <1>17, <1>18, <1>19, <1>20, <1>21,
     <1>22, <1>23
     DEF Next, Step, Terminated

-----------------------------------------------------------------------------
(* The theorems.                                                           *)

\* The invariant holds at the start.
LEMMA InvInit == Init => IInv
<1> SUFFICES ASSUME Init PROVE IInv
  OBVIOUS
<1>1. TypeOK /\ Found /\ Owners
  BY TypeInit, OwnersInit
<1>2. Releases /\ Screen /\ Returns
  BY DEF Init, Releases, Screen, Returns, Displaying
<1>3. Before
  <2>1. ASSUME NEW c \in Crtc
        PROVE  crtc0[c] \in
                 {Off} \cup [fb : {"console"}, conns : (SUBSET Conn) \ {{}}]
    BY DEF Init, KmsInit
  <2>2. ASSUME NEW s \in [fb : {"console"}, conns : (SUBSET Conn) \ {{}}]
        PROVE  s.fb = "console" /\ s.conns # {}
    OBVIOUS
  <2>3. \A c \in Crtc : \/ crtc0[c] = Off
                        \/ crtc0[c].fb = "console" /\ crtc0[c].conns # {}
    BY <2>1, <2>2
  <2> QED
    BY <2>3 DEF Init, Before, Displaying, Setup
<1> QED
  BY <1>1, <1>2, <1>3 DEF IInv

\* Each step keeps it.
LEMMA InvStep == IInv /\ [Next]_vars => IInv'
BY TypeStep, OwnersStep, ReleasesStep, BeforeStep, ScreenStep, ReturnsStep
   DEF IInv

\* So it always holds.
LEMMA InvHolds == Spec => []IInv
BY InvInit, InvStep, PTL DEF Spec

\* Every variable keeps its type: the loop over the connectors stays inside
\* the list, and an object refers to resources only.
THEOREM TypeCorrect == Spec => []TypeOK
<1>1. IInv => TypeOK
  BY DEF IInv
<1> QED
  BY <1>1, InvHolds, PTL

\* Whichever calls fail, a resource that exists is in the hands of exactly one
\* DumbBuffer, on its way from create() to main as well.
THEOREM OneOwnerHolds == Spec => []OneOwner
<1>1. IInv => OneOwner
  <2> SUFFICES ASSUME TypeOK, Owners PROVE OneOwner
    BY DEF IInv
  <2>1. \/ live = {} /\ Only("buf", objects["buf"])
        \/ \E o \in Obj : Held(o, live)
    BY DEF Owners, Held, Only, TypeOK, Setup, Displaying, Obj
  <2> QED
    BY <2>1 DEF OneOwner, Held, Only
<1> QED
  BY <1>1, InvHolds, PTL

\* Whichever calls fail, main has released everything when it closes the
\* device.
THEOREM NothingLeakedHolds == Spec => []NothingLeaked
<1>1. IInv => NothingLeaked
  BY DEF IInv, Owners, Held, NothingLeaked
<1> QED
  BY <1>1, InvHolds, PTL

\* The image on the screen has its buffer, its mapping and its framebuffer
\* until the program leaves the loop.
THEOREM ImageBackedHolds == Spec => []ImageBacked
<1>1. IInv => ImageBacked
  BY DEF IInv, Owners, Held, Screen, Own, ImageBacked, Displaying
<1> QED
  BY <1>1, InvHolds, PTL

\* Nothing is released twice, unless create() failed halfway.
THEOREM ReleasedOnceHolds == Spec => []ReleasedOnceUnlessHalfway
<1>1. IInv => ReleasedOnceUnlessHalfway
  BY DEF IInv, Releases, Halfway, ReleasedOnceUnlessHalfway
<1> QED
  BY <1>1, InvHolds, PTL

\* A run that has not shown its image leaves the display as it was.
THEOREM FailureLeavesDisplayHolds == Spec => []FailureLeavesDisplay
<1>1. IInv => FailureLeavesDisplay
  BY DEF IInv, Before, FailureLeavesDisplay
<1> QED
  BY <1>1, InvHolds, PTL

\* A run that has shown it puts the display back, if the first CRTC and the
\* connector belonged together and the calls for it succeeded.
THEOREM RestoresOwnPairHolds == Spec => []RestoresOwnPair
<1>1. IInv => RestoresOwnPair
  BY DEF IInv, Returns, Pair, RestoresOwnPair
<1> QED
  BY <1>1, InvHolds, PTL

=============================================================================
