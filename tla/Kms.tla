-------------------------------- MODULE Kms --------------------------------
(***************************************************************************)
(* The part of the kernel's mode-setting interface that drm_useADDFB.cpp   *)
(* talks to.  It is not code of this repository; it is modelled from the   *)
(* ioctls the program makes.                                               *)
(*                                                                         *)
(* A CRTC scans out one framebuffer to a set of connectors; without        *)
(* connectors it is off.  The resources of the program's open file are its *)
(* dumb buffer (the handle), the mapping of it and the framebuffer "own".  *)
(***************************************************************************)
EXTENDS Naturals, FiniteSets

CONSTANTS
  Crtc,       \* CRTCs of the device
  Conn,       \* connectors of the device
  MaxModes    \* bound on the number of modes of a monitor

ASSUME KmsAssumption == MaxModes \in Nat

VARIABLES
  crtc,    \* what each CRTC shows, and where
  modes,   \* number of modes of each connector, 0 when nothing is connected
  live     \* the resources of the open file that exist

kmsVars == <<crtc, modes, live>>

Resource == {"handle", "map", "fb"}
Fb == {"none", "console", "own"}
CrtcState == [fb : Fb, conns : SUBSET Conn]
Off == [fb |-> "none", conns |-> {}]

KmsTypeOK ==
  /\ crtc \in [Crtc -> CrtcState]
  /\ modes \in [Conn -> 0..MaxModes]
  /\ live \subseteq Resource

\* At the start the console is shown on some connectors, each on one CRTC.
KmsInit ==
  /\ crtc \in [Crtc -> {Off} \cup [fb : {"console"}, conns : (SUBSET Conn) \ {{}}]]
  /\ \A c, d \in Crtc : c # d => crtc[c].conns \cap crtc[d].conns = {}
  /\ modes \in [Conn -> 0..MaxModes]
  /\ live = {}

\* MODE_SETCRTC takes the connector k away from every other CRTC.
SetCrtc(table, c, fb, k) ==
  [d \in Crtc |-> IF d = c THEN [fb |-> fb, conns |-> {k}]
                  ELSE IF table[d].conns \subseteq {k} THEN Off
                  ELSE [table[d] EXCEPT !.conns = @ \ {k}]]

\* Removing the framebuffer switches off the CRTCs that show it.
RmFb(table) == [d \in Crtc |-> IF table[d].fb = "own" THEN Off ELSE table[d]]

\* A monitor is plugged in, exchanged or pulled out.
HotPlug ==
  /\ \E k \in Conn, n \in 0..MaxModes : modes' = [modes EXCEPT ![k] = n]
  /\ UNCHANGED <<crtc, live>>

=============================================================================
