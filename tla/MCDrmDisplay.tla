---------------------------- MODULE MCDrmDisplay ----------------------------
(***************************************************************************)
(* Two CRTCs and two connectors; monitors have at most two modes.          *)
(***************************************************************************)
EXTENDS DrmDisplay

CONSTANTS c1, c2, k1, k2

TwoCrtcs == <<c1, c2>>
TwoConnectors == <<k1, k2>>

\* Every call, and none.
Anything == Call
Nothing == {}

=============================================================================
